--------------------------- MODULE OverlayProofs ---------------------------
(***************************************************************************)
(* Proofs about Overlay: the virtual snakes of any routers, on any links,  *)
(* after any history.                                                      *)
(*                                                                         *)
(* The routers of Overlay are those of TreeNetwork: each step of theirs is *)
(* one of TreeNetwork's or leaves its variables alone, so that whatever    *)
(* holds there holds here.                                                 *)
(***************************************************************************)
EXTENDS Overlay, TreeNetworkProofs

----------------------------------------------------------------------------
(* The tree.                                                                *)

LEMMA OverlayStep == [OverlayNext]_overlayVars => [Next]_vars
<1> SUFFICES ASSUME [OverlayNext]_overlayVars PROVE [Next]_vars
  OBVIOUS
<1>1. CASE TreeStep
  <2>1. CASE \E l \in Links : Connect(l) \/ Break(l)
    BY <2>1 DEF Next
  <2>2. CASE \E n \in Node : EndWait(n) \/ MaintainTree(n)
    BY <2>2 DEF Next, NodeStep
  <2>3. CASE \E n \in Node, p \in Peers : Deliver(n, p)
    BY <2>3 DEF Next, NodeStep
  <2>4. QED
    BY <1>1, <2>1, <2>2, <2>3 DEF TreeStep
<1>2. CASE \E n \in Node, p \in Peers : LosePeer(n, p)
  BY <1>2 DEF LosePeer, Next, NodeStep
<1>3. CASE \E n \in Node, p \in Peers : HandleBootstrap(n, p)
  BY <1>3 DEF HandleBootstrap
<1>4. CASE \E n \in Node : MaintainSnake(n)
  BY <1>4 DEF MaintainSnake
<1>5. CASE \E n, k \in Node : Expire(n, k)
  BY <1>5 DEF Expire
<1>6. CASE \E n \in Node : \E d \in Node \ {n} : WriteTo(n, d) \/ ForgetCoords(n, d)
  BY <1>6 DEF WriteTo, ForgetCoords
<1>7. CASE Forward
  BY <1>7 DEF Forward
<1>8. CASE UNCHANGED overlayVars
  BY <1>8 DEF overlayVars
<1>9. QED
  BY <1>1, <1>2, <1>3, <1>4, <1>5, <1>6, <1>7, <1>8 DEF OverlayNext

LEMMA OverlayNetwork == OverlaySpec => []NetworkIInv
<1>1. OverlayInit => NetworkIInv
  BY InitNetwork DEF OverlayInit
<1>2. NetworkIInv /\ [OverlayNext]_overlayVars => NetworkIInv'
  BY OverlayStep, NextNetwork
<1>3. QED
  BY <1>1, <1>2, PTL DEF OverlaySpec

(* Bootstraps and traffic leave the tree alone: what the routers of Overlay *)
(* do to their trees, the routers of TreeNetwork do.                        *)
THEOREM OverlayIsTreeNetwork == OverlaySpec => Init /\ [][Next]_vars
<1>1. OverlayInit => Init
  BY DEF OverlayInit
<1>2. QED
  BY <1>1, OverlayStep, PTL DEF OverlaySpec

----------------------------------------------------------------------------
(* What a quiet tree means for the search of a next hop.                    *)

Tidy == NetworkIInv /\ Quiet

KeysIn(sigs) == { sigs[i].key : i \in DOMAIN sigs }

(* The keys on the way from the root to v, v's own among them.              *)
Line(v) == {v} \cup KeysIn(Path(v))

LEMMA TidyTree ==
  ASSUME Tidy
  PROVE  PathsAreReal /\ TablesAreReal /\ NobodyIsBetter
BY QuietTables, QuietPaths, QuietNobodyIsBetter DEF Tidy

LEMMA LineType ==
  ASSUME Tidy, NEW v \in Node
  PROVE  /\ Line(v) \in SUBSET Nat /\ v \in Line(v) /\ v \in Nat
         /\ Path(v) \in Seq([key : Nat, hop : Nat]) /\ Len(Path(v)) \in Nat
<1>1. Path(v) \in Seq([key : Nat, hop : Nat])
  BY TidyTree DEF PathsAreReal
<1>2. \A i \in DOMAIN Path(v) : Path(v)[i].key \in Nat
  <2>1. \A i \in 1..Len(Path(v)) : Path(v)[i] \in [key : Nat, hop : Nat]
    BY <1>1, ElementOfSeq
  <2>2. QED
    BY <1>1, <2>1, LenProperties
<1>3. QED
  BY <1>1, <1>2, NetworkAssumption DEF Line, KeysIn

(* The keys of a sequence of signatures and one more.                       *)
LEMMA KeysOfAppend ==
  ASSUME NEW x \in Seq([key : Nat, hop : Nat]), NEW m \in Nat, NEW n \in Nat,
         NEW y, y = Append(x, Signature(m, n))
  PROVE  KeysIn(y) = {m} \cup KeysIn(x)
<1> DEFINE s == Signature(m, n)
<1>1. s \in [key : Nat, hop : Nat] /\ s.key = m
  BY SignatureFacts
<1>0. y = Append(x, s)
  OBVIOUS
<1> HIDE DEF s
<1>2. /\ Len(x) \in Nat /\ DOMAIN x = 1..Len(x) /\ DOMAIN y = 1..(Len(x) + 1)
      /\ \A i \in 1..Len(x) : y[i] = x[i]
      /\ y[Len(x) + 1] = s
  BY <1>0, <1>1, AppendFacts
<1>3. \A i \in DOMAIN y : y[i].key \in {m} \cup KeysIn(x)
  <2>1. TAKE i \in DOMAIN y
  <2>2. CASE i \in 1..Len(x)
    BY <1>2, <2>2 DEF KeysIn
  <2>3. CASE i = Len(x) + 1
    BY <1>1, <1>2, <2>3
  <2>4. QED
    BY <1>2, <2>2, <2>3
<1>4. \A i \in DOMAIN x : i \in DOMAIN y /\ y[i].key = x[i].key
  BY <1>2
<1>5. Len(x) + 1 \in DOMAIN y /\ y[Len(x) + 1].key = m
  BY <1>1, <1>2
<1>6. QED
  BY <1>3, <1>4, <1>5 DEF KeysIn

LEMMA LineOfParent ==
  ASSUME Tidy, NEW v \in Node, state[v].parent # NoPeer
  PROVE  LET m == ParentOf(v) IN
         /\ m \in Node /\ state[v].parent \in up[v] /\ Root(m) = Root(v)
         /\ Announced(m).seq = Announced(v).seq
         /\ Line(v) = {v} \cup Line(m) /\ v \notin Line(m)
         /\ Len(Path(m)) \in Nat /\ Len(Path(v)) = Len(Path(m)) + 1
<1> DEFINE m == ParentOf(v)
           p == state[v].parent
<1>1. PathsAreReal /\ TablesAreReal
  BY TidyTree
<1>2. /\ m \in Node /\ p \in up[v] /\ Root(m) = Root(v) /\ Announced(m).seq = Announced(v).seq
      /\ Path(v) = Append(Path(m), Signature(m, v))
  BY <1>1 DEF PathsAreReal
<1>3. Len(Path(m)) \in Nat /\ Len(Path(v)) = Len(Path(m)) + 1
  BY <1>1, ParentPath
<1>4. Path(m) \in Seq([key : Nat, hop : Nat]) /\ m \in Nat /\ v \in Nat
  BY <1>2, LineType
<1>5. KeysIn(Path(v)) = {m} \cup KeysIn(Path(m))
  BY <1>2, <1>4, KeysOfAppend
<1>6. Line(v) = {v} \cup Line(m)
  BY <1>5 DEF Line
<1>7. v \notin Line(m)
  <2>1. GoodParent(v, state[v], up[v])
    BY DEF Tidy, NetworkIInv, SoundNode
  <2>2. ~Tree(v)!HasSigned(Entry(v, p), v)
    BY <2>1 DEF GoodParent, Entry
  <2>3. Entry(v, p).sigs = Path(v)
    <3>1. m = p[1]
      BY DEF ParentOf
    <3>2. Entry(v, p).sigs = Append(Path(p[1]), Signature(p[1], v))
      <4> HIDE DEF p
      <4>1. QED
        BY ZenonT(60), <1>1, <1>2 DEF TablesAreReal
    <3>3. QED
      BY <1>2, <3>1, <3>2
  <2>4. \A i \in DOMAIN Path(v) : Path(v)[i].key # v
    BY <2>2, <2>3 DEF Tree!HasSigned, Tree!Elements
  <2>5. v \notin KeysIn(Path(v))
    BY <2>4 DEF KeysIn
  <2>6. QED
    BY <1>5, <2>5 DEF Line
<1>8. QED
  BY <1>2, <1>3, <1>6, <1>7

LEMMA LineOfRoot ==
  ASSUME Tidy, NEW v \in Node, state[v].parent = NoPeer
  PROVE  Line(v) = {v} /\ Root(v) = v
<1>1. Path(v) = <<>> /\ Root(v) = v
  BY TidyTree DEF PathsAreReal
<1>2. DOMAIN <<>> = {}
  OBVIOUS
<1>3. KeysIn(Path(v)) = {}
  BY <1>1, <1>2 DEF KeysIn
<1>4. QED
  BY <1>1, <1>3 DEF Line

(* What a router has heard from a peer are the keys on that peer's line.    *)
LEMMA KeysBehindPeer ==
  ASSUME Tidy, NEW v \in Node, NEW p \in up[v]
  PROVE  /\ p \in Peers /\ p # NoPeer /\ p[1] \in Node /\ p[1] # v
         /\ <<v, p[2]>> \in up[p[1]] /\ state[v].announcements[p] # NoAnn
         /\ state[v].announcements[p] \in Stored
         /\ Snake(v)!KeysBehind(state[v], p) = Line(p[1])
<1> DEFINE m == p[1]
           e == Entry(v, p)
<1>1. p \in Peers /\ p # NoPeer
  BY NetworkAssumption DEF Tidy, NetworkIInv, NetworkTypes
<1>2. /\ m \in Node /\ m # v /\ <<v, p[2]>> \in up[m] /\ e # NoAnn /\ e \in Stored
      /\ e.sigs = Append(Path(m), Signature(m, v))
  BY ZenonT(60), TidyTree DEF TablesAreReal
<1>3. Path(m) \in Seq([key : Nat, hop : Nat]) /\ m \in Nat /\ v \in Nat
  BY <1>2, LineType
<1>4. KeysIn(e.sigs) = {m} \cup KeysIn(Path(m))
  BY <1>2, <1>3, KeysOfAppend
<1>5. Snake(v)!KeysBehind(state[v], p) = KeysIn(e.sigs)
  BY <1>1, <1>2 DEF Snake!KeysBehind, Entry, KeysIn
<1>6. QED
  BY <1>1, <1>2, <1>4, <1>5 DEF Line, Entry

(* The root is on every line, and all nodes that follow it know it by the   *)
(* same sequence.                                                           *)
LEMMA RootIsOnLine ==
  ASSUME Tidy
  PROVE  \A v \in Node : /\ Root(v) \in Line(v) /\ Root(v) \in Node
                         /\ Announced(v).seq = Announced(Root(v)).seq
<1> DEFINE Good(v) == /\ Root(v) \in Line(v) /\ Root(v) \in Node
                      /\ Announced(v).seq = Announced(Root(v)).seq
           T == { v \in Node : ~Good(v) }
<1>1. ASSUME T # {} PROVE FALSE
  <2>1. PICK v \in T : \A k \in T : Len(Path(v)) <= Len(Path(k))
    <3>1. T \in SUBSET Node
      OBVIOUS
    <3> HIDE DEF T
    <3>2. QED
      BY <1>1, <3>1, ShortestPath, TidyTree
  <2>2. v \in Node /\ ~Good(v)
    BY <2>1
  <2>3. CASE state[v].parent = NoPeer
    <3>1. Good(v)
      BY <2>2, <2>3, LineOfRoot
    <3>2. QED
      BY <2>2, <3>1
  <2>4. CASE state[v].parent # NoPeer
    <3> DEFINE m == ParentOf(v)
    <3>1. /\ m \in Node /\ Root(m) = Root(v) /\ Announced(m).seq = Announced(v).seq
          /\ Line(v) = {v} \cup Line(m)
          /\ Len(Path(m)) \in Nat /\ Len(Path(v)) = Len(Path(m)) + 1
      BY <2>2, <2>4, LineOfParent
    <3>2. m \notin T
      BY <2>1, <3>1
    <3>3. Good(m)
      BY <3>1, <3>2
    <3>4. Good(v)
      BY <3>1, <3>3
    <3>5. QED
      BY <2>2, <3>4
  <2>5. QED
    BY <2>3, <2>4
<1>2. QED
  BY <1>1

----------------------------------------------------------------------------
(* Components.                                                              *)

Mutual(j, k) == Attached(j, k) /\ Attached(k, j)

Closed(S) == \A k \in S, j \in Node \ S : ~Mutual(j, k)

LEMMA ComponentIsClosed ==
  ASSUME NEW n \in Node
  PROVE  /\ Component(n) \in SUBSET Node /\ n \in Component(n) /\ Closed(Component(n))
         /\ \A S \in SUBSET Node : n \in S /\ Closed(S) => Component(n) \subseteq S
<1> DEFINE C == Component(n)
<1>1. /\ C \in SUBSET Node /\ n \in C
      /\ \A S \in SUBSET Node : n \in S /\ Closed(S) => C \subseteq S
  BY DEF Component, Closed, Mutual
<1>2. ASSUME NEW k \in C, NEW j \in Node \ C, Mutual(j, k) PROVE FALSE
  <2>1. PICK S \in SUBSET Node : n \in S /\ Closed(S) /\ j \notin S
    BY DEF Component, Closed, Mutual
  <2>2. k \in S
    BY <1>1, <2>1
  <2>3. QED
    BY <1>2, <2>1, <2>2 DEF Closed
<1>3. QED
  BY <1>1, <1>2 DEF Closed

LEMMA SameComponent ==
  ASSUME NEW n \in Node, NEW m \in Component(n)
  PROVE  m \in Node /\ Component(m) = Component(n) /\ n \in Component(m)
<1> DEFINE C == Component(n)
           D == Component(m)
           S == C \ D
<1>1. /\ C \in SUBSET Node /\ n \in C /\ Closed(C)
      /\ \A T \in SUBSET Node : n \in T /\ Closed(T) => C \subseteq T
  BY ComponentIsClosed
<1>2. m \in Node
  BY <1>1
<1>3. /\ D \in SUBSET Node /\ m \in D /\ Closed(D)
      /\ \A T \in SUBSET Node : m \in T /\ Closed(T) => D \subseteq T
  BY <1>2, ComponentIsClosed
<1> HIDE DEF C, D
<1>4. m \in C
  BY DEF C
<1>5. D \subseteq C
  BY <1>1, <1>3, <1>4
<1>6. ASSUME n \notin D PROVE FALSE
  <2>1. n \in S /\ S \in SUBSET Node
    BY <1>1, <1>6
  <2>2. Closed(S)
    BY <1>1, <1>3 DEF Closed, Mutual
  <2>3. C \subseteq S
    BY <1>1, <2>1, <2>2
  <2>4. QED
    BY <1>3, <1>4, <2>3
<1>7. C \subseteq D
  BY <1>1, <1>3, <1>6
<1>8. C = D /\ n \in D
  BY <1>5, <1>6, <1>7
<1>9. QED
  BY <1>2, <1>8 DEF C, D

LEMMA PeerInComponent ==
  ASSUME Tidy, NEW v \in Node, NEW p \in up[v]
  PROVE  p[1] \in Component(v)
<1>1. p[1] \in Node /\ <<v, p[2]>> \in up[p[1]] /\ <<v, p[2]>>[1] = v
  BY KeysBehindPeer
<1>2. Mutual(p[1], v)
  BY <1>1 DEF Mutual, Attached
<1>3. v \in Component(v) /\ Closed(Component(v))
  BY ComponentIsClosed
<1>4. QED
  BY <1>1, <1>2, <1>3 DEF Closed

(* All nodes of a component follow its strongest node, which alone has no   *)
(* parent.                                                                  *)
LEMMA OneRoot ==
  ASSUME Tidy, NEW n \in Node, NEW m \in Component(n)
  PROVE  /\ m \in Node /\ RootOf(m) = RootOf(n) /\ Root(m) = Root(n) /\ m <= Root(n)
         /\ RootOf(n).root = Root(n) /\ Root(n) \in Node /\ RootOf(n).rseq \in Nat
         /\ state[n].parent # NoPeer => n < Root(n)
<1>1. m \in Node
  BY SameComponent
<1>2. Root(m) = Root(n) /\ m <= Root(n)
  BY SameRoot, TidyTree
<1>3. \A v \in Node : RootOf(v).root = Root(v) /\ RootOf(v).rseq = Announced(v).seq
                      /\ RootOf(v) = [root |-> Root(v), rseq |-> Announced(v).seq]
  BY DEF RootOf, Root, Announced, Ann
<1>4. Announced(m).seq = Announced(n).seq /\ Root(n) \in Node
  BY <1>1, <1>2, RootIsOnLine
<1>5. Announced(n).seq \in Nat
  BY TidyTree DEF PathsAreReal
<1>6. ASSUME state[n].parent # NoPeer PROVE n < Root(n)
  <2> DEFINE k == ParentOf(n)
  <2>1. k \in Node /\ Root(k) = Root(n) /\ n \notin Line(k)
    BY <1>6, LineOfParent
  <2>2. Root(k) \in Line(k)
    BY <2>1, RootIsOnLine
  <2>3. n # Root(n)
    BY <2>1, <2>2
  <2>4. n <= Root(n) /\ n \in Nat /\ Root(n) \in Nat
    BY TidyTree, NetworkAssumption DEF PathsAreReal
  <2>5. QED
    BY <2>3, <2>4
<1>7. QED
  BY <1>1, <1>2, <1>3, <1>4, <1>5, <1>6

----------------------------------------------------------------------------
(* The search for a next hop.  A bootstrap looks for the least key above    *)
(* the node it is from, a frame of traffic for the least that is not below  *)
(* its destination.                                                         *)
Floor(dest, bootstrap) == IF bootstrap THEN dest ELSE dest - 1

IsLeast(g, S, f) == g \in S /\ g > f /\ \A j \in S : j > f => g <= j

LEMMA LeastExists ==
  ASSUME NEW S \in SUBSET Nat, NEW f \in Int, NEW k \in S, k > f
  PROVE  \E g \in Nat : IsLeast(g, S, f)
<1> DEFINE L == { j \in S : j > f }
<1>1. PICK g \in L : \A j \in L : g <= j
  <2>1. L \in SUBSET Nat /\ L # {}
    OBVIOUS
  <2> HIDE DEF L
  <2>2. QED
    BY <2>1, LeastNatural
<1>2. QED
  BY <1>1 DEF IsLeast

LEMMA LeastIsUnique ==
  ASSUME NEW S \in SUBSET Nat, NEW f \in Int, NEW g, NEW h, IsLeast(g, S, f), IsLeast(h, S, f)
  PROVE  g = h
<1>1. g \in Nat /\ h \in Nat /\ g <= h /\ h <= g
  BY DEF IsLeast
<1>2. QED
  BY <1>1

(* newCheckedCandidate over a set of keys keeps the least key so far.       *)
LEMMA BestOfIsLeast ==
  ASSUME NEW v, NEW keys \in SUBSET Nat, NEW best \in Nat, NEW dest \in Nat,
         NEW bootstrap \in BOOLEAN
  PROVE  LET r == Snake(v)!BestOf(keys, best, dest, bootstrap)
             f == Floor(dest, bootstrap)
         IN  /\ r \in keys \cup {best} /\ r \in Nat
             /\ ~bootstrap /\ dest \in keys => r = dest
             /\ \A S \in SUBSET Nat : IsLeast(best, S, f) => IsLeast(r, S \cup keys, f)
<1> DEFINE r == Snake(v)!BestOf(keys, best, dest, bootstrap)
           f == Floor(dest, bootstrap)
           between == { k \in keys : dest < k /\ k < best }
<1>1. r = IF ~bootstrap /\ dest \in keys THEN dest
          ELSE IF best = dest \/ between = {} THEN best
          ELSE CHOOSE k \in between : \A j \in between : k <= j
  BY DEF Snake!BestOf, Snake!DHTOrdered
<1>2. f \in Int /\ (bootstrap => f = dest) /\ (~bootstrap => f = dest - 1)
  BY DEF Floor
<1> HIDE DEF r, f
<1>3. CASE ~bootstrap /\ dest \in keys
  <2>1. r = dest
    BY <1>1, <1>3
  <2>2. \A S \in SUBSET Nat : IsLeast(r, S \cup keys, f)
    BY <1>2, <1>3, <2>1 DEF IsLeast
  <2>3. QED
    BY <1>3, <2>1, <2>2 DEF r, f
<1>4. CASE ~(~bootstrap /\ dest \in keys) /\ (best = dest \/ between = {})
  <2>1. r = best
    BY <1>1, <1>4
  <2>2. ASSUME NEW S \in SUBSET Nat, IsLeast(best, S, f) PROVE IsLeast(r, S \cup keys, f)
    <3>1. \A j \in keys : j > f => best <= j
      <4>1. TAKE j \in keys
      <4>2. best > f
        BY <2>2 DEF IsLeast
      <4>3. CASE bootstrap
        BY <1>2, <1>4, <4>2, <4>3
      <4>4. CASE ~bootstrap
        <5>1. j # dest
          BY <1>4, <4>4
        <5>2. QED
          BY <1>2, <1>4, <4>2, <4>4, <5>1
      <4>5. QED
        BY <4>3, <4>4
    <3>2. QED
      BY <2>1, <2>2, <3>1 DEF IsLeast
  <2>3. QED
    BY <1>4, <2>1, <2>2 DEF r, f
<1>5. CASE ~(~bootstrap /\ dest \in keys) /\ ~(best = dest \/ between = {})
  <2>1. PICK k \in between : \A j \in between : k <= j
    <3>1. between \in SUBSET Nat /\ between # {}
      BY <1>5
    <3> HIDE DEF between
    <3>2. QED
      BY <3>1, LeastNatural
  <2>2. r \in between /\ \A j \in between : r <= j
    <3>1. r = CHOOSE i \in between : \A j \in between : i <= j
      BY <1>1, <1>5
    <3> HIDE DEF between
    <3>2. QED
      BY <2>1, <3>1
  <2>3. r \in keys /\ r \in Nat /\ dest < r /\ r < best
    BY <2>2
  <2>4. ASSUME NEW S \in SUBSET Nat, IsLeast(best, S, f) PROVE IsLeast(r, S \cup keys, f)
    <3>1. \A j \in S : j > f => r <= j
      BY <2>3, <2>4 DEF IsLeast
    <3>2. \A j \in keys : j > f => r <= j
      <4>1. TAKE j \in keys
      <4>2. j > f => j > dest
        <5>1. CASE bootstrap
          BY <1>2, <5>1
        <5>2. CASE ~bootstrap
          <6>1. j # dest
            BY <1>5, <5>2
          <6>2. QED
            BY <1>2, <5>2, <6>1
        <5>3. QED
          BY <5>1, <5>2
      <4>3. j > dest /\ j < best => r <= j
        BY <2>2
      <4>4. QED
        BY <2>3, <4>2, <4>3
    <3>3. r > f
      <4>1. CASE bootstrap
        BY <1>2, <2>3, <4>1
      <4>2. CASE ~bootstrap
        BY <1>2, <2>3, <4>2
      <4>3. QED
        BY <4>1, <4>2
    <3>4. QED
      BY <2>3, <3>1, <3>2, <3>3 DEF IsLeast
  <2>5. QED
    BY <1>5, <2>3, <2>4 DEF r, f
<1>6. QED
  BY <1>3, <1>4, <1>5

----------------------------------------------------------------------------
(* The keys that v knows by the tree and by its table, and the one its      *)
(* search ends with.                                                        *)
KnownKeys(v) == {v} \cup UNION { Line(p[1]) : p \in up[v] }
EntryKeys(v) == { k \in Node : snake[v].table[k] # NoEntry }

GoalIn(S, f) == CHOOSE g \in Nat : IsLeast(g, S, f)
Goal(v, f) == GoalIn(KnownKeys(v) \cup EntryKeys(v), f)

(* A frame is at its goal, goes up the tree to it, or to a line that it is  *)
(* on, or along the path of a table entry.                                  *)
Stage(v, f) == IF v = Goal(v, f) THEN 0 ELSE IF Goal(v, f) \in Line(v) THEN 1
               ELSE IF Goal(v, f) \in KnownKeys(v) THEN 2 ELSE 3

(* The steps of getNextHopSNEK at v.                                        *)
Above(v) ==
  IF state[v].parent \in up[v] THEN Snake(v)!KeysBehind(state[v], state[v].parent) ELSE {}
Heard(v) == UNION { Snake(v)!KeysBehind(state[v], p) : p \in up[v] }
ToRoot(v, dest, bootstrap) ==
  Snake(v)!TowardsRoot(state[v], up[v], RootOf(v).root, dest, bootstrap)
First(v, dest, bootstrap) == IF ToRoot(v, dest, bootstrap) THEN RootOf(v).root ELSE v
Second(v, dest, bootstrap) ==
  Snake(v)!BestOf(Above(v), First(v, dest, bootstrap), dest, bootstrap)
Third(v, dest, bootstrap) ==
  Snake(v)!BestOf(Heard(v), Second(v, dest, bootstrap), dest, bootstrap)
Usable(v, mark) == Snake(v)!UsableEntries(snake[v], up[v], mark)
Last(v, dest, bootstrap, mark) ==
  Snake(v)!BestOf(Usable(v, mark), Third(v, dest, bootstrap), dest, bootstrap)

LEMMA KnownFacts ==
  ASSUME Tidy, NEW v \in Node
  PROVE  /\ state[v].parent \in up[v] <=> state[v].parent # NoPeer
         /\ state[v].parent = NoPeer => v = Root(v)
         /\ Line(v) = {v} \cup Above(v) /\ v \notin Above(v)
         /\ state[v].parent # NoPeer => Above(v) = Line(ParentOf(v)) /\ Root(v) \in Above(v)
         /\ KnownKeys(v) = {v} \cup Heard(v) /\ Line(v) \subseteq KnownKeys(v)
         /\ KnownKeys(v) \in SUBSET Nat /\ Root(v) \in KnownKeys(v)
         /\ Above(v) \in SUBSET Nat /\ Heard(v) \in SUBSET Nat /\ Above(v) \subseteq Heard(v)
<1> DEFINE p == state[v].parent
<1>1. \A q \in up[v] : /\ q # NoPeer /\ q[1] \in Node /\ Line(q[1]) \in SUBSET Nat
                       /\ Snake(v)!KeysBehind(state[v], q) = Line(q[1])
  BY KeysBehindPeer, LineType
<1>2. Heard(v) = UNION { Line(q[1]) : q \in up[v] } /\ Heard(v) \in SUBSET Nat
  BY <1>1 DEF Heard
<1>3. KnownKeys(v) = {v} \cup Heard(v) /\ v \in Nat
  BY <1>2, NetworkAssumption DEF KnownKeys
<1>4. CASE p = NoPeer
  <2>1. p \notin up[v]
    BY <1>1, <1>4
  <2>2. Above(v) = {}
    BY <2>1 DEF Above
  <2>3. Line(v) = {v} /\ Root(v) = v
    BY <1>4, LineOfRoot
  <2>4. QED
    BY <1>2, <1>3, <1>4, <2>1, <2>2, <2>3
<1>5. CASE p # NoPeer
  <2> DEFINE m == ParentOf(v)
  <2>1. m \in Node /\ p \in up[v] /\ Root(m) = Root(v) /\ Line(v) = {v} \cup Line(m)
        /\ v \notin Line(m)
    BY <1>5, LineOfParent
  <2>2. m = p[1]
    BY DEF ParentOf
  <2>3. Above(v) = Line(m) /\ Line(m) \subseteq Heard(v)
    <3>1. Above(v) = Snake(v)!KeysBehind(state[v], p)
      BY <2>1 DEF Above
    <3>2. Snake(v)!KeysBehind(state[v], p) = Line(m)
      BY <1>1, <2>1, <2>2
    <3>3. QED
      BY <1>2, <2>1, <2>2, <3>1, <3>2
  <2>4. Root(v) \in Line(m)
    BY <2>1, RootIsOnLine
  <2>5. QED
    BY <1>2, <1>3, <1>5, <2>1, <2>3, <2>4
<1>6. QED
  BY <1>4, <1>5

LEMMA GoalIsLeast ==
  ASSUME Tidy, NEW v \in Node, NEW f \in Int, NEW k \in KnownKeys(v) \cup EntryKeys(v), k > f
  PROVE  /\ Goal(v, f) \in Nat
         /\ IsLeast(Goal(v, f), KnownKeys(v) \cup EntryKeys(v), f)
<1> DEFINE S == KnownKeys(v) \cup EntryKeys(v)
<1>1. S \in SUBSET Nat
  BY KnownFacts, NetworkAssumption DEF EntryKeys
<1> HIDE DEF S
<1>2. \E g \in Nat : IsLeast(g, S, f)
  BY <1>1, LeastExists DEF S
<1>3. GoalIn(S, f) \in Nat /\ IsLeast(GoalIn(S, f), S, f)
  BY <1>2 DEF GoalIn
<1>4. QED
  BY <1>3 DEF S, Goal

(* A search at v for dest, whose root is not passed.                        *)
Searches(v, dest, bootstrap) ==
  /\ v \in Node /\ dest \in Node /\ bootstrap \in BOOLEAN
  /\ Floor(dest, bootstrap) < Root(v)
  /\ ~bootstrap => v # dest

LEMMA SearchType ==
  ASSUME Tidy, NEW v, NEW dest, NEW bootstrap, Searches(v, dest, bootstrap)
  PROVE  /\ v \in Nat /\ dest \in Nat /\ Root(v) \in Nat /\ RootOf(v).root = Root(v)
         /\ Floor(dest, bootstrap) \in Int /\ v <= Root(v)
         /\ bootstrap => Floor(dest, bootstrap) = dest
         /\ ~bootstrap => Floor(dest, bootstrap) = dest - 1
<1>1. v \in Node /\ dest \in Node /\ v \in Nat /\ dest \in Nat /\ bootstrap \in BOOLEAN
  BY NetworkAssumption DEF Searches
<1>2. v \in Component(v)
  BY <1>1, ComponentIsClosed
<1>3. RootOf(v).root = Root(v) /\ Root(v) \in Node /\ v <= Root(v)
  BY <1>1, <1>2, OneRoot
<1>4. /\ bootstrap => Floor(dest, bootstrap) = dest
      /\ ~bootstrap => Floor(dest, bootstrap) = dest - 1
  BY DEF Floor
<1>5. Floor(dest, bootstrap) \in Int
  BY <1>1, <1>4
<1>6. QED
  BY <1>1, <1>3, <1>4, <1>5, NetworkAssumption

(* The loops over the trees find the least key known by the tree.           *)
LEMMA ThirdIsLeast ==
  ASSUME Tidy, NEW v, NEW dest, NEW bootstrap, Searches(v, dest, bootstrap)
  PROVE  LET f == Floor(dest, bootstrap)
             first == First(v, dest, bootstrap)
             second == Second(v, dest, bootstrap)
             third == Third(v, dest, bootstrap)
         IN  /\ IsLeast(third, KnownKeys(v), f) /\ third \in Nat
             /\ second \in Above(v) \cup {first}
             /\ second # third => third \notin Line(v)
             /\ ToRoot(v, dest, bootstrap) => first = Root(v) /\ state[v].parent # NoPeer
             /\ ~ToRoot(v, dest, bootstrap) => first = v
<1> DEFINE f == Floor(dest, bootstrap)
           r == Root(v)
           toRoot == ToRoot(v, dest, bootstrap)
           first == First(v, dest, bootstrap)
           second == Second(v, dest, bootstrap)
           third == Third(v, dest, bootstrap)
<1>1. /\ v \in Nat /\ dest \in Nat /\ r \in Nat /\ RootOf(v).root = r /\ v <= r
      /\ f \in Int /\ f < r /\ v \in Node /\ bootstrap \in BOOLEAN
      /\ bootstrap => f = dest
      /\ ~bootstrap => f = dest - 1 /\ v # dest
  BY SearchType DEF Searches
<1>2. /\ state[v].parent \in up[v] <=> state[v].parent # NoPeer
      /\ state[v].parent = NoPeer => v = r
      /\ Line(v) = {v} \cup Above(v)
      /\ state[v].parent # NoPeer => r \in Above(v)
      /\ KnownKeys(v) = {v} \cup Heard(v) /\ r \in KnownKeys(v)
      /\ Above(v) \in SUBSET Nat /\ Heard(v) \in SUBSET Nat /\ Above(v) \subseteq Heard(v)
  BY <1>1, KnownFacts
<1>3. toRoot <=> /\ state[v].parent \in up[v]
                 /\ (bootstrap /\ v = dest) \/ (v < dest /\ dest < r)
  BY <1>1 DEF ToRoot, Snake!TowardsRoot, Snake!DHTOrdered
<1>4. /\ toRoot => first = r /\ state[v].parent # NoPeer
      /\ ~toRoot => first = v
      /\ first \in Nat
  BY <1>1, <1>2, <1>3 DEF First
<1>5. /\ second \in Above(v) \cup {first} /\ second \in Nat
      /\ ~bootstrap /\ dest \in Above(v) => second = dest
      /\ \A S \in SUBSET Nat : IsLeast(first, S, f) => IsLeast(second, S \cup Above(v), f)
  <2>1. second = Snake(v)!BestOf(Above(v), first, dest, bootstrap)
    BY DEF Second
  <2> HIDE DEF first, second
  <2>2. Above(v) \in SUBSET Nat /\ first \in Nat /\ dest \in Nat
        /\ bootstrap \in BOOLEAN
    BY <1>1, <1>2, <1>4
  <2>3. QED
    BY <2>1, <2>2, BestOfIsLeast DEF f
<1>6. /\ third \in Heard(v) \cup {second} /\ third \in Nat
      /\ \A S \in SUBSET Nat : IsLeast(second, S, f) => IsLeast(third, S \cup Heard(v), f)
  <2>1. third = Snake(v)!BestOf(Heard(v), second, dest, bootstrap)
    BY DEF Third
  <2> HIDE DEF second, third
  <2>2. Heard(v) \in SUBSET Nat /\ second \in Nat /\ dest \in Nat
        /\ bootstrap \in BOOLEAN
    BY <1>1, <1>2, <1>5
  <2>3. QED
    BY <2>1, <2>2, BestOfIsLeast DEF f
<1> HIDE DEF f, r, toRoot, first, second, third
<1>7. IsLeast(second, {first} \cup Above(v), f)
  <2>1. CASE first > f
    <3>1. IsLeast(first, {first}, f) /\ {first} \in SUBSET Nat
      BY <1>4, <2>1 DEF IsLeast
    <3>2. QED
      BY <1>5, <3>1
  <2>2. CASE ~(first > f)
    <3>1. first = v /\ ~toRoot
      BY <1>1, <1>4, <2>2
    <3>2. state[v].parent # NoPeer
      BY <1>1, <1>2, <2>2, <3>1
    <3>3. ~bootstrap
      BY <1>1, <1>2, <1>3, <2>2, <3>1, <3>2
    <3>4. dest = r
      BY <1>1, <1>2, <1>3, <2>2, <3>1, <3>2, <3>3
    <3>5. second = dest /\ dest \in Above(v)
      BY <1>2, <1>5, <3>2, <3>3, <3>4
    <3>6. \A j \in {first} \cup Above(v) : j > f => dest <= j
      BY <1>1, <1>2, <1>4, <3>3
    <3>7. QED
      BY <1>1, <3>3, <3>5, <3>6 DEF IsLeast
  <2>3. QED
    BY <2>1, <2>2
<1>8. IsLeast(third, ({first} \cup Above(v)) \cup Heard(v), f)
  <2>1. {first} \cup Above(v) \in SUBSET Nat
    BY <1>2, <1>4
  <2>2. QED
    BY <1>6, <1>7, <2>1
<1>9. IsLeast(third, KnownKeys(v), f)
  <2>1. third \in KnownKeys(v)
    BY <1>2, <1>4, <1>8 DEF IsLeast
  <2>2. v > f => third <= v
    <3>1. toRoot => ~(v > f)
      BY <1>1, <1>3
    <3>2. QED
      BY <1>4, <1>8, <3>1 DEF IsLeast
  <2>3. QED
    BY <1>2, <1>8, <2>1, <2>2 DEF IsLeast
<1>10. ASSUME second # third, third \in Line(v) PROVE FALSE
  <2>1. third > f /\ second > f
    BY <1>7, <1>8 DEF IsLeast
  <2>2. third <= second
    BY <1>8, <1>5, <2>1 DEF IsLeast
  <2>3. CASE third \in Above(v)
    <3>1. second <= third
      BY <1>7, <2>1, <2>3 DEF IsLeast
    <3>2. QED
      BY <1>5, <1>6, <1>10, <2>2, <3>1
  <2>4. CASE third = v
    <3>1. ~toRoot
      BY <1>1, <1>3, <2>1, <2>4
    <3>2. second <= third
      BY <1>4, <1>7, <2>1, <2>4, <3>1 DEF IsLeast
    <3>3. QED
      BY <1>5, <1>6, <1>10, <2>2, <3>2
  <2>5. QED
    BY <1>2, <1>10, <2>3, <2>4
<1>11. QED
  BY <1>4, <1>5, <1>6, <1>9, <1>10 DEF f, r, toRoot, first, second, third

(* What a router keeps of its snake while bootstraps go in turn.            *)
TableEntry == [key : Node, source : Peers, destination : Peers \cup {NoPeer, Local},
               root : Nat, rseq : Nat, seq : Nat, expired : BOOLEAN]

SnakeRecord == [table : [Node -> TableEntry \cup {NoEntry}],
                descending : TableEntry \cup {NoEntry}]

Mark == [key : Nat, seq : Nat]

EntryOf(v, k) == snake[v].table[k]

(* An entry is of a bootstrap sent in turn, and came from its node, or from *)
(* one that has a newer entry for it or is nearer to it by H.               *)
SoundEntry(H, v, k) ==
  LET e == EntryOf(v, k)
      w == e.source[1]
  IN  /\ k \in fresh /\ k \in Component(v) /\ e.key = k /\ ~e.expired
      /\ e.seq <= clock[k] /\ e.source \in up[v]
      /\ \/ w = k
         \/ /\ EntryOf(w, k) # NoEntry
            /\ \/ EntryOf(w, k).seq > e.seq
               \/ EntryOf(w, k).seq = e.seq /\ H[k][w] < H[k][v]

SoundTables(H) ==
  /\ snake \in [Node -> SnakeRecord] /\ clock \in [Node -> Nat]
  /\ H \in [Node -> [Node -> Nat]]
  /\ \A v, k \in Node : EntryOf(v, k) # NoEntry => SoundEntry(H, v, k)

(* A watermark that hides nothing that leads on.                            *)
GoodMark(v, f, mark) ==
  /\ mark.key >= Goal(v, f)
  /\ mark.key = Goal(v, f) /\ Stage(v, f) = 3 => EntryOf(v, Goal(v, f)).seq >= mark.seq

LEMMA EntryType ==
  ASSUME NEW H, SoundTables(H), NEW v \in Node, NEW k \in Node, EntryOf(v, k) # NoEntry
  PROVE  EntryOf(v, k) \in TableEntry /\ EntryOf(v, k).seq \in Nat /\ SoundEntry(H, v, k)
<1>1. snake[v] \in SnakeRecord
  BY DEF SoundTables
<1>2. EntryOf(v, k) \in TableEntry
  BY <1>1 DEF SnakeRecord, EntryOf
<1>3. QED
  BY <1>2 DEF SoundTables, TableEntry

(* What the search at v knows when the root is not yet passed.              *)
LEMMA GoalFacts ==
  ASSUME Tidy, NEW v \in Node, NEW f \in Int, f < Root(v)
  PROVE  LET g == Goal(v, f)
         IN  /\ g \in Nat /\ IsLeast(g, KnownKeys(v) \cup EntryKeys(v), f) /\ g <= Root(v)
             /\ Stage(v, f) \in 0..3
             /\ Stage(v, f) = 0 <=> g = v
             /\ Stage(v, f) = 1 <=> g \in Above(v)
             /\ Stage(v, f) = 3 <=> g \notin KnownKeys(v)
             /\ Stage(v, f) = 3 => g \in EntryKeys(v) /\ g \in Node /\ EntryOf(v, g) # NoEntry
<1> DEFINE g == Goal(v, f)
<1>1. /\ Root(v) \in KnownKeys(v) /\ Line(v) \subseteq KnownKeys(v) /\ Root(v) \in Nat
      /\ v \in KnownKeys(v) /\ KnownKeys(v) \in SUBSET Nat
      /\ Line(v) = {v} \cup Above(v) /\ v \notin Above(v)
  BY KnownFacts DEF KnownKeys
<1>2. Root(v) > f
  BY <1>1
<1>3. g \in Nat /\ IsLeast(g, KnownKeys(v) \cup EntryKeys(v), f)
  BY <1>1, <1>2, GoalIsLeast
<1>4. g <= Root(v)
  BY <1>1, <1>2, <1>3 DEF IsLeast
<1>5. /\ Stage(v, f) \in 0..3
      /\ Stage(v, f) = 0 <=> g = v
      /\ Stage(v, f) = 1 <=> g \in Above(v)
      /\ Stage(v, f) = 3 <=> g \notin KnownKeys(v)
  BY <1>1 DEF Stage
<1>6. g \notin KnownKeys(v) => g \in EntryKeys(v)
  BY <1>3 DEF IsLeast
<1>7. g \in EntryKeys(v) => g \in Node /\ EntryOf(v, g) # NoEntry
  BY DEF EntryKeys, EntryOf
<1>8. QED
  BY <1>3, <1>4, <1>5, <1>6, <1>7

(* The loop over the table finds the goal.                                  *)
LEMMA LastIsGoal ==
  ASSUME Tidy, NEW H, SoundTables(H),
         NEW v, NEW dest, NEW bootstrap, Searches(v, dest, bootstrap),
         NEW mark \in Mark, GoodMark(v, Floor(dest, bootstrap), mark)
  PROVE  LET f == Floor(dest, bootstrap)
             g == Goal(v, f)
         IN  /\ Last(v, dest, bootstrap, mark) = g
             /\ Third(v, dest, bootstrap) # g <=> Stage(v, f) = 3
<1> DEFINE f == Floor(dest, bootstrap)
           g == Goal(v, f)
           third == Third(v, dest, bootstrap)
           usable == Usable(v, mark)
           last == Last(v, dest, bootstrap, mark)
<1>1. v \in Node /\ dest \in Nat /\ f \in Int /\ bootstrap \in BOOLEAN /\ f < Root(v)
  BY SearchType DEF Searches
<1>2. /\ g \in Nat /\ IsLeast(g, KnownKeys(v) \cup EntryKeys(v), f)
      /\ Stage(v, f) = 3 => g \in Node /\ EntryOf(v, g) # NoEntry
      /\ Stage(v, f) = 3 <=> g \notin KnownKeys(v)
  BY <1>1, GoalFacts
<1>3. IsLeast(third, KnownKeys(v), f) /\ third \in Nat
  BY ThirdIsLeast
<1>4. KnownKeys(v) \in SUBSET Nat /\ EntryKeys(v) \in SUBSET Nat
  BY <1>1, KnownFacts, NetworkAssumption DEF EntryKeys
<1>5. usable \subseteq EntryKeys(v)
  BY DEF Usable, Snake!UsableEntries, EntryKeys
<1>6. Stage(v, f) = 3 => g \in usable
  <2>1. SUFFICES ASSUME Stage(v, f) = 3 PROVE g \in usable
    OBVIOUS
  <2> DEFINE e == EntryOf(v, g)
  <2>2. g \in Node /\ e # NoEntry
    BY <1>2, <2>1
  <2>3. e \in TableEntry /\ e.seq \in Nat /\ SoundEntry(H, v, g)
    BY <1>1, <2>2, EntryType
  <2>4. e.source \in up[v] /\ ~e.expired
    BY <2>3 DEF SoundEntry
  <2>5. mark.key >= g /\ (mark.key = g => e.seq >= mark.seq) /\ mark.key \in Nat /\ mark.seq \in Nat
    BY <2>1 DEF GoodMark, Mark
  <2> HIDE DEF e, g
  <2>6. ~Snake(v)!WorseThan([key |-> g, seq |-> e.seq], mark)
    BY <1>2, <2>3, <2>5 DEF Snake!WorseThan
  <2>7. QED
    BY <2>2, <2>4, <2>6 DEF Usable, Snake!UsableEntries, EntryOf, e
<1>7. last = Snake(v)!BestOf(usable, third, dest, bootstrap)
  BY DEF Last
<1> HIDE DEF f, g, third, usable, last
<1>8. IsLeast(last, KnownKeys(v) \cup usable, f)
  <2>1. usable \in SUBSET Nat
    BY <1>4, <1>5
  <2>2. QED
    BY <1>1, <1>3, <1>4, <1>7, <2>1, BestOfIsLeast DEF f
<1>9. last = g
  <2>1. g \in KnownKeys(v) \cup usable
    BY <1>2, <1>6
  <2>2. last <= g
    BY <1>2, <1>8, <2>1 DEF IsLeast
  <2>3. g <= last
    BY <1>2, <1>5, <1>8 DEF IsLeast
  <2>4. last \in Nat
    BY <1>4, <1>5, <1>8 DEF IsLeast
  <2>5. QED
    BY <1>2, <2>2, <2>3, <2>4
<1>10. third # g <=> g \notin KnownKeys(v)
  <2>1. g \in KnownKeys(v) => third = g
    <3>1. SUFFICES ASSUME g \in KnownKeys(v) PROVE third <= g /\ g <= third
      BY <1>2, <1>3
    <3>2. QED
      BY <1>2, <1>3, <3>1 DEF IsLeast
  <2>2. third \in KnownKeys(v)
    BY <1>3 DEF IsLeast
  <2>3. QED
    BY <2>1, <2>2
<1>11. QED
  BY <1>2, <1>9, <1>10 DEF f, g, third, last

----------------------------------------------------------------------------
(* How far a frame is from where its search ends: lexicographically, by     *)
(* the goal of the node it is at, the stage of its way there, and how much  *)
(* of that stage is left.                                                   *)
RankOf(goal, stage, hops, age, distance) ==
  << goal, stage, IF stage = 1 THEN hops ELSE IF stage = 3 THEN age ELSE 0,
     IF stage = 3 THEN distance ELSE 0 >>

Rank(H, v, f) ==
  LET g == Goal(v, f)
  IN  RankOf(g, Stage(v, f), Len(Path(v)), clock[g] - EntryOf(v, g).seq, H[g][v])

Before(a, b) ==
  \/ a[1] < b[1]
  \/ a[1] = b[1] /\ a[2] < b[2]
  \/ a[1] = b[1] /\ a[2] = b[2] /\ a[3] < b[3]
  \/ a[1] = b[1] /\ a[2] = b[2] /\ a[3] = b[3] /\ a[4] < b[4]

Ranks == Nat \X Nat \X Nat \X Nat

LEMMA BeforeIsOrder ==
  /\ \A a \in Ranks : ~Before(a, a)
  /\ \A a, b, c \in Ranks : Before(a, b) /\ Before(b, c) => Before(a, c)
BY DEF Ranks, Before

LEMMA RankType ==
  ASSUME Tidy, NEW H, SoundTables(H), NEW v \in Node, NEW f \in Int, f < Root(v)
  PROVE  Rank(H, v, f) \in Ranks
<1> DEFINE g == Goal(v, f)
           s == Stage(v, f)
           age == clock[g] - EntryOf(v, g).seq
<1>1. /\ g \in Nat /\ s \in 0..3 /\ Len(Path(v)) \in Nat
      /\ s = 3 => g \in Node /\ EntryOf(v, g) # NoEntry
  BY GoalFacts, LineType
<1>2. s = 3 => age \in Nat /\ H[g][v] \in Nat
  <2>1. SUFFICES ASSUME s = 3 PROVE age \in Nat /\ H[g][v] \in Nat
    OBVIOUS
  <2>2. g \in Node /\ EntryOf(v, g).seq \in Nat /\ SoundEntry(H, v, g)
    BY <1>1, <2>1, EntryType
  <2>3. EntryOf(v, g).seq <= clock[g] /\ clock[g] \in Nat /\ H[g][v] \in Nat
    BY <2>2 DEF SoundEntry, SoundTables
  <2>4. QED
    BY <2>2, <2>3
<1> HIDE DEF g, s, age
<1>3. RankOf(g, s, Len(Path(v)), age, H[g][v]) \in Ranks
  BY <1>1, <1>2 DEF RankOf, Ranks
<1>4. QED
  BY <1>3 DEF g, s, age, Rank

(* The peerings of the neighbour that the last loop may prefer are the ones *)
(* it already has.                                                          *)
LEMMA PreferredHops ==
  ASSUME Tidy, NEW v \in Node, NEW key, NEW hops,
         \A q \in up[v] : q[1] = key => hops \subseteq { p \in up[v] : p[1] = key },
         NEW h \in Snake(v)!Preferred(state[v], key, hops)
  PROVE  h \in hops
<1> DEFINE t == state[v]
           twin(p, q) == /\ p \in Peers
                         /\ t.announcements[p] # NoAnn
                         /\ NeighbourOf[q] = key
                         /\ t.announcements[q] # NoAnn
                         /\ t.announcements[q].root = t.announcements[p].root
                         /\ t.announcements[q].seq = t.announcements[p].seq
                         /\ t.announcements[q].order < t.announcements[p].order
           better(p) == { q \in Peers : twin(p, q) }
<1>1. PICK p \in hops : h \in IF better(p) = {} THEN {p}
                              ELSE { q \in better(p) : \A r \in better(p) : ~twin(q, r) }
  BY DEF Snake!Preferred
<1>2. ASSUME NEW q \in better(p) PROVE FALSE
  <2>1. q \in Peers /\ twin(p, q)
    OBVIOUS
  <2>2. NeighbourOf[q] = q[1]
    BY <2>1 DEF NeighbourOf
  <2>3. q \in up[v]
    BY <2>1 DEF Tidy, NetworkIInv, OnlyOfPeers
  <2>4. p \in up[v] /\ p[1] = key /\ q[1] = key
    BY <2>1, <2>2, <2>3
  <2>5. p \in Peers /\ q \in Peers
    BY <2>1
  <2>6. p = q
    BY <2>3, <2>4, <2>5, PeerFacts DEF Tidy, NetworkIInv, OneConnection
  <2>7. t.announcements[p] \in Stored
    BY <2>4, KeysBehindPeer
  <2>8. t.announcements[p].order \in Nat
    BY <2>7 DEF Stored
  <2>9. QED
    BY <2>1, <2>6, <2>8
<1>3. better(p) = {}
  BY <1>2
<1>4. QED
  BY <1>1, <1>3

(* What getNextHopSNEK returns, by the stage of the way.                    *)
Toward(v, f, p) ==
  LET g == Goal(v, f)
  IN  /\ Stage(v, f) = 1 => p \in up[v] /\ (p = state[v].parent \/ p[1] = g)
      /\ Stage(v, f) = 2 => p \in up[v] /\ g \in Line(p[1])
      /\ Stage(v, f) = 3 => p = EntryOf(v, g).source

HopMark(v, f) ==
  [key |-> Goal(v, f), seq |-> IF Stage(v, f) = 3 THEN EntryOf(v, Goal(v, f)).seq ELSE 0]

LEMMA NextHop ==
  ASSUME Tidy, NEW H, SoundTables(H),
         NEW v, NEW dest, NEW bootstrap, Searches(v, dest, bootstrap),
         NEW mark \in Mark, GoodMark(v, Floor(dest, bootstrap), mark),
         NEW h \in NextHopsSNEK(v, snake[v], dest, bootstrap, mark)
  PROVE  LET f == Floor(dest, bootstrap)
         IN  /\ h.mark = HopMark(v, f) /\ Toward(v, f, h.peer)
             /\ Stage(v, f) = 0 => h.peer = IF bootstrap THEN NoPeer ELSE Local
<1> DEFINE f == Floor(dest, bootstrap)
           g == Goal(v, f)
           toRoot == ToRoot(v, dest, bootstrap)
           first == First(v, dest, bootstrap)
           second == Second(v, dest, bootstrap)
           third == Third(v, dest, bootstrap)
           last == Last(v, dest, bootstrap, mark)
           byTree == IF third # second THEN { p \in up[v] : third \in Snake(v)!KeysBehind(state[v], p) }
                     ELSE IF second # first \/ toRoot THEN {state[v].parent}
                     ELSE {IF bootstrap THEN NoPeer ELSE Local}
           direct == { p \in up[v] : state[v].announcements[p] # NoAnn /\ NeighbourOf[p] = third }
           hops == IF last # third THEN {EntryOf(v, last).source}
                   ELSE IF direct # {} THEN direct ELSE byTree
<1>1. /\ v \in Node /\ f \in Int /\ f < Root(v) /\ bootstrap \in BOOLEAN
      /\ ~(~bootstrap /\ v = dest)
  BY SearchType DEF Searches
<1>2. last = g /\ (third # g <=> Stage(v, f) = 3)
  BY LastIsGoal
<1>3. /\ second \in Above(v) \cup {first}
      /\ second # third => third \notin Line(v)
      /\ toRoot => first = Root(v) /\ state[v].parent # NoPeer
      /\ ~toRoot => first = v
  BY ThirdIsLeast
<1>4. /\ g \in Nat /\ Stage(v, f) \in 0..3
      /\ Stage(v, f) = 0 <=> g = v
      /\ Stage(v, f) = 1 <=> g \in Above(v)
      /\ Stage(v, f) = 3 <=> g \notin KnownKeys(v)
  BY <1>1, GoalFacts
<1>5. /\ state[v].parent \in up[v] <=> state[v].parent # NoPeer
      /\ state[v].parent # NoPeer => Root(v) \in Above(v)
      /\ Line(v) = {v} \cup Above(v) /\ v \notin Above(v)
      /\ state[v].parent = NoPeer => Above(v) = {}
  BY <1>1, KnownFacts DEF Above
<1>6. \A p \in up[v] : /\ NeighbourOf[p] = p[1] /\ p[1] # v /\ p[1] \in Node
                       /\ state[v].announcements[p] # NoAnn
                       /\ Snake(v)!KeysBehind(state[v], p) = Line(p[1])
  BY <1>1, KeysBehindPeer DEF NeighbourOf
<1>7. PICK p \in Snake(v)!Preferred(state[v], last, hops) :
        h = [peer |-> p, mark |-> [key |-> last, seq |-> IF last = third THEN 0 ELSE EntryOf(v, last).seq]]
  BY <1>1 DEF NextHopsSNEK, Snake!NextHopsSNEK, Last, Third, Second, First, ToRoot, Above, Heard,
              Usable, EntryOf
<1> HIDE DEF f, g, toRoot, first, second, third, last
<1>8. h.mark = HopMark(v, Floor(dest, bootstrap)) /\ h.peer = p
  BY <1>2, <1>7 DEF HopMark, f, g
<1>9. \A q \in up[v] : q[1] = last => hops \subseteq { r \in up[v] : r[1] = last }
  <2>1. SUFFICES ASSUME NEW q \in up[v], q[1] = last
                 PROVE  hops \subseteq { r \in up[v] : r[1] = last }
    OBVIOUS
  <2>2. last \in KnownKeys(v)
    BY <2>1 DEF KnownKeys, Line
  <2>3. last = third
    BY <1>2, <1>4, <2>2
  <2>4. q \in direct
    BY <1>6, <2>1, <2>3
  <2>5. hops = direct
    BY <2>3, <2>4
  <2>6. QED
    BY <1>6, <2>3, <2>5
<1>10. p \in hops
  <2> HIDE DEF hops
  <2>1. QED
    BY <1>1, <1>7, <1>9, PreferredHops
<1>11. CASE Stage(v, f) = 3
  <2>1. p = EntryOf(v, g).source
    BY <1>2, <1>10, <1>11
  <2>2. QED
    BY <1>8, <1>11, <2>1 DEF Toward, f, g
<1>12. CASE Stage(v, f) # 3 /\ direct # {}
  <2>1. p \in up[v] /\ p[1] = g
    BY <1>2, <1>6, <1>10, <1>12
  <2>2. g \in Line(p[1]) /\ g # v
    BY <1>6, <2>1 DEF Line
  <2>3. QED
    BY <1>4, <1>8, <1>12, <2>1, <2>2 DEF Toward, f, g
<1>13. CASE Stage(v, f) # 3 /\ direct = {}
  <2>1. third = g /\ p \in byTree
    BY <1>2, <1>10, <1>13
  <2>2. CASE third # second
    <3>1. p \in up[v] /\ g \in Line(p[1])
      BY <1>6, <2>1, <2>2
    <3>2. g \notin Line(v)
      BY <1>3, <2>1, <2>2
    <3>3. Stage(v, f) # 0 /\ Stage(v, f) # 1
      BY <1>4, <1>5, <3>2
    <3>4. QED
      BY <1>8, <1>13, <3>1, <3>3 DEF Toward, f, g
  <2>3. CASE third = second /\ (second # first \/ toRoot)
    <3>1. p = state[v].parent
      BY <2>1, <2>3
    <3>2. g \in Above(v)
      BY <1>3, <1>5, <2>1, <2>3
    <3>3. p \in up[v] /\ Stage(v, f) = 1
      BY <1>4, <1>5, <3>1, <3>2
    <3>4. QED
      BY <1>8, <3>1, <3>3 DEF Toward, f, g
  <2>4. CASE third = second /\ ~(second # first \/ toRoot)
    <3>1. p = IF bootstrap THEN NoPeer ELSE Local
      BY <2>1, <2>4
    <3>2. g = v
      BY <1>3, <2>1, <2>4
    <3>3. Stage(v, f) = 0
      BY <1>4, <3>2
    <3>4. QED
      BY <1>8, <3>1, <3>3 DEF Toward, f, g
  <2>5. QED
    BY <2>2, <2>3, <2>4
<1>14. QED
  BY <1>11, <1>12, <1>13

(* The next hop is nearer, and its watermark hides nothing there.           *)
LEMMA Nearer ==
  ASSUME Tidy, NEW H, SoundTables(H), NEW v \in Node, NEW f \in Int, f < Root(v),
         NEW p, Toward(v, f, p), Stage(v, f) # 0
  PROVE  /\ p \in up[v] /\ p[1] \in Component(v) /\ f < Root(p[1])
         /\ Before(Rank(H, p[1], f), Rank(H, v, f))
         /\ GoodMark(p[1], f, HopMark(v, f))
<1> DEFINE g == Goal(v, f)
           w == p[1]
           k == Goal(w, f)
<1>1. /\ g \in Nat /\ IsLeast(g, KnownKeys(v) \cup EntryKeys(v), f) /\ g > f
      /\ Stage(v, f) \in 0..3
      /\ Stage(v, f) = 0 <=> g = v
      /\ Stage(v, f) = 1 <=> g \in Above(v)
      /\ Stage(v, f) = 3 => g \in Node /\ EntryOf(v, g) # NoEntry
  BY GoalFacts DEF IsLeast
<1>2. Stage(v, f) = 3 => EntryOf(v, g).seq \in Nat /\ SoundEntry(H, v, g)
  BY <1>1, EntryType
<1>3. p \in up[v]
  BY <1>1, <1>2 DEF Toward, SoundEntry
<1>4. w \in Node /\ w \in Component(v) /\ Root(w) = Root(v)
  BY <1>3, KeysBehindPeer, PeerInComponent, OneRoot
<1>5. /\ k \in Nat /\ IsLeast(k, KnownKeys(w) \cup EntryKeys(w), f)
      /\ Stage(w, f) \in 0..3
      /\ Stage(w, f) = 0 <=> k = w
      /\ Stage(w, f) = 1 <=> k \in Above(w)
      /\ Stage(w, f) = 3 <=> k \notin KnownKeys(w)
      /\ Stage(w, f) = 3 => k \in Node /\ EntryOf(w, k) # NoEntry
  <2>1. f < Root(w)
    BY <1>4
  <2>2. QED
    BY <1>4, <2>1, GoalFacts
<1>6. Line(w) = {w} \cup Above(w) /\ Line(w) \subseteq KnownKeys(w)
  BY <1>4, KnownFacts
<1>7. ASSUME g \in KnownKeys(w) \cup EntryKeys(w) PROVE k <= g
  BY <1>1, <1>5, <1>7 DEF IsLeast
<1> DEFINE a == Rank(H, w, f)
           b == Rank(H, v, f)
<1>8. /\ a[1] = k /\ a[2] = Stage(w, f) /\ b[1] = g /\ b[2] = Stage(v, f)
      /\ Stage(v, f) = 1 => b[3] = Len(Path(v))
      /\ Stage(w, f) = 1 => a[3] = Len(Path(w))
      /\ Stage(v, f) = 3 => b[3] = clock[g] - EntryOf(v, g).seq /\ b[4] = H[g][v]
      /\ Stage(w, f) = 3 => a[3] = clock[k] - EntryOf(w, k).seq /\ a[4] = H[k][w]
  BY DEF Rank, RankOf
<1> HIDE DEF g, w, k, a, b
<1>9. ASSUME k = g, Stage(v, f) = 1 PROVE Stage(w, f) = 0 \/ (Stage(w, f) = 1 /\ a[3] < b[3])
  <2>1. p = state[v].parent \/ w = g
    BY <1>9 DEF Toward, g, w
  <2>2. CASE w = g
    BY <1>5, <1>9, <2>2
  <2>3. CASE p = state[v].parent
    <3>1. state[v].parent # NoPeer
      BY <1>3, <2>3, KeysBehindPeer
    <3>2. w = ParentOf(v) /\ Above(v) = Line(w)
      BY <2>3, <3>1, KnownFacts DEF w, ParentOf
    <3>3. Len(Path(w)) \in Nat /\ Len(Path(v)) = Len(Path(w)) + 1
      BY <3>1, <3>2, LineOfParent
    <3>4. Stage(w, f) = 0 \/ Stage(w, f) = 1
      BY <1>1, <1>5, <1>6, <1>9, <3>2
    <3>5. QED
      BY <1>8, <1>9, <3>3, <3>4
  <2>4. QED
    BY <2>1, <2>2, <2>3
<1>10. ASSUME Stage(v, f) = 1 \/ Stage(v, f) = 2 PROVE k <= g
  <2>1. g \in Line(w)
    <3>1. CASE Stage(v, f) = 2
      BY <3>1 DEF Toward, g, w
    <3>2. CASE Stage(v, f) = 1 /\ w = g
      BY <3>2 DEF Line
    <3>3. CASE Stage(v, f) = 1 /\ p = state[v].parent
      <4>1. state[v].parent # NoPeer
        BY <1>3, <3>3, KeysBehindPeer
      <4>2. w = ParentOf(v) /\ Above(v) = Line(w)
        BY <3>3, <4>1, KnownFacts DEF w, ParentOf
      <4>3. QED
        BY <1>1, <3>3, <4>2
    <3>4. QED
      BY <1>10, <3>1, <3>2, <3>3 DEF Toward, g, w
  <2>2. QED
    BY <1>6, <1>7, <2>1
<1>11. ASSUME k = g, Stage(v, f) = 2 PROVE Stage(w, f) < 2
  <2>1. g \in Line(w)
    BY <1>11 DEF Toward, g, w
  <2>2. QED
    BY <1>5, <1>6, <1>11, <2>1
<1>12. ASSUME Stage(v, f) = 3
       PROVE  \/ w = g
              \/ /\ EntryOf(w, g) # NoEntry /\ EntryOf(w, g).seq \in Nat
                 /\ EntryOf(w, g).seq <= clock[g]
                 /\ \/ EntryOf(w, g).seq > EntryOf(v, g).seq
                    \/ (EntryOf(w, g).seq = EntryOf(v, g).seq /\ H[g][w] < H[g][v])
  <2>1. SoundEntry(H, v, g) /\ p = EntryOf(v, g).source /\ g \in Node
    BY <1>1, <1>2, <1>12 DEF Toward, g
  <2>2. EntryOf(w, g) # NoEntry => EntryOf(w, g).seq \in Nat /\ SoundEntry(H, w, g)
    BY <1>4, <2>1, EntryType
  <2>3. QED
    BY <2>1, <2>2 DEF SoundEntry, w
<1>13. ASSUME Stage(v, f) = 3 PROVE k <= g
  <2>1. CASE w = g
    BY <1>6, <1>7, <2>1 DEF Line
  <2>2. CASE EntryOf(w, g) # NoEntry
    BY <1>1, <1>7, <1>13, <2>2 DEF EntryKeys, EntryOf
  <2>3. QED
    BY <1>12, <1>13, <2>1, <2>2
<1>14. ASSUME k = g, Stage(v, f) = 3
       PROVE  Stage(w, f) < 3 \/ (Stage(w, f) = 3 /\ (a[3] < b[3] \/ (a[3] = b[3] /\ a[4] < b[4])))
  <2>1. CASE w = g
    BY <1>5, <1>14, <2>1
  <2>2. CASE w # g /\ Stage(w, f) = 3
    <3>1. clock[g] \in Nat /\ EntryOf(v, g).seq \in Nat /\ EntryOf(v, g).seq <= clock[g]
      BY <1>1, <1>2, <1>14 DEF SoundTables, SoundEntry
    <3>2. /\ a[3] = clock[g] - EntryOf(w, g).seq /\ a[4] = H[g][w]
          /\ b[3] = clock[g] - EntryOf(v, g).seq /\ b[4] = H[g][v]
      BY <1>8, <1>14, <2>2
    <3>3. QED
      BY <1>12, <1>14, <2>2, <3>1, <3>2
  <2>3. QED
    BY <1>5, <2>1, <2>2
<1>15. k <= g
  BY <1>1, <1>10, <1>13
<1>16. Before(a, b)
  <2>1. CASE k < g
    BY <1>8, <2>1 DEF Before
  <2>2. CASE k = g /\ Stage(v, f) = 1
    BY <1>8, <1>9, <2>2 DEF Before
  <2>3. CASE k = g /\ Stage(v, f) = 2
    BY <1>5, <1>8, <1>11, <2>3 DEF Before
  <2>4. CASE k = g /\ Stage(v, f) = 3
    BY <1>5, <1>8, <1>14, <2>4 DEF Before
  <2>5. QED
    BY <1>1, <1>5, <1>15, <2>1, <2>2, <2>3, <2>4
<1>17. GoodMark(w, f, HopMark(v, f))
  <2> DEFINE m == HopMark(v, f)
  <2>1. m.key = g /\ m.seq = IF Stage(v, f) = 3 THEN EntryOf(v, g).seq ELSE 0
    BY DEF HopMark, g
  <2>2. ASSUME k = g, Stage(w, f) = 3 PROVE EntryOf(w, g).seq >= m.seq
    <3>1. EntryOf(w, k).seq \in Nat
      BY <1>4, <1>5, <2>2, EntryType
    <3>2. CASE Stage(v, f) = 3
      <4>1. w # g
        BY <1>5, <2>2
      <4>2. EntryOf(v, g).seq \in Nat
        BY <1>2, <3>2
      <4>3. QED
        BY <1>12, <2>1, <3>2, <4>1, <4>2
    <3>3. CASE Stage(v, f) # 3
      BY <2>1, <2>2, <3>1, <3>3
    <3>4. QED
      BY <3>2, <3>3
  <2> HIDE DEF m
  <2>3. QED
    BY <1>1, <1>5, <1>15, <2>1, <2>2 DEF GoodMark, k, m
<1>18. QED
  BY <1>3, <1>4, <1>16, <1>17 DEF w, a, b

LEMMA HopMarkType ==
  ASSUME Tidy, NEW H, SoundTables(H), NEW v \in Node, NEW f \in Int, f < Root(v),
         NEW mark \in Mark, GoodMark(v, f, mark), NEW m, m = HopMark(v, f)
  PROVE  m \in Mark /\ ~Snake(v)!WorseThan(m, mark)
<1> DEFINE g == Goal(v, f)
<1>1. /\ g \in Nat
      /\ Stage(v, f) = 3 => g \in Node /\ EntryOf(v, g) # NoEntry
  BY GoalFacts
<1>2. Stage(v, f) = 3 => EntryOf(v, g).seq \in Nat
  BY <1>1, EntryType
<1>3. m.key = g /\ m.seq = (IF Stage(v, f) = 3 THEN EntryOf(v, g).seq ELSE 0) /\ m \in Mark
  BY <1>1, <1>2 DEF HopMark, Mark
<1>4. mark.key \in Nat /\ mark.seq \in Nat /\ mark.key >= g
      /\ (mark.key = g /\ Stage(v, f) = 3 => EntryOf(v, g).seq >= mark.seq)
  BY DEF GoodMark, Mark
<1> HIDE DEF g
<1>5. QED
  BY <1>1, <1>2, <1>3, <1>4 DEF Snake!WorseThan

(* A bootstrap of n that has not reached its end goes on to a nearer node.  *)
LEMMA BootstrapHop ==
  ASSUME Tidy, NEW H, SoundTables(H), NEW v \in Node, NEW n \in Node, n < Root(v),
         NEW mark \in Mark, GoodMark(v, n, mark),
         NEW h \in NextHopsSNEK(v, snake[v], n, TRUE, mark)
  PROVE  /\ h.mark \in Mark /\ ~Snake(v)!WorseThan(h.mark, mark)
         /\ Goal(v, n) = v => h.peer = NoPeer
         /\ Goal(v, n) # v => /\ h.peer \in up[v] /\ h.peer[1] \in Component(v)
                              /\ Before(Rank(H, h.peer[1], n), Rank(H, v, n))
                              /\ GoodMark(h.peer[1], n, h.mark)
<1> DEFINE boot == TRUE
<1>1. Searches(v, n, boot) /\ Floor(n, boot) = n /\ boot
  BY DEF Searches, Floor
<1>2. h \in NextHopsSNEK(v, snake[v], n, boot, mark)
  OBVIOUS
<1> HIDE DEF boot
<1>3. GoodMark(v, Floor(n, boot), mark)
  BY <1>1
<1>4. /\ h.mark = HopMark(v, n) /\ Toward(v, n, h.peer)
      /\ Stage(v, n) = 0 => h.peer = NoPeer
  <2>1. /\ h.mark = HopMark(v, Floor(n, boot)) /\ Toward(v, Floor(n, boot), h.peer)
        /\ Stage(v, Floor(n, boot)) = 0 => h.peer = IF boot THEN NoPeer ELSE Local
    <3>1. Searches(v, n, boot)
      BY <1>1
    <3>2. QED
      BY <1>2, <1>3, <3>1, NextHop
  <2>2. QED
    BY <1>1, <2>1
<1>5. n \in Int
  BY NetworkAssumption
<1>6. h.mark \in Mark /\ ~Snake(v)!WorseThan(h.mark, mark)
  BY <1>4, <1>5, HopMarkType
<1>7. Stage(v, n) = 0 <=> Goal(v, n) = v
  BY <1>5, GoalFacts
<1>8. Stage(v, n) # 0 => /\ h.peer \in up[v] /\ h.peer[1] \in Component(v)
                         /\ Before(Rank(H, h.peer[1], n), Rank(H, v, n))
                         /\ GoodMark(h.peer[1], n, HopMark(v, n))
  BY <1>4, <1>5, Nearer
<1>9. QED
  BY <1>4, <1>6, <1>7, <1>8

----------------------------------------------------------------------------
(* Bootstraps in turn.                                                      *)

(* x is the next node above n.                                              *)
IsNext(x, n) == x \in Component(n) /\ x > n /\ \A m \in Component(n) : m > n => x <= m

Arrived(n) ==
  \A x \in Node : IsNext(x, n) => /\ EntryOf(x, n) # NoEntry
                                  /\ snake[x].descending # NoEntry
                                  /\ snake[x].descending.key = n

SoundDescending ==
  \A v \in Node : LET d == snake[v].descending IN
    d # NoEntry => /\ d.key \in Component(v) /\ d.key < v /\ ~d.expired
                   /\ [root |-> d.root, rseq |-> d.rseq] = RootOf(v)

FromAbove ==
  \A n \in fresh : /\ n \in Node /\ state[n].parent # NoPeer
                   /\ \A m \in Component(n) : m > n => m \in fresh \/ state[m].parent = NoPeer

Bootstrap == [dest : Node, root : Nat, rseq : Nat, seq : Nat, mark : Mark]

(* The nodes that the latest bootstrap of n has been at.                    *)
Visited(v, n) == v = n \/ (EntryOf(v, n) # NoEntry /\ EntryOf(v, n).seq = clock[n])

(* The queues that hold bootstrap b, on its way from peer p to x, only.     *)
Alone(x, p, b) ==
  [m \in Node |-> [q \in Peers |->
     IF m = x /\ q = p THEN <<[frame |-> b, behind |-> 0]>> ELSE <<>>]]

(* The bootstrap b of n is on its way from peer p to x, which is nearer to  *)
(* where it ends than every node that it has visited.                       *)
UnderWay(H, n, x, p, b) ==
  /\ p \in up[x] /\ x \in Component(n) /\ boots = Alone(x, p, b)
  /\ b.dest = n /\ b.seq = clock[n] /\ [root |-> b.root, rseq |-> b.rseq] = RootOf(x)
  /\ Visited(p[1], n)
  /\ \A v \in Component(n) : Visited(v, n) => Before(Rank(H, x, n), Rank(H, v, n))
  /\ GoodMark(x, n, b.mark)

InTurn(H) ==
  /\ Quiet /\ SoundTables(H) /\ SoundDescending /\ FromAbove
  /\ \/ NoBootstraps /\ \A m \in fresh : Arrived(m)
     \/ \E n \in fresh, x \in Node, p \in Peers, b \in Bootstrap :
          UnderWay(H, n, x, p, b) /\ \A m \in fresh \ {n} : Arrived(m)

Shapes ==
  /\ clock \in [Node -> Nat]
  /\ boots = [n \in Node |-> boots[n]] /\ snake = [n \in Node |-> snake[n]]

OverlayIInv ==
  /\ NetworkIInv /\ Shapes
  /\ fresh # {} => \E H : InTurn(H)

LEMMA SameGoal ==
  ASSUME NEW S \in SUBSET Nat, NEW T \in SUBSET Nat, NEW f \in Int, NEW k \in S, k > f,
         \A j \in Nat : j > f => (j \in S <=> j \in T)
  PROVE  GoalIn(S, f) = GoalIn(T, f)
<1>1. k \in T
  OBVIOUS
<1>2. (\E g \in Nat : IsLeast(g, S, f)) /\ (\E g \in Nat : IsLeast(g, T, f))
  BY <1>1, LeastExists
<1>3. IsLeast(GoalIn(S, f), S, f) /\ GoalIn(S, f) \in Nat
  BY <1>2 DEF GoalIn
<1>4. IsLeast(GoalIn(T, f), T, f) /\ GoalIn(T, f) \in Nat
  BY <1>2 DEF GoalIn
<1>5. IsLeast(GoalIn(T, f), S, f)
  BY <1>4 DEF IsLeast
<1>6. QED
  BY <1>3, <1>5, LeastIsUnique

LEMMA SameTree ==
  ASSUME UNCHANGED vars
  PROVE  /\ Quiet' <=> Quiet
         /\ \A v \in Node : /\ Component(v)' = Component(v)
                            /\ Root(v)' = Root(v) /\ RootOf(v)' = RootOf(v)
                            /\ Path(v)' = Path(v) /\ Line(v)' = Line(v)
         /\ \A v \in Node : KnownKeys(v)' = KnownKeys(v)
<1>1. state' = state /\ up' = up /\ chan' = chan /\ broken' = broken
  BY DEF vars
<1>2. Quiet' <=> Quiet
  BY <1>1 DEF Quiet, Drained
<1>3. ASSUME NEW v
      PROVE  /\ Root(v)' = Root(v) /\ RootOf(v)' = RootOf(v) /\ Path(v)' = Path(v)
  BY <1>1 DEF Root, RootOf, Path, Announced, Ann
<1>4. ASSUME NEW v PROVE Line(v)' = Line(v)
  BY <1>3 DEF Line
<1>5. ASSUME NEW v PROVE Component(v)' = Component(v)
  BY <1>1 DEF Component, Attached
<1>6. ASSUME NEW v PROVE KnownKeys(v)' = KnownKeys(v)
  BY <1>1, <1>4 DEF KnownKeys
<1>7. QED
  BY <1>2, <1>3, <1>4, <1>5, <1>6

(* The search for the next node above n does not ask for what is known of n *)
(* or below.                                                                *)
LEMMA SameRank ==
  ASSUME Tidy, UNCHANGED vars, NEW H, SoundTables(H), NEW I,
         NEW n \in Node, NEW v \in Node, n < Root(v),
         \A k \in Node : k # n => /\ EntryOf(v, k)' = EntryOf(v, k)
                                  /\ clock'[k] = clock[k] /\ I[k][v] = H[k][v]
  PROVE  /\ Rank(I, v, n)' = Rank(H, v, n) /\ Goal(v, n)' = Goal(v, n)
         /\ \A m : GoodMark(v, n, m)' <=> GoodMark(v, n, m)
<1> PICK g : g = Goal(v, n)
  OBVIOUS
<1>1. /\ KnownKeys(v)' = KnownKeys(v) /\ Line(v)' = Line(v) /\ Path(v)' = Path(v)
  BY SameTree
<1>2. KnownKeys(v) \in SUBSET Nat /\ Root(v) \in KnownKeys(v)
  BY KnownFacts
<1>3. n \in Int /\ n \in Nat /\ Node \in SUBSET Nat
  BY NetworkAssumption
<1>4. /\ EntryKeys(v) \in SUBSET Nat /\ EntryKeys(v)' \in SUBSET Nat
      /\ \A j \in Nat : j > n => (j \in EntryKeys(v)' <=> j \in EntryKeys(v))
  <2>1. \A k \in Node : k # n => snake'[v].table[k] = snake[v].table[k]
    BY DEF EntryOf
  <2>2. \A j \in Nat : j > n => (j \in EntryKeys(v)' <=> j \in EntryKeys(v))
    BY <1>3, <2>1 DEF EntryKeys
  <2>3. QED
    BY <1>3, <2>2 DEF EntryKeys
<1>5. Goal(v, n)' = g
  <2>1. GoalIn(KnownKeys(v) \cup EntryKeys(v), n) = GoalIn(KnownKeys(v) \cup EntryKeys(v)', n)
    <3>1. \A j \in Nat : j > n => (j \in KnownKeys(v) \cup EntryKeys(v)
                                   <=> j \in KnownKeys(v) \cup EntryKeys(v)')
      BY <1>4
    <3>2. /\ KnownKeys(v) \cup EntryKeys(v) \in SUBSET Nat
          /\ KnownKeys(v) \cup EntryKeys(v)' \in SUBSET Nat
          /\ Root(v) \in KnownKeys(v) \cup EntryKeys(v) /\ Root(v) > n
      BY <1>2, <1>3, <1>4
    <3>3. QED
      BY <1>3, <3>1, <3>2, SameGoal
  <2>2. QED
    BY <1>1, <2>1 DEF Goal
<1>6. Stage(v, n)' = Stage(v, n)
  BY <1>1, <1>5 DEF Stage
<1>7. /\ Stage(v, n) = 3 => g \in Node
      /\ g \in Nat /\ g > n
  BY <1>3, GoalFacts DEF IsLeast
<1>8. Stage(v, n) = 3 => /\ EntryOf(v, g)' = EntryOf(v, g) /\ clock'[g] = clock[g]
                         /\ I[g][v] = H[g][v]
  BY <1>3, <1>7
<1>9. EntryOf(v, Goal(v, n))' = EntryOf(v, g)'
  BY <1>5 DEF EntryOf
<1>10. Rank(I, v, n)' = Rank(H, v, n)
  <2>1. Rank(I, v, n)' = RankOf(g, Stage(v, n), Len(Path(v)), clock'[g] - EntryOf(v, g)'.seq, I[g][v])
    BY <1>1, <1>5, <1>6, <1>9 DEF Rank
  <2>2. Rank(H, v, n) = RankOf(g, Stage(v, n), Len(Path(v)), clock[g] - EntryOf(v, g).seq, H[g][v])
    BY DEF Rank
  <2>3. QED
    BY <1>8, <2>1, <2>2 DEF RankOf
<1>11. ASSUME NEW m PROVE GoodMark(v, n, m)' <=> GoodMark(v, n, m)
  BY <1>5, <1>6, <1>8, <1>9 DEF GoodMark
<1>12. QED
  BY <1>5, <1>10, <1>11

(* Among the nodes below another there is a greatest.                       *)
LEMMA GreatestBelow ==
  ASSUME NEW S \in SUBSET Node, NEW n \in Node, S # {}, \A m \in S : m < n
  PROVE  \E z \in S : \A m \in S : m <= z
<1> DEFINE L == { n - m : m \in S }
<1>1. S \in SUBSET Nat /\ n \in Nat
  BY NetworkAssumption
<1>2. L \in SUBSET Nat /\ L # {}
  <2>1. \A m \in S : n - m \in Nat
    BY <1>1
  <2>2. QED
    BY <2>1
<1>3. PICK d \in L : \A e \in L : d <= e
  <2> HIDE DEF L
  <2>1. QED
    BY <1>2, LeastNatural
<1>4. PICK z \in S : d = n - z
  OBVIOUS
<1>5. \A m \in S : n - z <= n - m
  BY <1>3, <1>4
<1>6. \A m \in S : m <= z
  BY <1>1, <1>5
<1>7. QED
  BY <1>6

(* Below every node that is not the lowest of its component there is one    *)
(* that it is next to, which is not the root.                               *)
LEMMA NextAbove ==
  ASSUME Tidy, NEW x \in Node, NEW y \in Component(x), y < x
  PROVE  \E z \in Component(x) : /\ z \in Node /\ y <= z /\ IsNext(x, z)
                                 /\ state[z].parent # NoPeer
                                 /\ \A m \in Component(x) : m < x => m <= z
<1> DEFINE S == { m \in Component(x) : m < x }
<1>1. Component(x) \in SUBSET Node /\ x \in Nat /\ Node \in SUBSET Nat /\ x \in Component(x)
  BY ComponentIsClosed, NetworkAssumption
<1>2. PICK z \in S : \A m \in S : m <= z
  <2>1. S \in SUBSET Node /\ S # {} /\ \A m \in S : m < x
    BY <1>1
  <2> HIDE DEF S
  <2>2. QED
    BY <2>1, GreatestBelow
<1>3. z \in Component(x) /\ z \in Node /\ z < x /\ y <= z
  BY <1>1, <1>2
<1>4. Component(z) = Component(x)
  BY <1>3, SameComponent
<1>5. \A m \in Component(x) : m > z => x <= m
  BY <1>1, <1>2, <1>3
<1>6. IsNext(x, z)
  BY <1>1, <1>3, <1>4, <1>5 DEF IsNext
<1>7. state[z].parent # NoPeer
  <2>1. state[z].parent = NoPeer => z = Root(z)
    BY <1>3, KnownFacts
  <2>2. Root(z) = Root(x) /\ x <= Root(x) /\ Root(x) \in Node
    BY <1>1, <1>3, OneRoot
  <2>3. QED
    BY <1>1, <1>3, <2>1, <2>2
<1>8. QED
  BY <1>2, <1>3, <1>6, <1>7

(* The invariant is about the snakes and the bootstraps only.               *)
LEMMA SameSnakes ==
  ASSUME NEW H, InTurn(H), UNCHANGED <<vars, boots, snake, clock, fresh>>
  PROVE  InTurn(H)'
<1>1. /\ Quiet' <=> Quiet
      /\ \A v \in Node : Component(v)' = Component(v) /\ RootOf(v)' = RootOf(v)
      /\ \A v \in Node : Path(v)' = Path(v) /\ Line(v)' = Line(v) /\ KnownKeys(v)' = KnownKeys(v)
  BY SameTree DEF vars
<1>2. /\ boots' = boots /\ snake' = snake /\ clock' = clock /\ fresh' = fresh
      /\ state' = state /\ up' = up
  BY DEF vars
<1>3. ASSUME NEW v, NEW k PROVE EntryOf(v, k)' = EntryOf(v, k)
  BY <1>2 DEF EntryOf
<1>4. SoundTables(H)'
  BY <1>1, <1>2, <1>3 DEF InTurn, SoundTables, SoundEntry
<1>5. SoundDescending' /\ FromAbove'
  BY <1>1, <1>2 DEF InTurn, SoundDescending, FromAbove
<1>6. ASSUME NEW m \in Node, Arrived(m) PROVE Arrived(m)'
  BY <1>1, <1>2, <1>3, <1>6 DEF Arrived, IsNext
<1>7. \A m \in fresh : m \in Node
  BY DEF InTurn, FromAbove
<1>8. CASE NoBootstraps /\ \A m \in fresh : Arrived(m)
  BY <1>1, <1>2, <1>4, <1>5, <1>6, <1>7, <1>8 DEF InTurn, NoBootstraps
<1>9. CASE \E n \in fresh, x \in Node, p \in Peers, b \in Bootstrap :
             UnderWay(H, n, x, p, b) /\ \A m \in fresh \ {n} : Arrived(m)
  <2>1. PICK n \in fresh, x \in Node, p \in Peers, b \in Bootstrap :
             UnderWay(H, n, x, p, b) /\ \A m \in fresh \ {n} : Arrived(m)
    BY <1>9
  <2>2. n \in Node /\ Component(n) \in SUBSET Node
    BY <1>7, ComponentIsClosed
  <2>3. ASSUME NEW v \in Node
        PROVE  /\ Goal(v, n)' = Goal(v, n) /\ Stage(v, n)' = Stage(v, n)
               /\ Rank(H, v, n)' = Rank(H, v, n)
    <3>1. EntryKeys(v)' = EntryKeys(v)
      BY <1>2 DEF EntryKeys
    <3>2. Goal(v, n)' = Goal(v, n)
      BY <1>1, <3>1 DEF Goal
    <3>3. Stage(v, n)' = Stage(v, n)
      BY <1>1, <3>2 DEF Stage
    <3>4. QED
      BY <1>1, <1>2, <3>2, <3>3 DEF Rank, EntryOf
  <2>4. GoodMark(x, n, b.mark) => GoodMark(x, n, b.mark)'
    BY <1>2, <2>3 DEF GoodMark, EntryOf
  <2>5. \A v \in Component(n) : Visited(v, n)' => Visited(v, n)
    BY <1>2, <1>3 DEF Visited
  <2>6. boots = Alone(x, p, b) => boots' = Alone(x, p, b)
    BY <1>2
  <2>7. Visited(p[1], n) => Visited(p[1], n)'
    BY <1>2, <1>3 DEF Visited
  <2>8. UnderWay(H, n, x, p, b)'
    <3>1. /\ p \in up'[x] /\ x \in Component(n)' /\ boots' = Alone(x, p, b)
          /\ b.dest = n /\ b.seq = clock'[n] /\ [root |-> b.root, rseq |-> b.rseq] = RootOf(x)'
          /\ Visited(p[1], n)' /\ GoodMark(x, n, b.mark)'
      BY <1>1, <1>2, <2>1, <2>2, <2>4, <2>6, <2>7 DEF UnderWay
    <3>2. ASSUME NEW v \in Component(n)', Visited(v, n)'
          PROVE  Before(Rank(H, x, n)', Rank(H, v, n)')
      <4>1. v \in Component(n) /\ v \in Node /\ Visited(v, n)
        BY <1>1, <2>2, <2>5, <3>2
      <4>2. Before(Rank(H, x, n), Rank(H, v, n))
        BY <2>1, <4>1 DEF UnderWay
      <4>3. QED
        BY <2>3, <4>1, <4>2
    <3>3. QED
      BY <3>1, <3>2 DEF UnderWay, Before
  <2>9. \A m \in fresh' \ {n} : Arrived(m)'
    BY <1>2, <1>6, <1>7, <2>1
  <2>10. QED
    BY <1>1, <1>2, <1>4, <1>5, <2>1, <2>8, <2>9 DEF InTurn
<1>10. QED
  BY <1>8, <1>9 DEF InTurn

(* Maintenance finds nothing to clear in a snake that is in turn.           *)
LEMMA MaintainInTurn ==
  ASSUME NEW H, SoundTables(H), SoundDescending, NEW n \in Node
  PROVE  Snake(n)!MaintainSnake(snake[n], RootOf(n)) = snake[n]
<1> DEFINE s == snake[n]
           t == Snake(n)!MaintainSnake(s, RootOf(n))
<1>1. s \in SnakeRecord
  BY DEF SoundTables
<1>2. \A k \in Node : s.table[k] # NoEntry => ~s.table[k].expired
  BY DEF SoundTables, SoundEntry, EntryOf
<1>3. s.table = [k \in Node |-> s.table[k]]
  BY <1>1 DEF SnakeRecord
<1>4. s = [table |-> s.table, descending |-> s.descending]
  BY <1>1 DEF SnakeRecord
<1>5. t.table = s.table
  <2>1. t.table = [k \in Node |-> IF s.table[k] = NoEntry THEN NoEntry
                                  ELSE IF s.table[k].expired THEN NoEntry ELSE s.table[k]]
    BY DEF Snake!MaintainSnake
  <2> HIDE DEF s, t
  <2>2. QED
    BY <1>2, <1>3, <2>1
<1>6. t.descending = s.descending
  <2>1. s.descending # NoEntry => /\ ~s.descending.expired
                                  /\ [root |-> s.descending.root, rseq |-> s.descending.rseq] = RootOf(n)
    BY DEF SoundDescending
  <2>2. s.descending # NoEntry => /\ s.descending.root = RootOf(n).root
                                  /\ s.descending.rseq = RootOf(n).rseq
    BY <2>1 DEF RootOf
  <2>3. QED
    BY <2>1, <2>2 DEF Snake!MaintainSnake, Snake!SameRoot
<1>7. t = [table |-> t.table, descending |-> t.descending]
  BY DEF Snake!MaintainSnake
<1>8. QED
  BY <1>4, <1>5, <1>6, <1>7

LEMMA MaintainEmpty ==
  ASSUME NEW n \in Node, snake[n] = Snake(n)!EmptySnake
  PROVE  Snake(n)!MaintainSnake(snake[n], RootOf(n)) = snake[n]
BY DEF Snake!EmptySnake, Snake!MaintainSnake

(* Empty tables are in turn for any distances.                              *)
LEMMA EmptyTables ==
  ASSUME Shapes, fresh = {}, \A m \in Node : snake[m] = Snake(m)!EmptySnake,
         NEW H \in [Node -> [Node -> Nat]]
  PROVE  SoundTables(H) /\ SoundDescending /\ FromAbove
<1>1. \A m \in Node : snake[m] = [table |-> [k \in Node |-> NoEntry], descending |-> NoEntry]
  BY DEF Snake!EmptySnake
<1>2. \A m \in Node : snake[m] \in SnakeRecord /\ snake[m].descending = NoEntry
  BY <1>1 DEF SnakeRecord
<1>3. \A v, k \in Node : EntryOf(v, k) = NoEntry
  BY <1>1 DEF EntryOf
<1>4. snake \in [Node -> SnakeRecord]
  <2>1. snake = [m \in Node |-> snake[m]]
    BY DEF Shapes
  <2>2. QED
    BY <1>2, <2>1
<1>5. SoundTables(H)
  BY <1>3, <1>4 DEF SoundTables, Shapes
<1>6. SoundDescending /\ FromAbove
  BY <1>2 DEF SoundDescending, FromAbove
<1>7. QED
  BY <1>5, <1>6

(* A frame without coordinates may go anywhere.                             *)
LEMMA FirstMark ==
  ASSUME Tidy, NEW v \in Node, NEW f \in Int, f < Root(v), NEW m, m = Snake(v)!FirstWatermark
  PROVE  m \in Mark /\ GoodMark(v, f, m)
<1>1. m = [key |-> FullMask, seq |-> 0]
  BY DEF Snake!FirstWatermark
<1>2. Goal(v, f) \in Nat /\ Goal(v, f) <= Root(v) /\ Root(v) \in Node /\ FullMask \in Nat
  BY GoalFacts, RootIsOnLine, OverlayAssumption
<1>3. Root(v) < FullMask /\ Root(v) \in Nat
  BY <1>2, OverlayAssumption, NetworkAssumption
<1>4. m.key > Goal(v, f)
  BY <1>1, <1>2, <1>3
<1>5. QED
  BY <1>1, <1>2, <1>4 DEF GoodMark, Mark

(* With no bootstrap under way, one that is pushed is alone.                *)
LEMMA PushAlone ==
  ASSUME Tidy, NEW n \in Node, NEW p \in up[n], NEW b, NEW queues,
         queues = [m \in Node |-> None]
  PROVE  /\ Push(queues, n, p, b) = Alone(p[1], <<n, p[2]>>, b)
         /\ p[1] \in Node /\ <<n, p[2]>> \in up[p[1]] /\ <<n, p[2]>> \in Peers
<1>1. p \in Peers /\ p[1] \in Node /\ <<n, p[2]>> \in up[p[1]]
  BY KeysBehindPeer
<1>2. <<n, p[2]>> \in Peers
  BY <1>1, PeerFacts
<1> DEFINE q == <<n, p[2]>>
           w == p[1]
<1>3. chan[w] = None
  BY <1>1 DEF Tidy, Quiet, Drained
<1>4. Len(chan[w][q]) = 0
  BY <1>2, <1>3 DEF None
<1>5. Push(queues, n, p, b) =
        [queues EXCEPT ![w][q] = Append(@, [frame |-> b, behind |-> Len(chan[w][q])])]
  BY <1>1 DEF Push
<1> HIDE DEF q, w
<1>6. queues[w][q] = <<>>
  BY <1>1, <1>2 DEF None, q, w
<1>7. Append(<<>>, [frame |-> b, behind |-> 0]) = <<[frame |-> b, behind |-> 0]>>
  OBVIOUS
<1>8. Push(queues, n, p, b) = [queues EXCEPT ![w][q] = <<[frame |-> b, behind |-> 0]>>]
  BY <1>1, <1>2, <1>4, <1>5, <1>6, <1>7 DEF w, q
<1>9. Push(queues, n, p, b) = Alone(w, q, b)
  BY <1>8 DEF None, Alone
<1>10. QED
  BY <1>1, <1>2, <1>9 DEF w, q

(* When it is the turn of n its bootstrap is the one that is under way.     *)
LEMMA Launch ==
  ASSUME Tidy, Shapes, NoBootstraps,
         NEW H, SoundTables(H), SoundDescending, FromAbove, \A m \in fresh : Arrived(m),
         NEW n \in Node, state[n].parent # NoPeer,
         \A m \in Component(n) : m > n => m \in fresh \/ state[m].parent = NoPeer,
         NEW h \in NextHopsSNEK(n, snake[n], n, TRUE, Snake(n)!FirstWatermark),
         NEW c, c = [dest |-> n, root |-> RootOf(n).root, rseq |-> RootOf(n).rseq,
                     seq |-> clock[n] + 1, mark |-> h.mark],
         UNCHANGED <<vars, snake>>, clock' = [clock EXCEPT ![n] = @ + 1],
         boots' = Push(boots, n, h.peer, c),
         fresh' = fresh \cup {n}
  PROVE  InTurn(H)'
<1>1. /\ n \in Nat /\ clock[n] \in Nat /\ clock \in [Node -> Nat] /\ DOMAIN clock = Node
      /\ \A k \in Node : clock[k] \in Nat
  BY NetworkAssumption DEF Shapes
<1>2. n \in Component(n) /\ Component(n) \in SUBSET Node
  BY ComponentIsClosed
<1>3. /\ n < Root(n) /\ RootOf(n).root \in Nat /\ RootOf(n).rseq \in Nat
      /\ RootOf(n) = [root |-> RootOf(n).root, rseq |-> RootOf(n).rseq]
      /\ \A x \in Component(n) : RootOf(x) = RootOf(n) /\ Root(x) = Root(n)
  <2>1. n < Root(n) /\ RootOf(n).root \in Nat /\ RootOf(n).rseq \in Nat
    BY <1>2, OneRoot, NetworkAssumption
  <2>2. RootOf(n) = [root |-> RootOf(n).root, rseq |-> RootOf(n).rseq]
    BY DEF RootOf
  <2>3. QED
    BY <1>2, <2>1, <2>2, OneRoot
<1> DEFINE p == h.peer
           x == p[1]
           q == <<n, p[2]>>
           mark == Snake(n)!FirstWatermark
<1>4. mark \in Mark /\ GoodMark(n, n, mark)
  BY <1>1, <1>3, FirstMark
<1>5. Goal(n, n) # n
  BY <1>1, <1>3, GoalFacts DEF IsLeast
<1>6. /\ h.mark \in Mark /\ p \in up[n] /\ x \in Component(n)
      /\ Before(Rank(H, x, n), Rank(H, n, n)) /\ GoodMark(x, n, h.mark)
  <2>1. h \in NextHopsSNEK(n, snake[n], n, TRUE, mark)
    OBVIOUS
  <2> HIDE DEF mark
  <2>2. QED
    BY <1>3, <1>4, <1>5, <2>1, BootstrapHop
<1>7. /\ boots' = Alone(x, q, c)
      /\ x \in Node /\ q \in up[x] /\ q \in Peers
  <2>1. boots = [m \in Node |-> None]
    BY DEF Shapes, NoBootstraps
  <2>2. boots' = Push(boots, n, p, c)
    OBVIOUS
  <2>3. p \in up[n]
    BY <1>6
  <2> HIDE DEF p
  <2>4. /\ Push(boots, n, p, c) = Alone(p[1], <<n, p[2]>>, c)
        /\ p[1] \in Node /\ <<n, p[2]>> \in up[p[1]] /\ <<n, p[2]>> \in Peers
    BY <2>1, <2>3, PushAlone
  <2>5. QED
    BY <2>2, <2>4
<1>8. c \in Bootstrap
  BY <1>1, <1>3, <1>6 DEF Bootstrap
<1>9. UNCHANGED vars
  OBVIOUS
<1>10. /\ Quiet' <=> Quiet
       /\ \A v \in Node : Component(v)' = Component(v) /\ RootOf(v)' = RootOf(v)
  BY <1>9, SameTree
<1>11. /\ snake' = snake /\ state' = state /\ up' = up
       /\ \A v, k \in Node : EntryOf(v, k)' = EntryOf(v, k)
  BY DEF EntryOf, vars
<1>12. /\ clock' \in [Node -> Nat] /\ clock'[n] = clock[n] + 1
       /\ \A k \in Node : k # n => clock'[k] = clock[k]
       /\ \A k \in Node : clock[k] <= clock'[k] /\ clock'[k] \in Nat
  BY <1>1
<1>13. SoundTables(H)'
  <2>1. ASSUME NEW v \in Node, NEW k \in Node, EntryOf(v, k) # NoEntry
        PROVE  SoundEntry(H, v, k)'
    <3>1. SoundEntry(H, v, k) /\ EntryOf(v, k).seq \in Nat
      BY <2>1, EntryType
    <3>2. EntryOf(v, k).seq <= clock'[k]
      BY <1>1, <1>12, <3>1 DEF SoundEntry
    <3>3. LET w == EntryOf(v, k).source[1] IN w \in Node
      BY <3>1, KeysBehindPeer DEF SoundEntry
    <3>4. QED
      BY <1>10, <1>11, <3>1, <3>2, <3>3 DEF SoundEntry
  <2>2. QED
    BY <1>11, <1>12, <2>1 DEF SoundTables
<1>14. SoundDescending'
  BY <1>10, <1>11 DEF SoundDescending
<1>15. FromAbove'
  BY <1>10, <1>11 DEF FromAbove
<1>16. \A v \in Component(n) : /\ Rank(H, v, n)' = Rank(H, v, n)
                               /\ \A m : GoodMark(v, n, m)' <=> GoodMark(v, n, m)
  BY <1>2, <1>3, <1>9, <1>11, <1>12, SameRank
<1>17. ASSUME NEW v \in Component(n), Visited(v, n)' PROVE v = n
  <2>1. SUFFICES ASSUME v # n PROVE FALSE
    OBVIOUS
  <2>2. v \in Node /\ EntryOf(v, n) # NoEntry /\ EntryOf(v, n).seq = clock[n] + 1
    BY <1>2, <1>11, <1>12, <1>17, <2>1 DEF Visited
  <2>3. EntryOf(v, n).seq <= clock[n]
    BY <2>2, EntryType DEF SoundEntry
  <2>4. QED
    BY <1>1, <2>2, <2>3
<1>18. UnderWay(H, n, x, q, c)'
  <2>1. q \in up'[x] /\ x \in Component(n)' /\ q[1] = n
    BY <1>6, <1>7, <1>10, <1>11
  <2>2. boots' = Alone(x, q, c)
    BY <1>7
  <2>3. c.dest = n /\ c.seq = clock'[n] /\ [root |-> c.root, rseq |-> c.rseq] = RootOf(x)'
    BY <1>3, <1>6, <1>7, <1>10, <1>12
  <2>4. Visited(q[1], n)'
    BY <2>1 DEF Visited
  <2>5. GoodMark(x, n, c.mark)'
    <3>1. c.mark = h.mark
      OBVIOUS
    <3>2. GoodMark(x, n, h.mark)'
      BY <1>6, <1>16
    <3>3. QED
      BY <3>1, <3>2
  <2>6. ASSUME NEW v \in Component(n), Visited(v, n)'
        PROVE  Before(Rank(H, x, n)', Rank(H, v, n)')
    <3>1. v = n
      BY <1>17, <2>6
    <3>2. Rank(H, x, n)' = Rank(H, x, n) /\ Rank(H, n, n)' = Rank(H, n, n)
      BY <1>2, <1>6, <1>16
    <3>3. Rank(H, v, n)' = Rank(H, n, n)
      BY <3>1, <3>2
    <3>4. QED
      BY <1>6, <3>2, <3>3
  <2>7. \A v \in Component(n)' : Visited(v, n)' => Before(Rank(H, x, n)', Rank(H, v, n)')
    BY <1>10, <2>6
  <2> HIDE DEF p, x, q
  <2>8. QED
    BY <2>1, <2>2, <2>3, <2>4, <2>5, <2>7 DEF UnderWay, Before
<1>19. \A m \in fresh' \ {n} : Arrived(m)'
  <2>1. ASSUME NEW m \in fresh, Arrived(m) PROVE Arrived(m)'
    <3>1. m \in Node
      BY DEF FromAbove
    <3>2. QED
      BY <1>10, <1>11, <2>1, <3>1 DEF Arrived, IsNext
  <2>2. QED
    BY <2>1
<1>20. QED
  <2>1. n \in fresh' /\ x \in Node /\ q \in Peers /\ Quiet'
    BY <1>7, <1>10 DEF Tidy
  <2> HIDE DEF p, x, q
  <2>2. QED
    BY <1>8, <1>13, <1>14, <1>15, <1>18, <1>19, <2>1 DEF InTurn

LEMMA AloneIsNext ==
  ASSUME NEW x \in Node, NEW p \in Peers, NEW b, boots = Alone(x, p, b)
  PROVE  /\ boots[x][p] # <<>> /\ Head(boots[x][p]).frame = b
         /\ [boots EXCEPT ![x][p] = Tail(@)] = [m \in Node |-> None]
         /\ ~NoBootstraps
<1> DEFINE e == [frame |-> b, behind |-> 0]
<1>1. /\ <<e>> # <<>> /\ Head(<<e>>) = e /\ Tail(<<e>>) = <<>> /\ e.frame = b
  OBVIOUS
<1> HIDE DEF e
<1>2. boots = [m \in Node |-> [q \in Peers |-> IF m = x /\ q = p THEN <<e>> ELSE <<>>]]
  BY DEF Alone, e
<1>3. boots[x][p] = <<e>> /\ None[p] = <<>>
  BY <1>2 DEF None
<1>4. [boots EXCEPT ![x][p] = Tail(@)] = [boots EXCEPT ![x][p] = <<>>]
  BY <1>1, <1>2, <1>3
<1>5. [boots EXCEPT ![x][p] = <<>>] = [m \in Node |-> None]
  <2> DEFINE row(m) == [q \in Peers |-> IF m = x /\ q = p THEN <<e>> ELSE <<>>]
  <2>1. [row(x) EXCEPT ![p] = <<>>] = None
    BY DEF None
  <2>2. ASSUME NEW m \in Node, m # x PROVE row(m) = None
    BY <2>2 DEF None
  <2>3. boots = [m \in Node |-> row(m)]
    BY <1>2
  <2> HIDE DEF row
  <2>4. [boots EXCEPT ![x][p] = <<>>] = [boots EXCEPT ![x] = [boots[x] EXCEPT ![p] = <<>>]]
    OBVIOUS
  <2>5. [boots[x] EXCEPT ![p] = <<>>] = None
    BY <2>1, <2>3
  <2>6. QED
    BY <2>2, <2>3, <2>4, <2>5
<1>6. ~NoBootstraps
  BY <1>1, <1>3 DEF NoBootstraps
<1>7. QED
  BY <1>1, <1>3, <1>4, <1>5, <1>6

LEMMA AloneIsOnly ==
  ASSUME NEW x \in Node, NEW p \in Peers, NEW b, boots = Alone(x, p, b),
         NEW y \in Node, NEW q \in Peers, boots[y][q] # <<>>
  PROVE  y = x /\ q = p
BY DEF Alone

LEMMA UnderWayFacts ==
  ASSUME Tidy, NEW H, SoundTables(H), FromAbove,
         NEW n \in fresh, NEW x \in Node, NEW p \in Peers, NEW b \in Bootstrap,
         UnderWay(H, n, x, p, b)
  PROVE  /\ n \in Node /\ n \in Nat /\ x \in Nat /\ Component(x) = Component(n)
         /\ n \in Component(n) /\ Component(n) \in SUBSET Node
         /\ \A v \in Component(n) : /\ n < Root(v) /\ Rank(H, v, n) \in Ranks
                                    /\ RootOf(v) = RootOf(n)
         /\ p[1] \in Component(n) /\ p[1] # x /\ ~Visited(x, n)
         /\ EntryOf(x, n) # NoEntry => EntryOf(x, n).seq < clock[n]
         /\ Snake(x)!AcceptsBootstrap(snake[x], RootOf(x), b)
         /\ b.mark \in Mark /\ b.seq \in Nat
<1>1. n \in Node /\ n \in Nat /\ x \in Nat /\ n \in Int
  <2>1. n \in Node
    BY DEF FromAbove
  <2>2. QED
    BY <2>1, NetworkAssumption
<1>2. n \in Component(n) /\ Component(n) \in SUBSET Node
  BY <1>1, ComponentIsClosed
<1>3. x \in Component(n) /\ Component(x) = Component(n) /\ x \in Component(x)
  BY <1>1, SameComponent, ComponentIsClosed DEF UnderWay
<1>4. \A v \in Component(n) : n < Root(v) /\ RootOf(v) = RootOf(n)
  BY <1>1, <1>2, OneRoot DEF FromAbove
<1>5. \A v \in Component(n) : Rank(H, v, n) \in Ranks
  BY <1>1, <1>2, <1>4, RankType
<1>6. p[1] \in Component(n) /\ p[1] # x
  BY <1>3, KeysBehindPeer, PeerInComponent DEF UnderWay
<1>7. ~Visited(x, n)
  BY <1>3, <1>5, BeforeIsOrder DEF UnderWay
<1>8. EntryOf(x, n) # NoEntry => EntryOf(x, n).seq < clock[n]
  <2>1. SUFFICES ASSUME EntryOf(x, n) # NoEntry PROVE EntryOf(x, n).seq < clock[n]
    OBVIOUS
  <2>2. EntryOf(x, n).seq \in Nat /\ EntryOf(x, n).seq <= clock[n] /\ clock[n] \in Nat
    BY <1>1, <2>1, EntryType DEF SoundEntry, SoundTables
  <2>3. EntryOf(x, n).seq # clock[n]
    BY <1>7, <2>1 DEF Visited
  <2>4. QED
    BY <2>2, <2>3
<1>9. b.mark \in Mark /\ b.seq \in Nat /\ b.dest = n /\ b.seq = clock[n]
      /\ [root |-> b.root, rseq |-> b.rseq] = RootOf(x)
  BY DEF Bootstrap, UnderWay
<1>10. Snake(x)!AcceptsBootstrap(snake[x], RootOf(x), b)
  <2>1. b.root = RootOf(x).root /\ b.rseq = RootOf(x).rseq
    BY <1>9 DEF RootOf
  <2>2. EntryOf(x, n) = NoEntry \/ b.seq > EntryOf(x, n).seq
    <3>1. EntryOf(x, n) # NoEntry => EntryOf(x, n).seq \in Nat
      BY <1>1, EntryType
    <3>2. QED
      BY <1>8, <1>9, <3>1
  <2>3. QED
    BY <1>9, <2>1, <2>2 DEF Snake!AcceptsBootstrap, Snake!SameRoot, EntryOf
<1>11. QED
  BY <1>1, <1>2, <1>3, <1>4, <1>5, <1>6, <1>7, <1>8, <1>9, <1>10

(* What the table and the descending node of x become.                      *)
Stores(x, p, to, b) ==
  snake' = [snake EXCEPT ![x] = Snake(x)!HandleBootstrap(@, p, to, b)]

EntryFor(p, to, b) ==
  [key |-> b.dest, source |-> p, destination |-> to, root |-> b.root, rseq |-> b.rseq,
   seq |-> b.seq, expired |-> FALSE]

LEMMA StoredBootstrap ==
  ASSUME NEW H, SoundTables(H), NEW n \in Node, NEW x \in Node, NEW p \in Peers,
         NEW b \in Bootstrap, b.dest = n, NEW to \in Peers \cup {NoPeer, Local},
         Stores(x, p, to, b), NEW e, e = EntryFor(p, to, b)
  PROVE  /\ e \in TableEntry /\ e # NoEntry /\ snake' \in [Node -> SnakeRecord]
         /\ EntryOf(x, n)' = e
         /\ \A v, k \in Node : v # x \/ k # n => EntryOf(v, k)' = EntryOf(v, k)
         /\ \A v \in Node : v # x => snake'[v].descending = snake[v].descending
         /\ snake'[x].descending = IF Snake(x)!BecomesDescending(snake[x], b)
                                   THEN e ELSE snake[x].descending
<1> DEFINE d == IF Snake(x)!BecomesDescending(snake[x], b) THEN e ELSE snake[x].descending
           s == [table |-> [snake[x].table EXCEPT ![n] = e], descending |-> d]
<1>1. e \in TableEntry
  BY DEF TableEntry, Bootstrap, EntryFor
<1>2. e # NoEntry
  BY <1>1, OverlayAssumption DEF TableEntry
<1>3. Snake(x)!HandleBootstrap(snake[x], p, to, b) = s
  BY DEF Snake!HandleBootstrap, EntryFor
<1>4. /\ snake \in [Node -> SnakeRecord]
      /\ \A v \in Node : /\ snake[v].table \in [Node -> TableEntry \cup {NoEntry}]
                         /\ snake[v].descending \in TableEntry \cup {NoEntry}
  BY DEF SoundTables, SnakeRecord
<1>5. d \in TableEntry \cup {NoEntry}
  BY <1>1, <1>4
<1> HIDE DEF d
<1>6. s \in SnakeRecord
  BY <1>1, <1>4, <1>5 DEF SnakeRecord
<1>7. s.table[n] = e /\ (\A k \in Node : k # n => s.table[k] = snake[x].table[k]) /\ s.descending = d
  BY <1>4
<1> HIDE DEF s
<1>8. snake' = [snake EXCEPT ![x] = s]
  BY <1>3 DEF Stores
<1>9. snake' \in [Node -> SnakeRecord] /\ snake'[x] = s /\ \A v \in Node : v # x => snake'[v] = snake[v]
  BY <1>4, <1>6, <1>8
<1>10. EntryOf(x, n)' = e /\ \A v, k \in Node : v # x \/ k # n => EntryOf(v, k)' = EntryOf(v, k)
  BY <1>7, <1>9 DEF EntryOf
<1>11. /\ \A v \in Node : v # x => snake'[v].descending = snake[v].descending
       /\ snake'[x].descending = d
  BY <1>7, <1>9
<1>12. QED
  BY <1>1, <1>2, <1>9, <1>10, <1>11 DEF d

(* A bootstrap that arrives is stored and ends there, above n, or goes on.  *)
LEMMA Handled ==
  ASSUME Tidy, Shapes, NEW H, SoundTables(H), SoundDescending, FromAbove,
         NEW n \in fresh, NEW x \in Node, NEW p \in Peers, NEW b \in Bootstrap,
         UnderWay(H, n, x, p, b), \A m \in fresh \ {n} : Arrived(m),
         UNCHANGED <<vars, clock, fresh>>, HandleBootstrap(x, p)
  PROVE  \E I : InTurn(I)'
<1>1. /\ n \in Node /\ n \in Nat /\ x \in Nat /\ Component(x) = Component(n)
      /\ n \in Component(n) /\ Component(n) \in SUBSET Node
      /\ \A v \in Component(n) : /\ n < Root(v) /\ Rank(H, v, n) \in Ranks
                                 /\ RootOf(v) = RootOf(n)
      /\ p[1] \in Component(n) /\ p[1] # x /\ ~Visited(x, n)
      /\ EntryOf(x, n) # NoEntry => EntryOf(x, n).seq < clock[n]
      /\ Snake(x)!AcceptsBootstrap(snake[x], RootOf(x), b)
      /\ b.mark \in Mark /\ b.seq \in Nat
  BY UnderWayFacts
<1>2. /\ p \in up[x] /\ x \in Component(n) /\ boots = Alone(x, p, b)
      /\ b.dest = n /\ b.seq = clock[n] /\ [root |-> b.root, rseq |-> b.rseq] = RootOf(x)
      /\ Visited(p[1], n) /\ GoodMark(x, n, b.mark)
      /\ \A v \in Component(n) : Visited(v, n) => Before(Rank(H, x, n), Rank(H, v, n))
  BY DEF UnderWay
<1>3. /\ Head(boots[x][p]).frame = b
      /\ [boots EXCEPT ![x][p] = Tail(@)] = [m \in Node |-> None]
  BY <1>2, AloneIsNext
<1> DEFINE rest == [m \in Node |-> None]
<1>4. PICK h \in NextHopsSNEK(x, snake[x], n, TRUE, b.mark) :
        /\ snake' = [snake EXCEPT ![x] = Snake(x)!HandleBootstrap(@, p, h.peer, b)]
        /\ boots' = IF ForwardsBootstrap(x, p, h, b)
                    THEN Push(rest, x, h.peer, [b EXCEPT !.mark = h.mark]) ELSE rest
  <2> DEFINE Takes(a, left) ==
        \E h \in NextHopsSNEK(x, snake[x], a.dest, TRUE, a.mark) :
          /\ snake' = [snake EXCEPT ![x] = Snake(x)!HandleBootstrap(@, p, h.peer, a)]
          /\ boots' = IF ForwardsBootstrap(x, p, h, a)
                      THEN Push(left, x, h.peer, [a EXCEPT !.mark = h.mark]) ELSE left
             a == Head(boots[x][p]).frame
  <2>1. Snake(x)!AcceptsBootstrap(snake[x], RootOf(x), a)
          => Takes(a, [boots EXCEPT ![x][p] = Tail(@)])
    BY DEF HandleBootstrap
  <2> HIDE DEF Takes
  <2>2. Takes(b, rest)
    BY <1>1, <1>3, <2>1
  <2>3. QED
    BY <1>2, <2>2 DEF Takes
<1> DEFINE to == h.peer
           y == to[1]
<1>5. /\ h.mark \in Mark /\ ~Snake(x)!WorseThan(h.mark, b.mark)
      /\ Goal(x, n) = x => to = NoPeer
      /\ Goal(x, n) # x => /\ to \in up[x] /\ y \in Component(n)
                           /\ Before(Rank(H, y, n), Rank(H, x, n))
                           /\ GoodMark(y, n, h.mark)
  BY <1>1, <1>2, BootstrapHop
<1>6. to \in Peers \cup {NoPeer, Local}
  <2>1. up[x] \in SUBSET Peers
    BY DEF Tidy, NetworkIInv, NetworkTypes
  <2>2. QED
    BY <1>5, <2>1
<1> PICK e : e = EntryFor(p, to, b)
  OBVIOUS
<1>7. /\ e \in TableEntry /\ e # NoEntry /\ snake' \in [Node -> SnakeRecord]
      /\ EntryOf(x, n)' = e
      /\ \A v, k \in Node : v # x \/ k # n => EntryOf(v, k)' = EntryOf(v, k)
      /\ \A v \in Node : v # x => snake'[v].descending = snake[v].descending
      /\ snake'[x].descending = IF Snake(x)!BecomesDescending(snake[x], b)
                                THEN e ELSE snake[x].descending
  <2>1. Stores(x, p, to, b)
    BY <1>4 DEF Stores
  <2>2. n \in Node
    BY <1>1
  <2>3. b.dest = n
    BY <1>2
  <2> HIDE DEF to
  <2>4. QED
    BY <1>6, <2>1, <2>2, <2>3, StoredBootstrap
<1>8. /\ e.key = n /\ e.source = p /\ ~e.expired /\ e.seq = clock[n]
      /\ [root |-> e.root, rseq |-> e.rseq] = RootOf(x)
  BY <1>2 DEF EntryFor
<1>9. /\ Quiet' <=> Quiet
      /\ \A v \in Node : Component(v)' = Component(v) /\ RootOf(v)' = RootOf(v)
  BY SameTree
<1>10. clock' = clock /\ fresh' = fresh /\ state' = state /\ up' = up
  BY DEF vars
<1>11. SoundDescending'
  <2>1. ASSUME NEW v \in Node, snake'[v].descending # NoEntry
        PROVE  LET d == snake'[v].descending
               IN  /\ d.key \in Component(v) /\ d.key < v /\ ~d.expired
                   /\ [root |-> d.root, rseq |-> d.rseq] = RootOf(v)
    <3>1. CASE v = x /\ Snake(x)!BecomesDescending(snake[x], b)
      <4>1. n < x
        BY <1>2, <3>1 DEF Snake!BecomesDescending
      <4>2. QED
        BY <1>1, <1>7, <1>8, <3>1, <4>1
    <3>2. CASE ~(v = x /\ Snake(x)!BecomesDescending(snake[x], b))
      <4>1. snake'[v].descending = snake[v].descending
        BY <1>7, <3>2
      <4>2. QED
        BY <2>1, <4>1 DEF SoundDescending
    <3>3. QED
      BY <3>1, <3>2
  <2>2. QED
    BY <1>9, <2>1 DEF SoundDescending
<1>12. FromAbove'
  BY <1>9, <1>10 DEF FromAbove
<1>13. \A m \in fresh \ {n} : Arrived(m)'
  <2>1. SUFFICES ASSUME NEW m \in fresh \ {n}, NEW z \in Node, IsNext(z, m)
                 PROVE  /\ EntryOf(z, m)' # NoEntry /\ snake'[z].descending # NoEntry
                        /\ snake'[z].descending.key = m
    <3>1. \A m \in fresh : m \in Node
      BY DEF FromAbove
    <3>2. QED
      BY <1>9, <1>10, <3>1 DEF Arrived, IsNext
  <2>2. m \in Node /\ m \in Nat
    BY NetworkAssumption DEF FromAbove
  <2>3. EntryOf(z, m) # NoEntry /\ snake[z].descending # NoEntry /\ snake[z].descending.key = m
    BY <2>1 DEF Arrived
  <2>4. EntryOf(z, m)' = EntryOf(z, m)
    BY <1>7, <2>2
  <2>5. ASSUME z = x, Snake(x)!BecomesDescending(snake[x], b) PROVE FALSE
    <3>1. x \in Component(m) /\ x > m /\ \A k \in Component(m) : k > m => x <= k
      BY <2>1, <2>5 DEF IsNext
    <3>2. n \in Component(m)
      BY <1>1, <2>2, <3>1, SameComponent
    <3>3. ~(n > m) \/ ~(n < x)
      BY <1>1, <3>1, <3>2
    <3>4. n < x /\ (m = n \/ (m < n /\ n < x))
      <4>1. ~snake[x].descending.expired
        BY <2>3, <2>5 DEF SoundDescending
      <4>2. QED
        BY <1>2, <2>3, <2>5, <4>1 DEF Snake!BecomesDescending, Snake!DHTOrdered
    <3>5. QED
      BY <1>1, <2>1, <2>2, <3>3, <3>4
  <2>6. snake'[z].descending = snake[z].descending
    BY <1>7, <2>5
  <2>7. QED
    BY <2>3, <2>4, <2>6

<1> DEFINE I == [H EXCEPT ![n][x] = H[n][p[1]] + 1]
<1>14. /\ I \in [Node -> [Node -> Nat]]
       /\ I[n][x] = H[n][p[1]] + 1 /\ H[n][p[1]] \in Nat
       /\ \A k, v \in Node : H[k][v] \in Nat /\ (k # n \/ v # x => I[k][v] = H[k][v])
  <2>1. /\ H \in [Node -> [Node -> Nat]] /\ p[1] \in Node
        /\ \A k, v \in Node : H[k][v] \in Nat
    BY <1>1 DEF SoundTables
  <2> DEFINE a == H[n][p[1]] + 1
             row == [H[n] EXCEPT ![x] = a]
  <2>2. a \in Nat
    <3>1. n \in Node
      BY <1>1
    <3>2. H[n][p[1]] \in Nat
      BY <2>1, <3>1
    <3>3. QED
      BY <3>2
  <2>3. I = [H EXCEPT ![n] = row]
    OBVIOUS
  <2> HIDE DEF a, I
  <2>4. row \in [Node -> Nat] /\ row[x] = a /\ \A v \in Node : v # x => row[v] = H[n][v]
    BY <1>1, <2>1, <2>2
  <2> HIDE DEF row
  <2>5. I \in [Node -> [Node -> Nat]] /\ I[n] = row /\ \A k \in Node : k # n => I[k] = H[k]
    BY <1>1, <2>1, <2>3, <2>4
  <2>6. QED
    BY <1>1, <2>1, <2>4, <2>5 DEF a
<1> HIDE DEF I
<1>15. ASSUME NEW v \in Node, NEW k \in Node, EntryOf(v, k)' # NoEntry
       PROVE  SoundEntry(I, v, k)'
  <2>1. /\ clock \in [Node -> Nat] /\ clock[k] \in Nat
    BY DEF Shapes
  <2>2. CASE v = x /\ k = n
    <3> DEFINE w == p[1]
    <3>1. EntryOf(v, k)' = e
      BY <1>7, <2>2
    <3>2. k \in fresh' /\ k \in Component(v)' /\ e.source \in up'[v] /\ e.seq <= clock'[k]
      BY <1>1, <1>2, <1>8, <1>9, <1>10, <2>1, <2>2
    <3>3. w # k => EntryOf(w, k) # NoEntry /\ EntryOf(w, k).seq = clock[k]
      BY <1>2, <2>2 DEF Visited
    <3>4. EntryOf(w, k)' = EntryOf(w, k) /\ w \in Node
      BY <1>1, <1>7
    <3>5. I[k][w] < I[k][v]
      <4>1. w \in Node /\ w # x
        BY <1>1
      <4>2. I[n][w] = H[n][w] /\ H[n][w] \in Nat /\ I[n][x] = H[n][w] + 1
        BY <1>1, <1>14, <4>1
      <4>3. QED
        BY <2>2, <4>2
    <3>6. w = k \/ (EntryOf(w, k)' # NoEntry /\ EntryOf(w, k)'.seq = e.seq /\ I[k][w] < I[k][v])
      BY <1>8, <2>2, <3>3, <3>4, <3>5
    <3>7. e.source = w \/ e.source[1] = w
      BY <1>8
    <3>8. w = e.source[1]
      BY <1>8
    <3> HIDE DEF w
    <3>9. QED
      BY <1>8, <2>2, <3>1, <3>2, <3>6, <3>8 DEF SoundEntry
  <2>3. CASE ~(v = x /\ k = n)
    <3> PICK d : d = EntryOf(v, k)
      OBVIOUS
    <3> PICK w : w = d.source[1]
      OBVIOUS
    <3>1. EntryOf(v, k)' = d /\ d # NoEntry
      BY <1>7, <2>3, <1>15
    <3>2. SoundEntry(H, v, k) /\ d.seq \in Nat
      BY <3>1, EntryType
    <3>3. /\ k \in fresh' /\ k \in Component(v)' /\ d.key = k /\ ~d.expired
          /\ d.seq <= clock'[k] /\ d.source \in up'[v]
      BY <1>9, <1>10, <3>2 DEF SoundEntry
    <3>4. /\ w \in Node
          /\ w = k \/ /\ EntryOf(w, k) # NoEntry
                      /\ \/ EntryOf(w, k).seq > d.seq
                         \/ EntryOf(w, k).seq = d.seq /\ H[k][w] < H[k][v]
      BY <3>2, KeysBehindPeer DEF SoundEntry
    <3>5. CASE w = x /\ k = n
      <4>1. w # k => EntryOf(w, k).seq < e.seq /\ EntryOf(w, k).seq >= d.seq /\ EntryOf(w, k).seq \in Nat
        <5>1. SUFFICES ASSUME w # k
                       PROVE  /\ EntryOf(w, k).seq < e.seq /\ EntryOf(w, k).seq >= d.seq
                              /\ EntryOf(w, k).seq \in Nat
          OBVIOUS
        <5>2. EntryOf(w, k) # NoEntry
          BY <3>4, <5>1
        <5>3. EntryOf(w, k).seq \in Nat
          BY <3>4, <5>2, EntryType
        <5>4. EntryOf(w, k).seq >= d.seq
          BY <3>2, <3>4, <5>1, <5>3
        <5>5. EntryOf(w, k).seq < e.seq
          BY <1>1, <1>8, <3>5, <5>2
        <5>6. QED
          BY <5>3, <5>4, <5>5
      <4>2. w # k => EntryOf(w, k)' # NoEntry /\ EntryOf(w, k)'.seq > d.seq
        <5>1. EntryOf(x, n)' = e /\ e # NoEntry
          BY <1>7
        <5>2. e.seq \in Nat
          BY <1>8, <2>1, <3>5
        <5>3. w # k => e.seq > d.seq
          BY <3>2, <4>1, <5>2
        <5>4. QED
          BY <3>5, <5>1, <5>3
      <4>3. QED
        BY <3>1, <3>3, <4>2 DEF SoundEntry
    <3>6. CASE ~(w = x /\ k = n)
      <4>1. EntryOf(w, k)' = EntryOf(w, k) /\ I[k][w] = H[k][w] /\ I[k][v] = H[k][v]
        BY <1>7, <1>14, <2>3, <3>4, <3>6
      <4>2. QED
        BY <3>1, <3>3, <3>4, <4>1 DEF SoundEntry
    <3>7. QED
      BY <3>5, <3>6
  <2>4. QED
    BY <2>2, <2>3
<1>16. SoundTables(I)'
  BY <1>7, <1>10, <1>14, <1>15 DEF SoundTables, Shapes
<1>17. CASE Goal(x, n) = x
  <2>1. boots' = rest
    BY <1>4, <1>5, <1>17 DEF ForwardsBootstrap
  <2>2. NoBootstraps'
    BY <2>1 DEF NoBootstraps
  <2>3. n < x
    <3>1. n < Root(x)
      BY <1>1, <1>2
    <3>2. QED
      BY <1>1, <1>17, <3>1, GoalFacts DEF IsLeast
  <2>4. PICK z \in Component(x) : /\ z \in Node /\ n <= z /\ IsNext(x, z)
                                  /\ state[z].parent # NoPeer
                                  /\ \A m \in Component(x) : m < x => m <= z
    BY <1>1, <2>3, NextAbove
  <2>5. z = n
    <3>1. SUFFICES ASSUME z # n PROVE FALSE
      OBVIOUS
    <3>2. z > n /\ z < x /\ z \in Nat
      BY <1>1, <2>4, <3>1, NetworkAssumption DEF IsNext
    <3>3. z \in fresh \ {n}
      BY <1>1, <2>4, <3>1, <3>2 DEF FromAbove
    <3>4. EntryOf(x, z) # NoEntry
      BY <2>4, <3>3 DEF Arrived
    <3>5. z \in EntryKeys(x)
      BY <2>4, <3>4 DEF EntryKeys, EntryOf
    <3>6. Goal(x, n) <= z
      <4>1. n < Root(x)
        BY <1>1, <1>2
      <4>2. QED
        BY <1>1, <3>2, <3>5, <4>1, GoalFacts DEF IsLeast
    <3>7. QED
      BY <1>1, <1>17, <3>2, <3>6
  <2>6. IsNext(x, n)
    BY <2>4, <2>5
  <2>7. Snake(x)!BecomesDescending(snake[x], b)
    <3>1. CASE snake[x].descending = NoEntry
      BY <1>2, <2>3, <3>1 DEF Snake!BecomesDescending
    <3>2. CASE snake[x].descending # NoEntry
      <4> DEFINE k == snake[x].descending.key
      <4>1. k \in Component(x) /\ k < x /\ k \in Nat
        BY <1>1, <3>2, NetworkAssumption DEF SoundDescending
      <4>2. k <= n
        BY <2>4, <2>5, <4>1
      <4>3. k = n \/ k < n
        BY <1>1, <4>1, <4>2
      <4>4. QED
        BY <1>2, <2>3, <3>2, <4>3 DEF Snake!BecomesDescending, Snake!DHTOrdered
    <3>3. QED
      BY <3>1, <3>2
  <2>8. Arrived(n)'
    <3>1. SUFFICES ASSUME NEW u \in Node, IsNext(u, n)
                   PROVE  /\ EntryOf(u, n)' # NoEntry /\ snake'[u].descending # NoEntry
                          /\ snake'[u].descending.key = n
      BY <1>1, <1>9 DEF Arrived, IsNext
    <3>2. u = x
      <4>1. u <= x /\ x <= u /\ u \in Nat
        BY <2>6, <3>1, NetworkAssumption DEF IsNext
      <4>2. QED
        BY <1>1, <4>1
    <3>3. QED
      BY <1>7, <1>8, <2>7, <3>2
  <2>9. \A m \in fresh' : Arrived(m)'
    BY <1>10, <1>13, <2>8
  <2>10. QED
    BY <1>9, <1>11, <1>12, <1>16, <2>2, <2>9 DEF InTurn, Tidy

<1>18. CASE Goal(x, n) # x
  <2> DEFINE c == [b EXCEPT !.mark = h.mark]
             q == <<x, to[2]>>
  <2>1. /\ to \in up[x] /\ y \in Component(n) /\ y \in Node
        /\ Before(Rank(H, y, n), Rank(H, x, n)) /\ GoodMark(y, n, h.mark)
    BY <1>1, <1>5, <1>18
  <2>2. to # p
    <3>1. SUFFICES ASSUME to = p PROVE FALSE
      OBVIOUS
    <3>2. Before(Rank(H, x, n), Rank(H, y, n))
      BY <1>2, <1>1, <3>1
    <3>3. QED
      BY <1>1, <1>2, <2>1, <3>2, BeforeIsOrder
  <2>3. ForwardsBootstrap(x, p, h, b)
    <3>1. to \in Peers
      BY <2>1 DEF Tidy, NetworkIInv, NetworkTypes
    <3>2. to \notin {NoPeer, Local}
      BY <3>1, NetworkAssumption, OverlayAssumption
    <3>3. QED
      BY <1>5, <2>2, <3>2 DEF ForwardsBootstrap
  <2>4. c = [dest |-> n, root |-> b.root, rseq |-> b.rseq, seq |-> b.seq, mark |-> h.mark]
    BY <1>2 DEF Bootstrap
  <2>5. c \in Bootstrap
    BY <1>1, <1>5, <2>4 DEF Bootstrap
  <2>6. boots' = Push(rest, x, to, c)
    BY <1>4, <2>3
  <2> HIDE DEF c
  <2>7. /\ boots' = Alone(y, q, c)
        /\ y \in Node /\ q \in up[y] /\ q \in Peers
    <3> DEFINE queues == rest
    <3>1. queues = [m \in Node |-> None] /\ boots' = Push(queues, x, to, c)
      BY <2>6
    <3> HIDE DEF queues, to
    <3>2. /\ Push(queues, x, to, c) = Alone(to[1], <<x, to[2]>>, c)
          /\ to[1] \in Node /\ <<x, to[2]>> \in up[to[1]] /\ <<x, to[2]>> \in Peers
      BY <2>1, <3>1, PushAlone
    <3>3. QED
      BY <3>1, <3>2
  <2>8. \A v \in Component(n) : /\ Rank(I, v, n)' = Rank(H, v, n)
                                /\ \A m : GoodMark(v, n, m)' <=> GoodMark(v, n, m)
    <3>1. ASSUME NEW v \in Component(n)
          PROVE  /\ Rank(I, v, n)' = Rank(H, v, n)
                 /\ \A m : GoodMark(v, n, m)' <=> GoodMark(v, n, m)
      <4>1. \A k \in Node : k # n => /\ EntryOf(v, k)' = EntryOf(v, k)
                                     /\ clock'[k] = clock[k] /\ I[k][v] = H[k][v]
        BY <1>1, <1>7, <1>10, <1>14
      <4>2. v \in Node /\ n < Root(v)
        BY <1>1
      <4>3. UNCHANGED vars
        OBVIOUS
      <4>4. QED
        BY <1>1, <4>1, <4>2, <4>3, SameRank
    <3>2. QED
      BY <3>1
  <2>9. \A v \in Component(n) : Visited(v, n)' => v = x \/ Visited(v, n)
    BY <1>1, <1>7, <1>10 DEF Visited
  <2>10. UnderWay(I, n, y, q, c)'
    <3>1. q \in up'[y] /\ y \in Component(n)' /\ q[1] = x
      BY <1>1, <1>9, <1>10, <2>1, <2>7
    <3>2. c.dest = n /\ c.seq = clock'[n] /\ [root |-> c.root, rseq |-> c.rseq] = RootOf(y)'
      <4>1. RootOf(y)' = RootOf(x)
        BY <1>1, <1>2, <1>9, <2>1
      <4>2. QED
        BY <1>2, <1>10, <2>4, <4>1
    <3>3. Visited(q[1], n)'
      BY <1>7, <1>8, <1>10, <3>1 DEF Visited
    <3>4. GoodMark(y, n, c.mark)'
      <4>1. c.mark = h.mark
        BY <2>4
      <4>2. GoodMark(y, n, h.mark)'
        BY <2>1, <2>8
      <4>3. QED
        BY <4>1, <4>2
    <3>5. ASSUME NEW v \in Component(n), Visited(v, n)'
          PROVE  Before(Rank(I, y, n)', Rank(I, v, n)')
      <4>1. Rank(I, y, n)' = Rank(H, y, n) /\ Rank(I, v, n)' = Rank(H, v, n)
        BY <2>1, <2>8
      <4>2. v = x \/ Before(Rank(H, x, n), Rank(H, v, n))
        BY <1>2, <2>9, <3>5
      <4>3. Before(Rank(H, y, n), Rank(H, v, n))
        BY <1>1, <1>2, <2>1, <4>2, BeforeIsOrder
      <4>4. QED
        BY <4>1, <4>3
    <3>6. \A v \in Component(n)' : Visited(v, n)' => Before(Rank(I, y, n)', Rank(I, v, n)')
      BY <1>1, <1>9, <3>5
    <3> HIDE DEF to, y, q
    <3>7. QED
      BY <2>7, <3>1, <3>2, <3>3, <3>4, <3>6 DEF UnderWay, Before
  <2>11. n \in fresh' /\ \A m \in fresh' \ {n} : Arrived(m)'
    BY <1>10, <1>13
  <2> HIDE DEF to, y, q
  <2>12. QED
    BY <1>9, <1>11, <1>12, <1>16, <2>5, <2>7, <2>10, <2>11 DEF InTurn, Tidy
<1>19. QED
  BY <1>17, <1>18

(* Each step, when it leaves a turn to be in.                               *)
LEMMA MaintainSnakeStep ==
  ASSUME OverlayIInv, NEW n \in Node, MaintainSnake(n), fresh' # {}
  PROVE  \E H : InTurn(H)'
<1> DEFINE s == Snake(n)!MaintainSnake(snake[n], RootOf(n))
           boot == Snake(n)!NewBootstrap(RootOf(n), clock[n] + 1)
<1>1. NetworkIInv /\ Shapes
  BY DEF OverlayIInv
<1>2. snake' = [snake EXCEPT ![n] = s] /\ UNCHANGED vars
  BY DEF MaintainSnake
<1>3. ASSUME s = snake[n] PROVE snake' = snake
  <2>1. snake = [m \in Node |-> snake[m]]
    BY <1>1 DEF Shapes
  <2>2. QED
    BY <1>2, <1>3, <2>1
<1>4. CASE UNCHANGED <<clock, boots, frame, fresh>>
  <2>1. PICK H : InTurn(H)
    BY <1>4 DEF OverlayIInv
  <2>2. s = snake[n]
    BY <2>1, MaintainInTurn DEF InTurn
  <2>3. UNCHANGED <<vars, boots, snake, clock, fresh>>
    BY <1>2, <1>3, <1>4, <2>2
  <2>4. InTurn(H)'
    BY <2>1, <2>3, SameSnakes
  <2>5. QED
    BY <2>4
<1>5. CASE /\ state[n].parent # NoPeer
           /\ clock' = [clock EXCEPT ![n] = @ + 1]
           /\ \E h \in NextHopsSNEK(n, s, n, TRUE, boot.mark) :
                boots' = Push(boots, n, h.peer, [boot EXCEPT !.mark = h.mark])
           /\ fresh' = IF InOrderOf(n) THEN fresh \cup {n} ELSE {}
  <2>1. InOrderOf(n) /\ fresh' = fresh \cup {n}
    BY <1>5
  <2>2. /\ Tidy /\ NoBootstraps
        /\ \A m \in Component(n) : m > n => m \in fresh \/ state[m].parent = NoPeer
        /\ fresh = {} => \A m \in Node : snake[m] = Snake(m)!EmptySnake
    BY <1>1, <2>1 DEF InOrderOf, Tidy
  <2>3. PICK H : SoundTables(H) /\ SoundDescending /\ FromAbove /\ \A m \in fresh : Arrived(m)
    <3>1. CASE fresh = {}
      <4> DEFINE zeros == [k \in Node |-> [v \in Node |-> 0]]
      <4>1. zeros \in [Node -> [Node -> Nat]]
        OBVIOUS
      <4> HIDE DEF zeros
      <4>2. SoundTables(zeros) /\ SoundDescending /\ FromAbove
        BY <1>1, <2>2, <3>1, <4>1, EmptyTables
      <4>3. QED
        BY <3>1, <4>2
    <3>2. CASE fresh # {}
      <4>1. PICK H : InTurn(H)
        BY <3>2 DEF OverlayIInv
      <4>2. \A k \in fresh, x \in Node, p \in Peers, b \in Bootstrap : ~UnderWay(H, k, x, p, b)
        BY <2>2, AloneIsNext DEF UnderWay
      <4>3. QED
        BY <4>1, <4>2 DEF InTurn
    <3>3. QED
      BY <3>1, <3>2
  <2>4. s = snake[n]
    <3>1. CASE fresh = {}
      BY <2>2, <3>1, MaintainEmpty
    <3>2. CASE fresh # {}
      BY <2>3, MaintainInTurn
    <3>3. QED
      BY <3>1, <3>2
  <2>5. UNCHANGED <<vars, snake>>
    BY <1>2, <1>3, <2>4
  <2>6. boot.mark = Snake(n)!FirstWatermark
    BY DEF Snake!NewBootstrap
  <2>7. PICK h \in NextHopsSNEK(n, snake[n], n, TRUE, Snake(n)!FirstWatermark) :
          boots' = Push(boots, n, h.peer, [boot EXCEPT !.mark = h.mark])
    <3> HIDE DEF s, boot
    <3>1. QED
      BY <1>5, <2>4, <2>6
  <2>8. PICK c : c = [dest |-> n, root |-> RootOf(n).root, rseq |-> RootOf(n).rseq,
                      seq |-> clock[n] + 1, mark |-> h.mark]
    OBVIOUS
  <2>9. [boot EXCEPT !.mark = h.mark] = c
    BY <2>8 DEF Snake!NewBootstrap
  <2>10. boots' = Push(boots, n, h.peer, c)
    BY <2>7, <2>9
  <2> HIDE DEF s, boot
  <2>11. state[n].parent # NoPeer /\ clock' = [clock EXCEPT ![n] = @ + 1]
    BY <1>5
  <2>12. InTurn(H)'
    BY <1>1, <2>1, <2>2, <2>3, <2>5, <2>7, <2>8, <2>10, <2>11, Launch
  <2>13. QED
    BY <2>12
<1>6. QED
  BY <1>4, <1>5 DEF MaintainSnake

LEMMA HandleBootstrapStep ==
  ASSUME OverlayIInv, NEW x \in Node, NEW p \in Peers, HandleBootstrap(x, p), fresh' # {}
  PROVE  \E H : InTurn(H)'
<1>1. UNCHANGED <<vars, clock, fresh>> /\ boots[x][p] # <<>>
  BY DEF HandleBootstrap, BootstrapIsNext
<1>2. PICK H : InTurn(H)
  BY <1>1 DEF OverlayIInv
<1>3. Tidy /\ Shapes /\ SoundTables(H) /\ SoundDescending /\ FromAbove
  BY <1>2 DEF OverlayIInv, InTurn, Tidy
<1>4. ~NoBootstraps
  BY <1>1 DEF NoBootstraps, None
<1>5. PICK n \in fresh, y \in Node, q \in Peers, b \in Bootstrap :
        UnderWay(H, n, y, q, b) /\ \A m \in fresh \ {n} : Arrived(m)
  BY <1>2, <1>4 DEF InTurn
<1>6. x = y /\ p = q
  <2>1. y \in Node /\ q \in Peers /\ boots = Alone(y, q, b)
    BY <1>5 DEF UnderWay
  <2>2. QED
    BY <1>1, <2>1, AloneIsOnly
<1>7. UnderWay(H, n, x, p, b) /\ \A m \in fresh \ {n} : Arrived(m)
  BY <1>5, <1>6
<1>8. QED
  BY <1>1, <1>3, <1>7, Handled

IsOverNodes(q) == q = [n \in Node |-> q[n]]

LEMMA PushKeepsShape ==
  ASSUME NEW queues, IsOverNodes(queues), NEW n, NEW p, NEW b
  PROVE  IsOverNodes(Push(queues, n, p, b))
BY DEF Push, IsOverNodes

LEMMA ShapesStep == ASSUME Shapes, [OverlayNext]_overlayVars PROVE Shapes'
<1>1. /\ clock \in [Node -> Nat] /\ IsOverNodes(boots) /\ IsOverNodes(snake)
      /\ boots = [n \in Node |-> boots[n]] /\ snake = [n \in Node |-> snake[n]]
  BY DEF Shapes, IsOverNodes
<1>2. ASSUME clock' \in [Node -> Nat], IsOverNodes(boots'), IsOverNodes(snake') PROVE Shapes'
  BY <1>2 DEF Shapes, IsOverNodes
<1>3. CASE TreeStep
  BY <1>1, <1>3 DEF TreeStep, Shapes
<1>4. ASSUME NEW n \in Node, NEW p \in Peers, LosePeer(n, p) PROVE Shapes'
  BY <1>1, <1>4 DEF LosePeer, Shapes
<1>5. ASSUME NEW n \in Node, NEW p \in Peers, HandleBootstrap(n, p) PROVE Shapes'
  <2> DEFINE rest == [boots EXCEPT ![n][p] = Tail(@)]
             b == Head(boots[n][p]).frame
  <2>1. IsOverNodes(rest)
    BY <1>1 DEF IsOverNodes
  <2> HIDE DEF rest, b
  <2>2. /\ clock' = clock
        /\ \/ boots' = rest /\ snake' = snake
           \/ \E h : /\ snake' = [snake EXCEPT ![n] = Snake(n)!HandleBootstrap(@, p, h.peer, b)]
                    /\ boots' = IF ForwardsBootstrap(n, p, h, b)
                                THEN Push(rest, n, h.peer, [b EXCEPT !.mark = h.mark]) ELSE rest
    BY <1>5 DEF HandleBootstrap, rest, b
  <2>3. IsOverNodes(snake')
    BY <1>1, <2>2 DEF IsOverNodes
  <2>4. boots' = rest \/ \E to, c : boots' = Push(rest, n, to, c)
    BY <2>2
  <2>5. IsOverNodes(boots')
    BY <2>1, <2>4, PushKeepsShape
  <2>6. QED
    BY <1>1, <1>2, <2>2, <2>3, <2>5
<1>6. ASSUME NEW n \in Node, MaintainSnake(n) PROVE Shapes'
  <2> DEFINE s == Snake(n)!MaintainSnake(snake[n], RootOf(n))
             b == Snake(n)!NewBootstrap(RootOf(n), clock[n] + 1)
  <2>1. snake' = [snake EXCEPT ![n] = s]
    BY <1>6 DEF MaintainSnake
  <2>2. clock' = clock \/ clock' = [clock EXCEPT ![n] = @ + 1]
    BY <1>6 DEF MaintainSnake
  <2>3. boots' = boots \/ \E to, c : boots' = Push(boots, n, to, c)
    BY <1>6 DEF MaintainSnake
  <2> HIDE DEF s, b
  <2>4. IsOverNodes(snake')
    BY <1>1, <2>1 DEF IsOverNodes
  <2>5. IsOverNodes(boots')
    BY <1>1, <2>3, PushKeepsShape
  <2>6. clock' \in [Node -> Nat]
    BY <1>1, <2>2
  <2>7. QED
    BY <1>2, <2>4, <2>5, <2>6
<1>7. ASSUME NEW n \in Node, NEW k \in Node, Expire(n, k) PROVE Shapes'
  BY <1>1, <1>7 DEF Expire, Shapes
<1>8. ASSUME UNCHANGED <<boots, snake, clock>> PROVE Shapes'
  BY <1>8 DEF Shapes
<1>9. QED
  BY <1>3, <1>4, <1>5, <1>6, <1>7, <1>8 DEF OverlayNext, WriteTo, ForgetCoords, Forward, overlayVars

LEMMA InitOverlay == OverlayInit => OverlayIInv
<1> SUFFICES ASSUME OverlayInit PROVE OverlayIInv
  OBVIOUS
<1>1. NetworkIInv
  BY InitNetwork DEF OverlayInit
<1>2. Shapes /\ fresh = {}
  BY DEF OverlayInit, Shapes
<1>3. QED
  BY <1>1, <1>2 DEF OverlayIInv

LEMMA NextOverlay == OverlayIInv /\ [OverlayNext]_overlayVars => OverlayIInv'
<1> SUFFICES ASSUME OverlayIInv, [OverlayNext]_overlayVars PROVE OverlayIInv'
  OBVIOUS
<1>1. NetworkIInv'
  BY OverlayStep, NextNetwork DEF OverlayIInv
<1>2. Shapes'
  BY ShapesStep DEF OverlayIInv
<1>3. SUFFICES ASSUME fresh' # {} PROVE \E H : InTurn(H)'
  BY <1>1, <1>2 DEF OverlayIInv
<1>4. CASE TreeStep
  BY <1>3, <1>4 DEF TreeStep
<1>5. ASSUME NEW n \in Node, NEW p \in Peers, LosePeer(n, p) PROVE FALSE
  BY <1>3, <1>5 DEF LosePeer
<1>6. ASSUME NEW n \in Node, NEW k \in Node, Expire(n, k) PROVE FALSE
  BY <1>3, <1>6 DEF Expire
<1>7. ASSUME UNCHANGED <<vars, boots, snake, clock, fresh>> PROVE \E H : InTurn(H)'
  <2>1. fresh # {}
    BY <1>3, <1>7
  <2>2. PICK H : InTurn(H)
    BY <2>1 DEF OverlayIInv
  <2>3. InTurn(H)'
    BY <1>7, <2>2, SameSnakes
  <2>4. QED
    BY <2>3
<1>8. CASE \E n \in Node : \E d \in Node \ {n} : WriteTo(n, d) \/ ForgetCoords(n, d)
  BY <1>7, <1>8 DEF WriteTo, ForgetCoords
<1>9. CASE Forward
  BY <1>7, <1>9 DEF Forward
<1>10. CASE UNCHANGED overlayVars
  BY <1>7, <1>10 DEF overlayVars
<1>11. QED
  BY <1>3, <1>4, <1>5, <1>6, <1>8, <1>9, <1>10, MaintainSnakeStep, HandleBootstrapStep
     DEF OverlayNext

LEMMA OverlayInvariance == OverlaySpec => []OverlayIInv
BY InitOverlay, NextOverlay, PTL DEF OverlaySpec

(* A node that has nodes below it is next above one, whose bootstrap has    *)
(* arrived.                                                                 *)
LEMMA OrderFromInvariant == OverlayIInv => SnakeIsOrdered
<1> SUFFICES ASSUME OverlayIInv, Settled, NEW n \in Node,
                    { m \in Component(n) : m < n } # {}
             PROVE  /\ snake[n].descending # NoEntry
                    /\ \A m \in { m \in Component(n) : m < n } : m <= snake[n].descending.key
  BY DEF SnakeIsOrdered
<1>1. Tidy
  BY DEF OverlayIInv, Settled, Tidy
<1>2. PICK y \in Component(n) : y < n
  OBVIOUS
<1>3. PICK z \in Component(n) : /\ z \in Node /\ y <= z /\ IsNext(n, z)
                                /\ state[z].parent # NoPeer
                                /\ \A m \in Component(n) : m < n => m <= z
  BY <1>1, <1>2, NextAbove
<1>4. z \in fresh
  BY <1>3 DEF Settled
<1>5. PICK H : InTurn(H)
  BY <1>4 DEF OverlayIInv
<1>6. NoBootstraps
  BY DEF Settled
<1>7. Arrived(z)
  <2>1. \A k \in fresh, x \in Node, p \in Peers, b \in Bootstrap : ~UnderWay(H, k, x, p, b)
    BY <1>6, AloneIsNext DEF UnderWay
  <2>2. QED
    BY <1>4, <1>5, <2>1 DEF InTurn
<1>8. snake[n].descending # NoEntry /\ snake[n].descending.key = z
  BY <1>3, <1>7 DEF Arrived
<1>9. QED
  BY <1>3, <1>8

(* After any history of links, routers, expiries and bootstraps, once the   *)
(* nodes have bootstrapped in turn the descending node of each is the       *)
(* nearest below it that it can reach: _handleBootstrap and the choice of   *)
(* next hops in state_snek.go bring every bootstrap to the node above.      *)
THEOREM SnakeOrder == OverlaySpec => []SnakeIsOrdered
BY OverlayInvariance, OrderFromInvariant, PTL

(* Traffic in a settled network.                                            *)

Frames == [at : Node, from : Peers \cup {Local}, dest : Node, coords : Seq(Nat),
           sender : Node, source : Seq(Nat), mark : Mark, hops : Nat, calm : BOOLEAN]

IsFrame(g) == g = [at |-> g.at, from |-> g.from, dest |-> g.dest, coords |-> g.coords,
                   sender |-> g.sender, source |-> g.source, mark |-> g.mark,
                   hops |-> g.hops, calm |-> g.calm]

(* A frame at v for d that looks for it by its key, and has been at the     *)
(* nodes of V: each was further from where the search ends.                 *)
BySnake(H, V, v, d, mark) ==
  /\ GoodMark(v, d - 1, mark)
  /\ \A w \in V : Before(Rank(H, v, d - 1), Rank(H, w, d - 1))

(* A frame at v that goes by the coordinates of d: each was further from d. *)
ByTree(V, v, d, coords) ==
  /\ coords = Coords(d)
  /\ \A w \in V : Distance(Coords(v), coords) < Distance(Coords(w), coords)

(* The peer that a frame came from is one of V.                             *)
CameFrom(V, from) == from \in Peers \cup {Local} /\ (from = Local \/ from[1] \in V)

OnItsWay(g) ==
  \E H : \E V \in SUBSET Component(g.at) :
    /\ InTurn(H) /\ Cardinality(V) = g.hops
    /\ CameFrom(V, g.from) /\ g.sender \in Node /\ g.source \in Seq(Nat)
    /\ g.mark \in Mark
    /\ IF g.coords = <<>> THEN BySnake(H, V, g.at, g.dest, g.mark)
       ELSE ByTree(V, g.at, g.dest, g.coords)

FrameIInv ==
  frame # NoFrame =>
    /\ IsFrame(frame) /\ frame.at \in Node /\ frame.dest \in Node /\ frame.calm \in BOOLEAN
    /\ frame.calm => Settled
    /\ frame.calm /\ frame.at # frame.dest /\ frame.dest \in Component(frame.at)
         => OnItsWay(frame)

LEMMA SameWays ==
  ASSUME UNCHANGED <<vars, snake, clock>>
  PROVE  /\ \A H, f : \A v \in Node : Rank(H, v, f)' = Rank(H, v, f)
         /\ \A f, m : \A v \in Node : GoodMark(v, f, m)' <=> GoodMark(v, f, m)
         /\ \A v : Coords(v)' = Coords(v)
<1>1. /\ snake' = snake /\ clock' = clock /\ state' = state /\ up' = up
      /\ \A v \in Node : Path(v)' = Path(v) /\ Line(v)' = Line(v) /\ KnownKeys(v)' = KnownKeys(v)
  BY SameTree DEF vars
<1>2. ASSUME NEW v \in Node, NEW f
      PROVE  Goal(v, f)' = Goal(v, f) /\ Stage(v, f)' = Stage(v, f)
  <2>1. EntryKeys(v)' = EntryKeys(v)
    BY <1>1 DEF EntryKeys
  <2>2. Goal(v, f)' = Goal(v, f)
    BY <1>1, <2>1 DEF Goal
  <2>3. QED
    BY <1>1, <2>2 DEF Stage
<1>3. ASSUME NEW H, NEW v \in Node, NEW f PROVE Rank(H, v, f)' = Rank(H, v, f)
  BY <1>1, <1>2 DEF Rank, EntryOf
<1>4. ASSUME NEW v \in Node, NEW f, NEW m PROVE GoodMark(v, f, m)' <=> GoodMark(v, f, m)
  BY <1>1, <1>2 DEF GoodMark, EntryOf
<1>5. ASSUME NEW v PROVE Coords(v)' = Coords(v)
  BY <1>1 DEF Coords
<1>6. QED
  BY <1>3, <1>4, <1>5

(* A frame that stays where it is stays on its way.                         *)
LEMMA SameWay ==
  ASSUME Tidy, UNCHANGED <<vars, boots, snake, clock, fresh>>,
         NEW g, g.at \in Node, OnItsWay(g)
  PROVE  OnItsWay(g)'
<1>1. PICK H : \E V \in SUBSET Component(g.at) :
        /\ InTurn(H) /\ Cardinality(V) = g.hops
        /\ CameFrom(V, g.from)
        /\ g.mark \in Mark
        /\ IF g.coords = <<>> THEN BySnake(H, V, g.at, g.dest, g.mark)
           ELSE ByTree(V, g.at, g.dest, g.coords)
  BY DEF OnItsWay
<1>2. PICK V \in SUBSET Component(g.at) :
        /\ InTurn(H) /\ Cardinality(V) = g.hops
        /\ CameFrom(V, g.from)
        /\ g.mark \in Mark
        /\ IF g.coords = <<>> THEN BySnake(H, V, g.at, g.dest, g.mark)
           ELSE ByTree(V, g.at, g.dest, g.coords)
  BY <1>1
<1>3. InTurn(H)'
  BY <1>2, SameSnakes
<1>4. Component(g.at)' = Component(g.at) /\ V \in SUBSET Node
  BY SameTree, ComponentIsClosed
<1>5. BySnake(H, V, g.at, g.dest, g.mark) => BySnake(H, V, g.at, g.dest, g.mark)'
  <2> SUFFICES ASSUME BySnake(H, V, g.at, g.dest, g.mark)
               PROVE  BySnake(H, V, g.at, g.dest, g.mark)'
    OBVIOUS
  <2>1. GoodMark(g.at, g.dest - 1, g.mark)'
    BY SameWays DEF BySnake
  <2>2. ASSUME NEW w \in V
        PROVE  Before(Rank(H, g.at, g.dest - 1)', Rank(H, w, g.dest - 1)')
    <3>1. /\ Rank(H, g.at, g.dest - 1)' = Rank(H, g.at, g.dest - 1)
          /\ Rank(H, w, g.dest - 1)' = Rank(H, w, g.dest - 1)
      BY <1>4, <2>2, SameWays
    <3>2. QED
      BY <2>2, <3>1 DEF BySnake
  <2>3. QED
    BY <2>1, <2>2 DEF BySnake, Before
<1>6. ByTree(V, g.at, g.dest, g.coords) => ByTree(V, g.at, g.dest, g.coords)'
  BY <1>4, SameWays DEF ByTree
<1>7. g.sender \in Node /\ g.source \in Seq(Nat)
  BY DEF OnItsWay
<1>8. QED
  BY <1>2, <1>3, <1>4, <1>5, <1>6, <1>7 DEF OnItsWay

(* In a settled network the snake knows of somebody nearer to d than we.    *)
LEMMA NotYetThere ==
  ASSUME Tidy, Settled, NEW H, InTurn(H), NEW v \in Node, NEW d \in Component(v), v # d
  PROVE  /\ d \in Node /\ d - 1 \in Int /\ d - 1 < Root(v) /\ Searches(v, d, FALSE)
         /\ Stage(v, d - 1) # 0
<1>1. d \in Node /\ v \in Nat /\ d \in Nat /\ Root(v) \in Nat /\ d <= Root(v) /\ Node \in SUBSET Nat
  BY OneRoot, NetworkAssumption
<1> DEFINE f == d - 1
<1>2. f \in Int /\ f < Root(v) /\ f < d /\ \A k \in Nat : k > f => k >= d
  BY <1>1
<1>3. Searches(v, d, FALSE)
  BY <1>1, <1>2 DEF Searches, Floor
<1> HIDE DEF f
<1>4. ASSUME Stage(v, f) = 0 PROVE FALSE
  <2>1. v = Goal(v, f) /\ IsLeast(v, KnownKeys(v) \cup EntryKeys(v), f)
    BY <1>2, <1>4, GoalFacts
  <2>2. v > d
    BY <1>1, <1>2, <2>1 DEF IsLeast
  <2>3. PICK z \in Component(v) : /\ z \in Node /\ d <= z /\ IsNext(v, z)
                                  /\ state[z].parent # NoPeer
    BY <2>2, NextAbove
  <2>4. z \in fresh
    BY <2>3 DEF Settled
  <2>5. Arrived(z)
    <3>1. \A k \in fresh, x \in Node, p \in Peers, b \in Bootstrap : ~UnderWay(H, k, x, p, b)
      BY AloneIsNext DEF UnderWay, Settled
    <3>2. QED
      BY <2>4, <3>1 DEF InTurn
  <2>6. z \in EntryKeys(v) /\ z < v
    <3>1. IsNext(v, z) /\ EntryOf(v, z) # NoEntry
      BY <2>3, <2>5 DEF Arrived
    <3>2. v > z
      BY <3>1 DEF IsNext
    <3>3. QED
      BY <1>1, <2>3, <3>1, <3>2 DEF EntryKeys, EntryOf
  <2>7. z \in Nat /\ z > f
    BY <1>1, <1>2, <2>3
  <2>8. v <= z
    BY <2>1, <2>6, <2>7 DEF IsLeast
  <2>9. QED
    BY <1>1, <2>6, <2>7, <2>8
<1>5. QED
  BY <1>1, <1>2, <1>3, <1>4 DEF f

(* The next hop of a frame that is routed by the snake.                     *)
LEMMA SnakeHop ==
  ASSUME Tidy, Settled, NEW H, InTurn(H), NEW v \in Node, NEW d \in Component(v), v # d,
         NEW mark \in Mark, GoodMark(v, d - 1, mark),
         NEW h \in NextHopsSNEK(v, snake[v], d, FALSE, mark)
  PROVE  /\ h.peer \in up[v] /\ h.peer[1] \in Component(v)
         /\ h.mark \in Mark /\ ~Snake(v)!WorseThan(h.mark, mark)
         /\ Before(Rank(H, h.peer[1], d - 1), Rank(H, v, d - 1))
         /\ GoodMark(h.peer[1], d - 1, h.mark)
<1>1. /\ d \in Node /\ d - 1 \in Int /\ d - 1 < Root(v) /\ Searches(v, d, FALSE)
      /\ Stage(v, d - 1) # 0
  BY NotYetThere
<1>2. SoundTables(H)
  BY DEF InTurn
<1> DEFINE boot == FALSE
           f == d - 1
<1>3. Searches(v, d, boot) /\ Floor(d, boot) = f /\ GoodMark(v, Floor(d, boot), mark)
      /\ h \in NextHopsSNEK(v, snake[v], d, boot, mark)
  BY <1>1 DEF Floor
<1>4. f \in Int /\ f < Root(v) /\ Stage(v, f) # 0 /\ GoodMark(v, f, mark)
  BY <1>1
<1> HIDE DEF boot
<1>5. h.mark = HopMark(v, f) /\ Toward(v, f, h.peer)
  <2> HIDE DEF f
  <2>1. h.mark = HopMark(v, Floor(d, boot)) /\ Toward(v, Floor(d, boot), h.peer)
    BY <1>2, <1>3, NextHop
  <2>2. QED
    BY <1>3, <2>1
<1> HIDE DEF f
<1>6. h.mark \in Mark /\ ~Snake(v)!WorseThan(h.mark, mark)
  BY <1>2, <1>4, <1>5, HopMarkType
<1>7. /\ h.peer \in up[v] /\ h.peer[1] \in Component(v)
      /\ Before(Rank(H, h.peer[1], f), Rank(H, v, f))
      /\ GoodMark(h.peer[1], f, HopMark(v, f))
  BY <1>2, <1>4, <1>5, Nearer
<1>8. QED
  BY <1>5, <1>6, <1>7 DEF f

(* So it comes to a node where it has not been.                             *)
LEMMA OnBySnake ==
  ASSUME Tidy, Settled, NEW H, InTurn(H), NEW v \in Node, NEW d \in Component(v), v # d,
         NEW V \in SUBSET Component(v), NEW mark \in Mark, BySnake(H, V, v, d, mark),
         NEW h \in NextHopsSNEK(v, snake[v], d, FALSE, mark)
  PROVE  /\ v \notin V /\ h.peer \in up[v] /\ h.peer[1] \in Component(v) /\ h.peer[1] \notin V
         /\ h.mark \in Mark /\ ~Snake(v)!WorseThan(h.mark, mark)
         /\ BySnake(H, V \cup {v}, h.peer[1], d, h.mark)
<1> DEFINE f == d - 1
<1>1. /\ h.peer \in up[v] /\ h.peer[1] \in Component(v)
      /\ h.mark \in Mark /\ ~Snake(v)!WorseThan(h.mark, mark)
      /\ Before(Rank(H, h.peer[1], f), Rank(H, v, f)) /\ GoodMark(h.peer[1], f, h.mark)
  BY SnakeHop DEF BySnake
<1>2. d \in Node /\ f \in Int /\ SoundTables(H)
  BY NotYetThere DEF InTurn
<1>3. \A w \in Component(v) : w \in Node /\ f < Root(w)
  <2> TAKE w \in Component(v)
  <2>2. w \in Node /\ d \in Component(w) /\ d \in Nat
    BY <1>2, SameComponent, NetworkAssumption
  <2>3. d <= Root(w) /\ Root(w) \in Nat
    BY <2>2, OneRoot, NetworkAssumption
  <2>4. QED
    BY <2>2, <2>3
<1> HIDE DEF f
<1>4. \A w \in Component(v) : Rank(H, w, f) \in Ranks
  BY <1>2, <1>3, RankType
<1>5. v \in Component(v)
  BY ComponentIsClosed
<1>6. \A w \in V : Before(Rank(H, v, f), Rank(H, w, f))
  BY DEF BySnake, f
<1>7. \A w \in V \cup {v} : Before(Rank(H, h.peer[1], f), Rank(H, w, f))
  BY <1>1, <1>4, <1>5, <1>6, BeforeIsOrder
<1>8. v \notin V /\ h.peer[1] \notin V
  BY <1>1, <1>4, <1>5, <1>6, <1>7, BeforeIsOrder
<1>9. QED
  BY <1>1, <1>7, <1>8 DEF BySnake, f

(* The same for a frame that goes by coordinates.                           *)
TreeHops(v, from, coords) == Tree(v)!NextHopsTree(state[v], from, coords, up[v])

LEMMA OnByTree ==
  ASSUME Tidy, NEW v \in Node, NEW d \in Component(v), v # d,
         NEW V \in SUBSET Component(v), NEW coords, ByTree(V, v, d, coords),
         NEW from, CameFrom(V, from)
  PROVE  /\ v \notin V /\ coords # Coords(v) /\ coords \in Seq(Nat)
         /\ TreeHops(v, from, coords) # {}
         /\ \A p \in TreeHops(v, from, coords) : /\ p \in up[v] /\ p # from /\ p[1] \in Component(v)
                            /\ ByTree(V \cup {v}, p[1], d, coords)
<1> DEFINE far(w) == Distance(Coords(w), coords)
           hops == TreeHops(v, from, coords)
<1>1. NetworkIInv /\ Quiet /\ PathsAreReal
  BY TidyTree DEF Tidy
<1>2. d \in Node /\ coords = Coords(d) /\ Root(v) = Root(d) /\ v \in Component(v)
  BY OneRoot, ComponentIsClosed DEF ByTree
<1>3. \A w \in V : far(v) < far(w)
  BY DEF ByTree
<1>4. coords # Coords(v)
  BY <1>1, <1>2, CoordsAreUnique
<1>5. coords \in Seq(Nat)
  BY <1>1, <1>2, CoordsOfPath
<1>6. \A w \in Component(v) : far(w) \in Nat
  <2> TAKE w \in Component(v)
  <2>1. w \in Node
    BY SameComponent
  <2>2. Coords(w) \in Seq(Nat)
    BY <1>1, <2>1, CoordsOfPath
  <2>3. QED
    BY <1>5, <2>2, DistanceIsNatural
<1> HIDE DEF far
<1>7. from \in up[v] => ~(far(from[1]) < far(v))
  <2>1. SUFFICES ASSUME from \in up[v] PROVE ~(far(from[1]) < far(v))
    OBVIOUS
  <2>2. from # Local
    <3>1. from \in Peers
      BY <2>1, KeysBehindPeer
    <3>2. QED
      BY <3>1, OverlayAssumption
  <2>3. from[1] \in V
    BY <2>2 DEF CameFrom
  <2>4. QED
    BY <1>2, <1>3, <1>6, <2>3
<1> HIDE DEF hops
<1>8. /\ hops # {}
      /\ \A p \in hops : p \in up[v] /\ p # from /\ far(p[1]) < far(v)
  <2>1. hops = Tree(v)!NextHopsTree(state[v], from, Coords(d), up[v])
    BY <1>2 DEF TreeHops, hops
  <2>2. from \in up[v] => ~(Distance(Coords(from[1]), Coords(d)) < Distance(Coords(v), Coords(d)))
    BY <1>2, <1>7 DEF far
  <2>3. /\ hops # {}
        /\ \A p \in hops : /\ p \in up[v] /\ p # from
                           /\ Distance(Coords(p[1]), Coords(d)) < Distance(Coords(v), Coords(d))
    BY <1>1, <1>2, <2>1, <2>2, NearerHops
  <2>4. QED
    BY <1>2, <2>3 DEF far
<1>9. v \notin V
  BY <1>2, <1>3, <1>6
<1>10. ASSUME NEW p \in hops
       PROVE  p \in up[v] /\ p # from /\ p[1] \in Component(v) /\ ByTree(V \cup {v}, p[1], d, coords)
  <2>1. p \in up[v] /\ p # from /\ far(p[1]) < far(v)
    BY <1>8
  <2>2. p[1] \in Component(v)
    BY <2>1, PeerInComponent
  <2>3. \A w \in V \cup {v} : far(p[1]) < far(w)
    <3>1. \A w \in V : far(p[1]) < far(w)
      <4> TAKE w \in V
      <4>1. far(p[1]) \in Nat /\ far(v) \in Nat /\ far(w) \in Nat /\ far(v) < far(w)
        BY <1>2, <1>3, <1>6, <2>2
      <4>2. QED
        BY <2>1, <4>1
    <3>2. QED
      BY <2>1, <3>1
  <2>4. QED
    BY <1>2, <2>1, <2>2, <2>3 DEF ByTree, far
<1>11. QED
  BY <1>4, <1>5, <1>8, <1>9, <1>10 DEF hops

(* A frame has not made more hops than there are nodes.                     *)
LEMMA HopsAreFew ==
  ASSUME NEW V \in SUBSET Node, NEW v \in Node, v \notin V
  PROVE  /\ Cardinality(V) \in Nat /\ Cardinality(V) # MaxHops
         /\ Cardinality(V \cup {v}) = Cardinality(V) + 1
<1>1. IsFiniteSet(Node) /\ IsFiniteSet(V) /\ V \cup {v} \in SUBSET Node
  BY NetworkAssumption, FS_Subset
<1>2. Cardinality(V) \in Nat /\ Cardinality(V \cup {v}) = Cardinality(V) + 1
  BY <1>1, FS_CardinalityType, FS_AddElement
<1>3. Cardinality(V \cup {v}) <= Cardinality(Node) /\ Cardinality(Node) \in Nat
  BY <1>1, FS_Subset, FS_CardinalityType
<1>4. MaxHops \in Nat /\ Cardinality(Node) <= MaxHops
  BY OverlayAssumption
<1>5. QED
  BY <1>2, <1>3, <1>4

(* Whichever next hop _forward takes for a frame on its way is a node where *)
(* the frame has not been, and it is not dropped on the way there.          *)
LEMMA NextOnItsWay ==
  ASSUME Tidy, Settled, NEW g, g.at \in Node, g.dest \in Component(g.at), g.at # g.dest,
         OnItsWay(g), NEW h \in TrafficHops(g.at, g)
  PROVE  \E H : \E V \in SUBSET Component(g.at) :
           /\ InTurn(H) /\ Cardinality(V) = g.hops /\ g.at \notin V
           /\ h.peer \in up[g.at] /\ h.peer[1] \in Component(g.at) /\ h.peer # g.from
           /\ h.mark \in Mark /\ ~Snake(g.at)!WorseThan(h.mark, g.mark)
           /\ h.coords = g.coords /\ g.coords \in Seq(Nat)
           /\ IF g.coords = <<>> THEN BySnake(H, V \cup {g.at}, h.peer[1], g.dest, h.mark)
              ELSE ByTree(V \cup {g.at}, h.peer[1], g.dest, g.coords)
<1>0. PICK v, d, from, mark, coords :
        v = g.at /\ d = g.dest /\ from = g.from /\ mark = g.mark /\ coords = g.coords
  OBVIOUS
<1>1. v \in Node /\ d \in Component(v) /\ v # d
  BY <1>0
<1>2. PICK H : \E V \in SUBSET Component(v) :
        /\ InTurn(H) /\ Cardinality(V) = g.hops
        /\ CameFrom(V, from)
        /\ mark \in Mark
        /\ IF coords = <<>> THEN BySnake(H, V, v, d, mark) ELSE ByTree(V, v, d, coords)
  BY <1>0 DEF OnItsWay
<1>3. PICK V \in SUBSET Component(v) :
        /\ InTurn(H) /\ Cardinality(V) = g.hops
        /\ CameFrom(V, from)
        /\ mark \in Mark
        /\ IF coords = <<>> THEN BySnake(H, V, v, d, mark) ELSE ByTree(V, v, d, coords)
  BY <1>2
<1>4. CASE coords = <<>>
  <2>1. PICK s \in NextHopsSNEK(v, snake[v], d, FALSE, mark) :
          h = [peer |-> s.peer, mark |-> s.mark, coords |-> <<>>]
    BY <1>0, <1>4 DEF TrafficHops
  <2>2. BySnake(H, V, v, d, mark) /\ InTurn(H) /\ mark \in Mark
    BY <1>3, <1>4
  <2>3. /\ v \notin V /\ s.peer \in up[v] /\ s.peer[1] \in Component(v) /\ s.peer[1] \notin V
        /\ s.mark \in Mark /\ ~Snake(v)!WorseThan(s.mark, mark)
        /\ BySnake(H, V \cup {v}, s.peer[1], d, s.mark)
    BY <1>1, <2>2, OnBySnake
  <2>4. s.peer # from
    <3>1. s.peer \in Peers
      BY <1>1, <2>3, KeysBehindPeer
    <3>2. s.peer # Local
      BY <3>1, OverlayAssumption
    <3>3. QED
      BY <1>3, <2>3, <3>2 DEF CameFrom
  <2>5. <<>> \in Seq(Nat)
    OBVIOUS
  <2>6. h.peer = s.peer /\ h.mark = s.mark /\ h.coords = <<>>
    BY <2>1
  <2>7. QED
    BY <1>0, <1>3, <1>4, <2>3, <2>4, <2>5, <2>6
<1>5. CASE coords # <<>>
  <2>0. PICK hops : hops = TreeHops(v, from, coords)
    OBVIOUS
  <2>1. ByTree(V, v, d, coords) /\ CameFrom(V, from)
    BY <1>3, <1>5
  <2>2. /\ v \notin V /\ coords # Coords(v) /\ coords \in Seq(Nat)
        /\ TreeHops(v, from, coords) # {}
        /\ \A p \in TreeHops(v, from, coords) : /\ p \in up[v] /\ p # from /\ p[1] \in Component(v)
                           /\ ByTree(V \cup {v}, p[1], d, coords)
    BY <1>1, <2>1, OnByTree
  <2>3. TrafficHops(v, g) = { [peer |-> p, mark |-> mark, coords |-> coords] : p \in hops }
    BY <1>0, <1>5, <2>0, <2>2 DEF TrafficHops, TreeHops
  <2>4. PICK p \in hops : h = [peer |-> p, mark |-> mark, coords |-> coords]
    BY <1>0, <2>3
  <2>5. h.peer = p /\ h.mark = mark /\ h.coords = coords
    BY <2>4
  <2>6. ~Snake(v)!WorseThan(mark, mark)
    BY <1>3 DEF Snake!WorseThan, Mark
  <2>7. /\ v \notin V /\ p \in up[v] /\ p # from /\ p[1] \in Component(v)
        /\ ByTree(V \cup {v}, p[1], d, coords) /\ coords \in Seq(Nat)
    BY <2>0, <2>2
  <2>8. QED
    BY <1>0, <1>3, <1>5, <2>5, <2>6, <2>7
<1>6. QED
  BY <1>4, <1>5

(* The search returns a peer, whatever the tables hold.                     *)
LEMMA BestOfIsKnown ==
  ASSUME NEW v, NEW keys \in SUBSET Nat, NEW best, NEW dest, NEW bootstrap \in BOOLEAN
  PROVE  Snake(v)!BestOf(keys, best, dest, bootstrap) \in keys \cup {best}
<1> DEFINE between == { k \in keys : Snake(v)!DHTOrdered(dest, k, best) }
<1>1. ASSUME between # {} PROVE (CHOOSE k \in between : \A j \in between : k <= j) \in keys
  <2>1. between \in SUBSET Nat /\ between \subseteq keys
    OBVIOUS
  <2> HIDE DEF between
  <2>2. \E k \in between : \A j \in between : k <= j
    BY <1>1, <2>1, LeastNatural
  <2>3. QED
    BY <2>1, <2>2
<1>2. Snake(v)!BestOf(keys, best, dest, bootstrap)
        = IF ~bootstrap /\ dest \in keys THEN dest
          ELSE IF best = dest \/ between = {} THEN best
          ELSE CHOOSE k \in between : \A j \in between : k <= j
  BY DEF Snake!BestOf
<1> HIDE DEF between
<1>3. QED
  BY <1>1, <1>2

LEMMA HopType ==
  ASSUME NetworkIInv, NEW v \in Node, NEW s, NEW dest, NEW bootstrap \in BOOLEAN, NEW mark,
         NEW h \in NextHopsSNEK(v, s, dest, bootstrap, mark)
  PROVE  h.peer \in Peers \cup {NoPeer, Local}
<1> DEFINE t == state[v]
           root == RootOf(v).root
           ancestors == IF t.parent \in up[v] THEN Snake(v)!KeysBehind(t, t.parent) ELSE {}
           toRoot == Snake(v)!TowardsRoot(t, up[v], root, dest, bootstrap)
           first == IF toRoot THEN root ELSE v
           second == Snake(v)!BestOf(ancestors, first, dest, bootstrap)
           third == Snake(v)!BestOf(UNION { Snake(v)!KeysBehind(t, p) : p \in up[v] },
                                    second, dest, bootstrap)
           byTree == IF third # second THEN { p \in up[v] : third \in Snake(v)!KeysBehind(t, p) }
                     ELSE IF second # first \/ toRoot THEN {t.parent}
                     ELSE {IF bootstrap THEN NoPeer ELSE Local}
           direct == { p \in up[v] : t.announcements[p] # NoAnn /\ NeighbourOf[p] = third }
           entries == Snake(v)!UsableEntries(s, up[v], mark)
           last == Snake(v)!BestOf(entries, third, dest, bootstrap)
           hops == IF last # third THEN {s.table[last].source}
                   ELSE IF direct # {} THEN direct ELSE byTree
<1>1. \/ h.peer = Local
      \/ \E p \in Snake(v)!Preferred(t, last, hops) : h.peer = p
  <2> HIDE DEF last, third
  <2>1. NextHopsSNEK(v, s, dest, bootstrap, mark)
          = IF ~bootstrap /\ v = dest THEN {[peer |-> Local, mark |-> mark]}
            ELSE { [peer |-> p,
                    mark |-> [key |-> last, seq |-> IF last = third THEN 0 ELSE s.table[last].seq]] :
                   p \in Snake(v)!Preferred(t, last, hops) }
    BY DEF NextHopsSNEK, Snake!NextHopsSNEK, last, third
  <2> HIDE DEF hops, t
  <2>2. QED
    BY <2>1
<1>2. up[v] \subseteq Peers /\ t.parent \in Peers \cup {NoPeer}
  BY DEF NetworkIInv, NetworkTypes, NodeState
<1>3. ASSUME last # third PROVE s.table[last].source \in Peers
  <2>1. entries \in SUBSET Nat
    BY NetworkAssumption DEF Snake!UsableEntries
  <2>2. last \in entries
    <3> HIDE DEF entries, third
    <3>1. QED
      BY <1>3, <2>1, BestOfIsKnown
  <2>3. QED
    BY <1>2, <2>2 DEF Snake!UsableEntries
<1>4. hops \subseteq Peers \cup {NoPeer, Local}
  <2>1. byTree \subseteq Peers \cup {NoPeer, Local} /\ direct \subseteq Peers
    <3> HIDE DEF third, second, first, toRoot, t
    <3>1. QED
      BY <1>2
  <2> HIDE DEF last, third, byTree, direct
  <2>2. QED
    BY <1>3, <2>1
<1>5. Snake(v)!Preferred(t, last, hops) \subseteq hops \cup Peers
  <2> HIDE DEF t, last, hops
  <2>1. QED
    BY DEF Snake!Preferred
<1>6. QED
  <2> HIDE DEF t, last, hops
  <2>1. QED
    BY <1>1, <1>4, <1>5

LEMMA TrafficHopType ==
  ASSUME NetworkIInv, NEW v \in Node, NEW g, NEW h \in TrafficHops(v, g),
         h.peer # NoPeer, h.peer # Local
  PROVE  h.peer[1] \in Node
<1> DEFINE tree == IF g.coords = <<>> THEN {}
                   ELSE IF g.coords = Coords(v) THEN {Local}
                   ELSE Tree(v)!NextHopsTree(state[v], g.from, g.coords, up[v])
           boot == FALSE
<1>1. tree \subseteq up[v] \cup {Local}
  BY DEF Tree!NextHopsTree
<1>2. up[v] \subseteq Peers
  BY DEF NetworkIInv, NetworkTypes
<1>3. \/ h \in { [peer |-> p, mark |-> g.mark, coords |-> g.coords] : p \in tree }
      \/ h \in { [peer |-> s.peer, mark |-> s.mark, coords |-> <<>>] :
                 s \in NextHopsSNEK(v, snake[v], g.dest, boot, g.mark) }
  BY DEF TrafficHops
<1>4. boot \in BOOLEAN
  OBVIOUS
<1> HIDE DEF tree, boot
<1>5. h.peer \in Peers
  <2>1. CASE h \in { [peer |-> p, mark |-> g.mark, coords |-> g.coords] : p \in tree }
    BY <1>1, <1>2, <2>1
  <2>2. CASE h \in { [peer |-> s.peer, mark |-> s.mark, coords |-> <<>>] :
                     s \in NextHopsSNEK(v, snake[v], g.dest, boot, g.mark) }
    <3>1. PICK s \in NextHopsSNEK(v, snake[v], g.dest, boot, g.mark) :
            h = [peer |-> s.peer, mark |-> s.mark, coords |-> <<>>]
      BY <2>2
    <3>2. s.peer \in Peers \cup {NoPeer, Local}
      BY <1>4, HopType
    <3>3. QED
      BY <3>1, <3>2
  <2>3. QED
    BY <1>3, <2>1, <2>2
<1>6. QED
  BY <1>5 DEF Peers

(* What _forward does: a frame that is not for the node goes over one of    *)
(* its next hops, or is lost there.                                         *)
LEMMA ForwardCases ==
  ASSUME Forward
  PROVE  \/ frame.dest = frame.at
         \/ \E h \in TrafficHops(frame.at, frame) :
              \/ /\ \/ DropsFrame(frame.at, frame, h) \/ h.peer = Local \/ frame.hops = MaxHops
                    \/ <<frame.at, h.peer[2]>> \notin up[h.peer[1]]
                 /\ frame' = NoFrame
              \/ /\ h.peer # NoPeer /\ h.peer # Local
                 /\ <<frame.at, h.peer[2]>> \in up[h.peer[1]]
                 /\ frame' = OnWire(frame.at, frame, h)
<1>1. PICK g, v : g = frame /\ v = g.at
  OBVIOUS
<1>2. SUFFICES ASSUME g.dest # v
      PROVE  \E h \in TrafficHops(v, g) :
              \/ /\ \/ DropsFrame(v, g, h) \/ h.peer = Local \/ g.hops = MaxHops
                    \/ <<v, h.peer[2]>> \notin up[h.peer[1]]
                 /\ frame' = NoFrame
              \/ /\ h.peer # NoPeer /\ h.peer # Local
                 /\ <<v, h.peer[2]>> \in up[h.peer[1]]
                 /\ frame' = OnWire(v, g, h)
  BY <1>1
<1>3. PICK h \in TrafficHops(v, g) :
        frame' =
          IF DropsFrame(v, g, h) \/ h.peer = Local \/ g.hops = MaxHops THEN NoFrame
          ELSE IF <<v, h.peer[2]>> \notin up[h.peer[1]] THEN NoFrame
          ELSE OnWire(v, g, h)
  BY <1>1, <1>2 DEF Forward
<1>4. h.peer = NoPeer => DropsFrame(v, g, h)
  BY DEF DropsFrame
<1>5. QED
  BY <1>3, <1>4

(* A frame that is sent on stays a frame, and one that was on its way still *)
(* is.                                                                      *)
LEMMA SentOnItsWay ==
  ASSUME Tidy, Settled, NEW g, IsFrame(g), g.at \in Node, g.dest \in Component(g.at),
         g.at # g.dest, g.calm \in BOOLEAN, OnItsWay(g), NEW h \in TrafficHops(g.at, g)
  PROVE  /\ ~DropsFrame(g.at, g, h) /\ h.peer # Local /\ g.hops # MaxHops
         /\ <<g.at, h.peer[2]>> \in up[h.peer[1]]
         /\ OnItsWay(OnWire(g.at, g, h)) /\ OnWire(g.at, g, h) \in Frames
<1>0. PICK v, next : v = g.at /\ next = OnWire(v, g, h)
  OBVIOUS
<1>1. PICK H : \E V \in SUBSET Component(v) :
           /\ InTurn(H) /\ Cardinality(V) = g.hops /\ v \notin V
           /\ h.peer \in up[v] /\ h.peer[1] \in Component(v) /\ h.peer # g.from
           /\ h.mark \in Mark /\ ~Snake(v)!WorseThan(h.mark, g.mark)
           /\ h.coords = g.coords /\ g.coords \in Seq(Nat)
           /\ IF g.coords = <<>> THEN BySnake(H, V \cup {v}, h.peer[1], g.dest, h.mark)
              ELSE ByTree(V \cup {v}, h.peer[1], g.dest, g.coords)
  BY <1>0, NextOnItsWay
<1>2. PICK V \in SUBSET Component(v) :
           /\ InTurn(H) /\ Cardinality(V) = g.hops /\ v \notin V
           /\ h.peer \in up[v] /\ h.peer[1] \in Component(v) /\ h.peer # g.from
           /\ h.mark \in Mark /\ ~Snake(v)!WorseThan(h.mark, g.mark)
           /\ h.coords = g.coords /\ g.coords \in Seq(Nat)
           /\ IF g.coords = <<>> THEN BySnake(H, V \cup {v}, h.peer[1], g.dest, h.mark)
              ELSE ByTree(V \cup {v}, h.peer[1], g.dest, g.coords)
  BY <1>1
<1>3. v \in Node /\ V \in SUBSET Node /\ V \cup {v} \in SUBSET Component(v)
  BY <1>0, <1>2, ComponentIsClosed
<1>4. Cardinality(V) \in Nat /\ Cardinality(V) # MaxHops /\ Cardinality(V \cup {v}) = g.hops + 1
  BY <1>2, <1>3, HopsAreFew
<1>5. /\ h.peer \in Peers /\ h.peer # NoPeer /\ h.peer # Local
      /\ h.peer[1] \in Node /\ <<v, h.peer[2]>> \in up[h.peer[1]]
  BY <1>2, <1>3, KeysBehindPeer, OverlayAssumption
<1>6. ~DropsFrame(v, g, h) /\ g.hops # MaxHops
  BY <1>2, <1>4, <1>5 DEF DropsFrame
<1>7. Component(h.peer[1]) = Component(v) /\ g.dest \in Node
  BY <1>0, <1>2, <1>3, SameComponent
<1>8. g.sender \in Node /\ g.source \in Seq(Nat)
  BY DEF OnItsWay
<1>9. /\ next.at = h.peer[1] /\ next.from = <<v, h.peer[2]>> /\ next.dest = g.dest
      /\ next.sender = g.sender /\ next.source = g.source
      /\ next.coords = g.coords /\ next.hops = g.hops + 1 /\ next.calm = g.calm
      /\ next.mark = IF g.coords = <<>> THEN h.mark ELSE Snake(v)!FirstWatermark
  BY <1>0, <1>2 DEF OnWire
<1>10. Snake(v)!FirstWatermark \in Mark
  BY OverlayAssumption DEF Snake!FirstWatermark, Mark
<1>11. next.mark \in Mark
  BY <1>2, <1>9, <1>10
<1>12. next.from \in Peers /\ next.from[1] = v
  BY <1>3, <1>5, <1>9 DEF Peers
<1>13. next \in Frames
  <2>1. g.hops + 1 \in Nat
    BY <1>2, <1>4
  <2>2. next = [at |-> next.at, from |-> next.from, dest |-> next.dest, coords |-> next.coords,
                sender |-> next.sender, source |-> next.source,
                mark |-> next.mark, hops |-> next.hops, calm |-> next.calm]
    BY <1>0 DEF OnWire
  <2>3. /\ next.at \in Node /\ next.from \in Peers \cup {Local} /\ next.dest \in Node
        /\ next.coords \in Seq(Nat) /\ next.mark \in Mark /\ next.hops \in Nat
        /\ next.calm \in BOOLEAN /\ next.sender \in Node /\ next.source \in Seq(Nat)
    BY <1>2, <1>5, <1>7, <1>9, <1>11, <1>12, <1>8, <2>1
  <2>4. QED
    BY <2>2, <2>3 DEF Frames
<1>14. OnItsWay(next)
  <2>1. V \cup {v} \in SUBSET Component(next.at) /\ Cardinality(V \cup {v}) = next.hops
    BY <1>3, <1>4, <1>7, <1>9
  <2>2. CameFrom(V \cup {v}, next.from)
    BY <1>12 DEF CameFrom
  <2>3. IF next.coords = <<>> THEN BySnake(H, V \cup {v}, next.at, next.dest, next.mark)
        ELSE ByTree(V \cup {v}, next.at, next.dest, next.coords)
    BY <1>2, <1>9
  <2>4. QED
    BY <1>2, <1>9, <1>11, <1>8, <2>1, <2>2, <2>3 DEF OnItsWay
<1>15. QED
  BY <1>0, <1>5, <1>6, <1>13, <1>14

(* A frame is not the absence of one.                                       *)
LEMMA FramesAreSome == \A g \in Frames : IsFrame(g) /\ g # NoFrame
<1>1. Frames = [at : Node, from : Peers \cup {Local}, dest : Node, coords : Seq(Nat),
                sender : Node, source : Seq(Nat), mark : [key : Nat, seq : Nat], hops : Nat, calm : BOOLEAN]
  BY DEF Frames, Mark
<1>2. NoFrame \notin Frames
  BY <1>1, OverlayAssumption
<1>3. ASSUME NEW g \in Frames PROVE IsFrame(g)
  BY DEF Frames, IsFrame
<1>4. QED
  BY <1>2, <1>3

LEMMA SettledStays ==
  ASSUME UNCHANGED <<vars, boots, fresh>>
  PROVE  Settled' <=> Settled
BY SameTree DEF Settled, NoBootstraps, vars

(* Calm frame g for a node that can be reached is not at that node yet.      *)
OnTheMove(g) == g.calm /\ g.at # g.dest /\ g.dest \in Component(g.at)

(* What SettledDelivers says of a step.                                     *)
NotLost == frame # NoFrame /\ OnTheMove(frame) => frame' # NoFrame

(* _forward, at the node that a frame has reached.                          *)
LEMMA ForwardStep ==
  ASSUME OverlayIInv, FrameIInv, Forward
  PROVE  FrameIInv' /\ NotLost
<1>1. PICK g, v : g = frame /\ v = g.at
  OBVIOUS
<1>2. /\ g # NoFrame /\ IsFrame(g) /\ v \in Node /\ g.dest \in Node /\ g.calm \in BOOLEAN
      /\ g.calm => Settled
      /\ OnTheMove(g) => OnItsWay(g)
  BY <1>1 DEF Forward, FrameIInv, OnTheMove
<1>3. UNCHANGED <<vars, boots, snake, clock, expiries, fresh>>
  BY DEF Forward
<1>4. Settled' <=> Settled
  BY <1>3, SettledStays
<1>5. ASSUME frame' = NoFrame, ~OnTheMove(g) PROVE FrameIInv' /\ NotLost
  BY <1>1, <1>5 DEF FrameIInv, NotLost
<1>6. CASE g.dest = v
  <2>1. frame' = NoFrame
    BY <1>1, <1>6 DEF Forward
  <2>2. QED
    BY <1>1, <1>5, <1>6, <2>1 DEF OnTheMove
<1>7. CASE g.dest # v
  <2>1. PICK h \in TrafficHops(v, g) :
          \/ /\ \/ DropsFrame(v, g, h) \/ h.peer = Local \/ g.hops = MaxHops
                \/ <<v, h.peer[2]>> \notin up[h.peer[1]]
             /\ frame' = NoFrame
          \/ /\ h.peer # NoPeer /\ h.peer # Local
             /\ <<v, h.peer[2]>> \in up[h.peer[1]]
             /\ frame' = OnWire(v, g, h)
    BY <1>1, <1>7, ForwardCases
  <2>2. CASE OnTheMove(g)
    <3>1. Settled /\ Tidy
      BY <1>2, <2>2 DEF OnTheMove, Tidy, OverlayIInv, Settled
    <3>2. /\ ~DropsFrame(v, g, h) /\ h.peer # Local /\ g.hops # MaxHops
          /\ <<v, h.peer[2]>> \in up[h.peer[1]]
          /\ OnItsWay(OnWire(v, g, h)) /\ OnWire(v, g, h) \in Frames
      BY <1>1, <1>2, <2>2, <3>1, SentOnItsWay DEF OnTheMove
    <3>3. frame' = OnWire(v, g, h)
      BY <2>1, <3>2
    <3>4. IsFrame(frame') /\ frame' # NoFrame /\ frame'.at \in Node /\ frame'.dest \in Node
          /\ frame'.calm \in BOOLEAN
      BY <3>2, <3>3, FramesAreSome DEF Frames
    <3>5. OnItsWay(frame)'
      <4>1. PICK next : next = OnWire(v, g, h)
        OBVIOUS
      <4>2. OnItsWay(next)'
        BY <1>3, <3>1, <3>2, <3>3, <3>4, <4>1, SameWay
      <4>3. QED
        BY <3>3, <4>1, <4>2 DEF OnItsWay
    <3>6. QED
      BY <1>4, <3>1, <3>4, <3>5 DEF FrameIInv, NotLost
  <2>3. CASE ~OnTheMove(g)
    <3>1. CASE frame' = NoFrame
      BY <1>5, <2>3, <3>1
    <3>2. CASE /\ h.peer # NoPeer /\ h.peer # Local
               /\ <<v, h.peer[2]>> \in up[h.peer[1]]
               /\ frame' = OnWire(v, g, h)
      <4>1. /\ IsFrame(frame') /\ frame'.at = h.peer[1] /\ frame'.dest = g.dest
            /\ frame'.calm = g.calm
        BY <3>2 DEF OnWire, IsFrame
      <4>2. h.peer[1] \in Node
        BY <1>2, <3>2, TrafficHopType DEF OverlayIInv
      <4>3. ASSUME g.calm PROVE g.dest \notin Component(h.peer[1])
        <5>1. Tidy
          BY <1>2, <4>3 DEF Tidy, OverlayIInv, Settled
        <5>2. PICK x, q : x = h.peer[1] /\ q = <<v, h.peer[2]>>
          OBVIOUS
        <5>3. v \in Component(x)
          BY <3>2, <4>2, <5>1, <5>2, PeerInComponent
        <5>4. Component(v) = Component(x)
          BY <4>2, <5>2, <5>3, SameComponent
        <5>5. QED
          BY <1>1, <1>7, <2>3, <4>3, <5>2, <5>4 DEF OnTheMove
      <4>4. ~OnTheMove(frame)'
        BY <1>3, <4>1, <4>2, <4>3, SameTree DEF OnTheMove
      <4>5. FrameIInv'
        BY <1>2, <1>4, <4>1, <4>2, <4>4 DEF FrameIInv, OnTheMove
      <4>6. QED
        BY <1>1, <2>3, <4>5 DEF NotLost
    <3>3. QED
      BY <2>1, <3>1, <3>2
  <2>4. QED
    BY <2>2, <2>3
<1>8. QED
  BY <1>6, <1>7

(* A frame that sets out in a settled network is on its way.                *)
LEMMA SettingOut ==
  ASSUME OverlayIInv, Settled, NEW v \in Node, NEW d \in Component(v), v # d,
         NEW g, g.at = v, g.from = Local, g.dest = d, g.coords \in {<<>>, Coords(d)},
         g.sender = v, g.source = Coords(v), g.mark = Snake(v)!FirstWatermark, g.hops = 0
  PROVE  OnItsWay(g)
<1>1. Tidy
  BY DEF Tidy, OverlayIInv, Settled
<1>2. d \in Node /\ Root(d) = Root(v)
  BY <1>1, OneRoot
<1>3. ~(state[v].parent = NoPeer /\ state[d].parent = NoPeer)
  <2>1. ASSUME state[v].parent = NoPeer, state[d].parent = NoPeer PROVE FALSE
    <3>1. Root(v) = v /\ Root(d) = d
      BY <1>1, <1>2, <2>1, LineOfRoot
    <3>2. QED
      BY <1>2, <3>1
  <2>2. QED
    BY <2>1
<1>4. fresh # {}
  BY <1>2, <1>3 DEF Settled
<1>5. PICK H : InTurn(H)
  BY <1>4 DEF OverlayIInv
<1>6. d - 1 \in Int /\ d - 1 < Root(v)
  BY <1>1, <1>5, NotYetThere
<1>7. g.mark \in Mark /\ GoodMark(v, d - 1, g.mark)
  BY <1>1, <1>6, FirstMark
<1>8. {} \in SUBSET Component(v) /\ Cardinality({}) = 0
  BY FS_EmptySet
<1>9. BySnake(H, {}, v, d, g.mark) /\ CameFrom({}, g.from)
  BY <1>7 DEF BySnake, CameFrom
<1>10. g.coords # <<>> => ByTree({}, v, d, g.coords)
  BY DEF ByTree
<1>11. g.sender \in Node /\ g.source \in Seq(Nat)
  BY <1>1, TidyTree, CoordsOfPath
<1>12. QED
  BY <1>5, <1>7, <1>8, <1>9, <1>10, <1>11 DEF OnItsWay

LEMMA WriteStep ==
  ASSUME OverlayIInv, NEW n \in Node, NEW d \in Node, n # d, WriteTo(n, d)
  PROVE  FrameIInv' /\ NotLost
<1>1. PICK g : g = [at |-> n, from |-> Local, dest |-> d, coords |-> cache[n][d],
                    sender |-> n, source |-> Coords(n), mark |-> Snake(n)!FirstWatermark,
                    hops |-> 0, calm |-> Settled /\ cache[n][d] \in {<<>>, Coords(d)}]
  OBVIOUS
<1>2. frame' = g /\ frame = NoFrame /\ UNCHANGED <<vars, boots, snake, clock, expiries, fresh>>
  BY <1>1 DEF WriteTo
<1>3. Settled' <=> Settled
  BY <1>2, SettledStays
<1>4. /\ IsFrame(g) /\ g.at = n /\ g.from = Local /\ g.dest = d /\ g.coords = cache[n][d]
      /\ g.sender = n /\ g.source = Coords(n) /\ g.mark = Snake(n)!FirstWatermark /\ g.hops = 0
  BY <1>1 DEF IsFrame
<1>5. g.calm = (Settled /\ cache[n][d] \in {<<>>, Coords(d)})
  BY <1>1
<1>6. (Settled /\ cache[n][d] \in {<<>>, Coords(d)}) \in BOOLEAN
  OBVIOUS
<1>7. /\ g.calm \in BOOLEAN /\ (g.calm => Settled)
      /\ g.calm => g.coords \in {<<>>, Coords(d)}
  BY <1>4, <1>5, <1>6
<1>8. ASSUME OnTheMove(g) PROVE OnItsWay(g)'
  <2>1. Settled /\ Tidy
    BY <1>7, <1>8 DEF OnTheMove, Tidy, OverlayIInv, Settled
  <2>2. OnItsWay(g)
    BY <1>4, <1>7, <1>8, <2>1, SettingOut DEF OnTheMove
  <2>3. QED
    BY <1>2, <1>4, <2>1, <2>2, SameWay
<1>9. OnTheMove(frame)' => OnItsWay(frame)'
  <2>1. SUFFICES ASSUME OnTheMove(frame)' PROVE OnItsWay(frame)'
    OBVIOUS
  <2>2. OnTheMove(g)
    BY <1>2, <1>4, <2>1, SameTree DEF OnTheMove
  <2>3. OnItsWay(g)'
    BY <1>8, <2>2
  <2>4. QED
    BY <1>2, <2>3 DEF OnItsWay
<1>10. FrameIInv'
  BY <1>2, <1>3, <1>4, <1>7, <1>9 DEF FrameIInv, OnTheMove
<1>11. QED
  BY <1>2, <1>10 DEF NotLost

(* Whatever disturbs the overlay: the frame is no longer counted on.        *)
LEMMA DisturbedStep ==
  ASSUME OverlayIInv, FrameIInv, frame' = Disturbed
  PROVE  FrameIInv' /\ NotLost
<1>1. CASE frame = NoFrame
  BY <1>1 DEF Disturbed, FrameIInv, NotLost
<1>2. CASE frame # NoFrame
  <2>1. PICK g, next : g = frame /\ next = [g EXCEPT !.calm = FALSE]
    OBVIOUS
  <2>2. g # NoFrame /\ frame' = next
    BY <1>2, <2>1 DEF Disturbed
  <2>3. /\ IsFrame(g) /\ g.at \in Node /\ g.dest \in Node
        /\ OnTheMove(g) => OnItsWay(g) /\ Settled
    BY <1>2, <2>1 DEF FrameIInv, OnTheMove
  <2>4. next = [at |-> g.at, from |-> g.from, dest |-> g.dest, coords |-> g.coords,
                sender |-> g.sender, source |-> g.source, mark |-> g.mark, hops |-> g.hops, calm |-> FALSE]
    BY <2>1, <2>3 DEF IsFrame
  <2>5. /\ IsFrame(next) /\ next.at = g.at /\ next.dest = g.dest
    BY <2>4 DEF IsFrame
  <2>6. ~next.calm /\ next.calm \in BOOLEAN
    BY <2>4
  <2>7. FrameIInv'
    BY <2>2, <2>3, <2>5, <2>6 DEF FrameIInv
  <2>8. ASSUME OnTheMove(g) PROVE next # NoFrame
    <3>1. PICK H : \E V \in SUBSET Component(g.at) :
            /\ InTurn(H) /\ Cardinality(V) = g.hops
            /\ CameFrom(V, g.from) /\ g.sender \in Node /\ g.source \in Seq(Nat)
            /\ g.mark \in Mark
            /\ IF g.coords = <<>> THEN BySnake(H, V, g.at, g.dest, g.mark)
               ELSE ByTree(V, g.at, g.dest, g.coords)
      BY <2>3, <2>8 DEF OnItsWay
    <3>2. PICK V \in SUBSET Component(g.at) :
            /\ Cardinality(V) = g.hops /\ CameFrom(V, g.from) /\ g.mark \in Mark
            /\ g.sender \in Node /\ g.source \in Seq(Nat)
            /\ g.coords # <<>> => g.coords = Coords(g.dest)
      BY <3>1 DEF ByTree
    <3>3. g.hops \in Nat
      <4>1. IsFiniteSet(V)
        BY <2>3, <3>2, ComponentIsClosed, NetworkAssumption, FS_Subset
      <4>2. QED
        BY <3>2, <4>1, FS_CardinalityType
    <3>4. g.coords \in Seq(Nat)
      <4>1. Tidy
        BY <2>3, <2>8 DEF Tidy, OverlayIInv, Settled
      <4>2. Coords(g.dest) \in Seq(Nat)
        BY <2>3, <4>1, TidyTree, CoordsOfPath
      <4>3. <<>> \in Seq(Nat)
        OBVIOUS
      <4>4. QED
        BY <3>2, <4>2, <4>3
    <3>5. next \in Frames
      <4>1. /\ g.from \in Peers \cup {Local} /\ g.mark \in Mark
            /\ g.sender \in Node /\ g.source \in Seq(Nat)
        BY <3>2 DEF CameFrom
      <4> DEFINE calm == FALSE
      <4>2. calm \in BOOLEAN
        OBVIOUS
      <4>3. next = [at |-> g.at, from |-> g.from, dest |-> g.dest, coords |-> g.coords,
                    sender |-> g.sender, source |-> g.source, mark |-> g.mark, hops |-> g.hops, calm |-> calm]
        BY <2>4
      <4> HIDE DEF calm
      <4>4. QED
        BY <2>3, <3>3, <3>4, <4>1, <4>2, <4>3 DEF Frames
    <3>6. QED
      BY <3>5, FramesAreSome
  <2>9. QED
    BY <2>1, <2>2, <2>7, <2>8 DEF NotLost
<1>3. QED
  BY <1>1, <1>2

(* Nothing is lost while a frame stays where it is.                         *)
LEMMA StayingStep ==
  ASSUME OverlayIInv, FrameIInv, UNCHANGED <<vars, boots, snake, clock, frame, fresh>>
  PROVE  FrameIInv' /\ NotLost
<1>1. PICK g : g = frame
  OBVIOUS
<1>2. Settled' <=> Settled
  BY SettledStays
<1>3. ASSUME g # NoFrame, OnTheMove(g) PROVE OnItsWay(g)'
  <2>1. Tidy /\ OnItsWay(g) /\ g.at \in Node
    BY <1>1, <1>3 DEF Tidy, OverlayIInv, Settled, OnTheMove, FrameIInv
  <2>2. QED
    BY <2>1, SameWay
<1>4. frame' # NoFrame /\ OnTheMove(frame)' => OnItsWay(frame)'
  <2>1. SUFFICES ASSUME frame' # NoFrame, OnTheMove(frame)' PROVE OnItsWay(frame)'
    OBVIOUS
  <2>2. g # NoFrame /\ OnTheMove(g)
    BY <1>1, <2>1, SameTree DEF OnTheMove, FrameIInv
  <2>3. OnItsWay(g)'
    BY <1>3, <2>2
  <2>4. QED
    BY <1>1, <2>3 DEF OnItsWay
<1>5. FrameIInv'
  BY <1>2, <1>4 DEF FrameIInv, OnTheMove
<1>6. QED
  BY <1>5 DEF NotLost

LEMMA LosePeerStep ==
  ASSUME OverlayIInv, FrameIInv, NEW n \in Node, NEW p \in Peers, LosePeer(n, p)
  PROVE  FrameIInv' /\ NotLost
<1>1. ~Quiet
  <2>1. CASE Disconnect(n, p)
    BY <2>1 DEF Disconnect, Quiet, Drained
  <2>2. CASE Refuse(n, p)
    <3>1. chan[n] # None
      BY <2>2 DEF Refuse, None
    <3>2. QED
      BY <3>1 DEF Quiet, Drained
  <2>3. QED
    BY <2>1, <2>2 DEF LosePeer
<1>2. frame' = NoFrame \/ frame' = Disturbed
  BY DEF LosePeer
<1>3. ASSUME frame' = NoFrame PROVE FrameIInv' /\ NotLost
  BY <1>1, <1>3 DEF FrameIInv, NotLost, OnTheMove, Settled
<1>4. QED
  BY <1>2, <1>3, DisturbedStep

LEMMA HandleBootstrapLeaves ==
  ASSUME OverlayIInv, FrameIInv, NEW n \in Node, NEW p \in Peers, HandleBootstrap(n, p)
  PROVE  FrameIInv' /\ NotLost
<1>1. UNCHANGED <<vars, frame, fresh>> /\ boots[n][p] # <<>>
  BY DEF HandleBootstrap, BootstrapIsNext
<1>2. ~Settled
  <2>1. boots[n] # None
    BY <1>1 DEF None
  <2>2. QED
    BY <2>1 DEF Settled, NoBootstraps
<1>3. frame' # NoFrame => ~frame'.calm
  BY <1>1, <1>2 DEF FrameIInv
<1>4. QED
  BY <1>1, <1>3 DEF FrameIInv, NotLost

LEMMA MaintainSnakeLeaves ==
  ASSUME OverlayIInv, FrameIInv, NEW n \in Node, MaintainSnake(n)
  PROVE  FrameIInv' /\ NotLost
<1> DEFINE s == Snake(n)!MaintainSnake(snake[n], RootOf(n))
<1>1. snake' = [snake EXCEPT ![n] = s] /\ UNCHANGED vars
  BY DEF MaintainSnake
<1>2. frame' = Disturbed \/ UNCHANGED <<clock, boots, frame, fresh>>
  BY DEF MaintainSnake
<1>3. CASE UNCHANGED <<clock, boots, frame, fresh>>
  <2>1. CASE frame # NoFrame /\ OnTheMove(frame)
    <3>1. PICK H : InTurn(H)
      BY <2>1 DEF FrameIInv, OnTheMove, OnItsWay
    <3>2. s = snake[n]
      BY <3>1, MaintainInTurn DEF InTurn
    <3> HIDE DEF s
    <3>3. snake = [m \in Node |-> snake[m]]
      BY DEF OverlayIInv, Shapes
    <3>4. snake' = snake
      BY <1>1, <3>2, <3>3
    <3>5. QED
      BY <1>1, <1>3, <3>4, StayingStep
  <2>2. CASE ~(frame # NoFrame /\ OnTheMove(frame))
    <3>1. Settled' <=> Settled
      BY <1>1, <1>3, SettledStays
    <3>2. ~(frame # NoFrame /\ OnTheMove(frame))'
      BY <1>1, <1>3, <2>2, SameTree DEF OnTheMove, FrameIInv
    <3>3. FrameIInv'
      BY <1>3, <3>1, <3>2 DEF FrameIInv, OnTheMove
    <3>4. QED
      BY <2>2, <3>3 DEF NotLost
  <2>3. QED
    BY <2>1, <2>2
<1>4. QED
  BY <1>2, <1>3, DisturbedStep

LEMMA InitFrame == OverlayInit => FrameIInv
BY DEF OverlayInit, FrameIInv

LEMMA NextFrame == OverlayIInv /\ FrameIInv /\ [OverlayNext]_overlayVars => FrameIInv' /\ NotLost
<1> SUFFICES ASSUME OverlayIInv, FrameIInv, [OverlayNext]_overlayVars PROVE FrameIInv' /\ NotLost
  OBVIOUS
<1>1. CASE TreeStep
  BY <1>1, DisturbedStep DEF TreeStep
<1>2. ASSUME NEW n \in Node, NEW p \in Peers, LosePeer(n, p) PROVE FrameIInv' /\ NotLost
  BY <1>2, LosePeerStep
<1>3. ASSUME NEW n \in Node, NEW p \in Peers, HandleBootstrap(n, p) PROVE FrameIInv' /\ NotLost
  BY <1>3, HandleBootstrapLeaves
<1>4. ASSUME NEW n \in Node, MaintainSnake(n) PROVE FrameIInv' /\ NotLost
  BY <1>4, MaintainSnakeLeaves
<1>5. ASSUME NEW n \in Node, NEW k \in Node, Expire(n, k) PROVE FrameIInv' /\ NotLost
  BY <1>5, DisturbedStep DEF Expire
<1>6. ASSUME NEW n \in Node, NEW d \in Node \ {n}, WriteTo(n, d) \/ ForgetCoords(n, d)
      PROVE  FrameIInv' /\ NotLost
  BY <1>6, WriteStep, StayingStep DEF ForgetCoords
<1>7. CASE Forward
  BY <1>7, ForwardStep
<1>8. CASE UNCHANGED overlayVars
  BY <1>8, StayingStep DEF overlayVars
<1>9. QED
  BY <1>1, <1>2, <1>3, <1>4, <1>5, <1>6, <1>7, <1>8 DEF OverlayNext

(* In every network, after any history: a frame that is sent while the      *)
(* nodes have all bootstrapped in turn, without coordinates or with those   *)
(* its addressee has, and is not overtaken by a change,                     *)
(* is never dropped on its way to a node that can be reached.  Neither the  *)
(* check against going back nor the watermark of _forward (state_forward.   *)
(* go) drops it, and no node takes it for its own.                          *)
THEOREM SettledDelivery == OverlaySpec => SettledDelivers
<1>1. NotLost <=> (frame # NoFrame =>
        \/ ~frame.calm \/ frame' # NoFrame
        \/ frame.at = frame.dest \/ frame.dest \notin Component(frame.at))
  BY DEF NotLost, OnTheMove
<1>2. QED
  BY <1>1, OverlayInvariance, InitFrame, NextFrame, PTL DEF OverlaySpec, SettledDelivers

----------------------------------------------------------------------------
=============================================================================
