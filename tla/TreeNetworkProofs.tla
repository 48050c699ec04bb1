-------------------------- MODULE TreeNetworkProofs --------------------------
(***************************************************************************)
(* That a quiet network of TreeNetwork is a spanning tree, for any number  *)
(* of routers, any links between them and any history of links that come   *)
(* up, break and come up again.                                            *)
(*                                                                         *)
(* The argument rests on one fact about the whole network, UpToDate: what  *)
(* a router has heard from a neighbour, or is about to hear, is what that  *)
(* neighbour would announce now.  It is inductive together with the types, *)
(* with the pairing of the two ends of a connection and with what holds of *)
(* each router's record between its tasks.  In a quiet network it makes    *)
(* every path that a router was told the path its parent is on, and the    *)
(* rest follows from the lengths of these paths.                           *)
(***************************************************************************)
EXTENDS TreeNetwork, TLAPS, FiniteSetTheorems, SequenceTheorems, WellFoundedInduction

(* The types of what a router keeps.                                        *)
Update == [root : Nat, seq : Nat, sigs : Seq([key : Nat, hop : Nat])]

Stored == [root : Nat, seq : Nat, sigs : Seq([key : Nat, hop : Nat]),
           order : Nat, expired : {FALSE}]

NodeState == [parent : Peers \cup {NoPeer}, announcements : [Peers -> Stored \cup {NoAnn}],
              ordering : Nat, sequence : Nat, waiting : BOOLEAN, coordsCache : SUBSET Nat,
              proto : [Peers -> Seq(Update)]]

NetworkTypes ==
  /\ state \in [Node -> NodeState]
  /\ up \in [Node -> SUBSET Peers]
  /\ chan \in [Node -> [Peers -> Seq(Update)]]
  /\ made \in [Links -> 0..MaxConnections]
  /\ broken \in SUBSET Links

(* One connection per link: both ends have it until it breaks, and neither  *)
(* end has an older one.                                                    *)
OneConnection ==
  /\ \A n \in Node : \A p \in up[n] : Neighbour(n, p[1]) /\ p[2] = made[LinkOf(n, p[1])]
  /\ \A l \in Links \ broken :
       made[l] > 0 => <<l[2], made[l]>> \in up[l[1]] /\ <<l[1], made[l]>> \in up[l[2]]

(* Nothing is kept of, or on its way from, a peer that is not up.           *)
OnlyOfPeers ==
  \A n \in Node : \A p \in Peers \ up[n] : state[n].announcements[p] = NoAnn /\ chan[n][p] = <<>>

(* The announcement that node n would send in state s.                      *)
Ann(n, s) == Tree(n)!RootAnnouncement(s)

AsUpdate(a) == [root |-> a.root, seq |-> a.seq, sigs |-> a.sigs]

(* The update u is the last one on channel c, or in the entry a behind it.  *)
LatestIs(c, a, u) == IF c # <<>> THEN c[Len(c)] = u ELSE a # NoAnn /\ AsUpdate(a) = u

(* What a node has of a neighbour, on its way or in its table, is what the  *)
(* neighbour would announce to it now.                                      *)
UpToDate ==
  \A n \in Node : \A p \in up[n] : <<n, p[2]>> \in up[p[1]] =>
    LatestIs(chan[n][p], state[n].announcements[p],
             Tree(p[1])!ForPeer(Ann(p[1], state[p[1]]), <<n, p[2]>>))

(* Of the record of node n, whose peers are up: no entry was signed twice,  *)
NoDoubleSignatures(n, s) ==
  \A p \in Peers : s.announcements[p] # NoAnn => ~Tree(n)!SignedTwice(s.announcements[p])

(* a parent is up and has told n of a path that n is not on,                *)
GoodParent(n, s, peers) ==
  /\ s.parent \in peers
  /\ s.announcements[s.parent] # NoAnn
  /\ ~Tree(n)!HasSigned(s.announcements[s.parent], n)
  /\ s.announcements[s.parent].root >= n

(* and unless n waits, nobody has told it of a stronger root.               *)
NoBetterKnown(n, s, peers) ==
  \A p \in peers : (s.announcements[p] # NoAnn /\ ~Tree(n)!HasSigned(s.announcements[p], n))
                      => s.announcements[p].root <= Ann(n, s).root

SoundNode(n, s, peers) ==
  /\ NoDoubleSignatures(n, s)
  /\ s.parent # NoPeer => GoodParent(n, s, peers) /\ ~s.waiting
  /\ ~s.waiting => NoBetterKnown(n, s, peers)

NetworkIInv ==
  /\ NetworkTypes /\ OneConnection /\ OnlyOfPeers /\ UpToDate
  /\ \A n \in Node : state[n].proto = None /\ SoundNode(n, state[n], up[n])

----------------------------------------------------------------------------
(* What a task of node n has pushed when it ends in r: the announcement of  *)
(* r, for each peer in `to'.                                                *)
Pushes(n, r, to) ==
  \A p \in Peers : r.proto[p] = IF p \in to THEN <<Tree(n)!ForPeer(Ann(n, r), p)>> ELSE <<>>

(* It has told all its peers, unless it goes on announcing what it did.     *)
Announces(n, s, r, peers) ==
  \E to \in SUBSET Peers :
    /\ Pushes(n, r, to)
    /\ peers \subseteq to \/ AsUpdate(Ann(n, r)) = AsUpdate(Ann(n, s))

LEMMA PeersAreFinite == IsFiniteSet(Peers) /\ NoPeer \notin Peers /\ NoAnn \notin Stored
<1>1. IsFiniteSet(1..MaxConnections)
  BY NetworkAssumption, FS_Interval
<1>2. IsFiniteSet(Peers)
  BY <1>1, NetworkAssumption, FS_Product DEF Peers
<1>3. QED
  BY <1>2, NetworkAssumption DEF Stored

LEMMA StoredType ==
  ASSUME NEW a \in Stored
  PROVE  /\ a.root \in Nat /\ a.seq \in Nat /\ a.sigs \in Seq([key : Nat, hop : Nat])
         /\ a.expired = FALSE
BY DEF Stored

LEMMA AnnType ==
  ASSUME NEW n \in Node, NEW s \in NodeState
  PROVE  /\ Ann(n, s) \in Stored
         /\ s.parent = NoPeer => /\ Ann(n, s).root = n /\ Ann(n, s).seq = s.sequence
                                 /\ Ann(n, s).sigs = <<>>
         /\ s.parent # NoPeer /\ s.announcements[s.parent] = NoAnn => Ann(n, s).root = n
         /\ s.parent # NoPeer /\ s.announcements[s.parent] # NoAnn =>
              Ann(n, s) = s.announcements[s.parent]
<1> DEFINE own == Tree(n)!SelfAnnouncement(s)
<1>1. n \in Nat
  BY NetworkAssumption
<1>2. own = [root |-> n, seq |-> s.sequence, sigs |-> <<>>, order |-> 0, expired |-> FALSE]
  BY DEF Tree!SelfAnnouncement
<1>3. own \in Stored /\ own.root = n /\ own.seq = s.sequence /\ own.sigs = <<>>
  BY <1>1, <1>2 DEF Stored, NodeState
<1>4. Ann(n, s) = IF s.parent = NoPeer THEN own
                  ELSE IF s.announcements[s.parent] = NoAnn THEN own
                  ELSE s.announcements[s.parent]
  BY DEF Ann, Tree!RootAnnouncement
<1> HIDE DEF own
<1>5. s.parent # NoPeer => s.announcements[s.parent] \in Stored \cup {NoAnn}
  BY DEF NodeState
<1>6. QED
  BY <1>3, <1>4, <1>5

(* The announcement depends on the parent, its entry and the sequence.      *)
LEMMA AnnOfSame ==
  ASSUME NEW n, NEW s, NEW t, t.parent = s.parent, t.sequence = s.sequence,
         s.parent # NoPeer => t.announcements[s.parent] = s.announcements[s.parent]
  PROVE  Ann(n, t) = Ann(n, s)
BY DEF Ann, Tree!RootAnnouncement, Tree!SelfAnnouncement

(* forPeer looks at the root, the sequence and the signatures only, and     *)
(* makes an update that may be sent.                                        *)
LEMMA ForPeerOfSame ==
  ASSUME NEW n, NEW a, NEW b, AsUpdate(a) = AsUpdate(b), NEW p
  PROVE  Tree(n)!ForPeer(a, p) = Tree(n)!ForPeer(b, p)
<1>1. a.root = b.root /\ a.seq = b.seq /\ a.sigs = b.sigs
  BY DEF AsUpdate
<1>2. QED
  BY <1>1 DEF Tree!ForPeer

LEMMA ForPeerType ==
  ASSUME NEW n \in Node, NEW a \in Stored, NEW p \in Peers
  PROVE  /\ Tree(n)!ForPeer(a, p) \in Update
         /\ Tree(n)!ForPeer(a, p).root = a.root /\ Tree(n)!ForPeer(a, p).seq = a.seq
         /\ Tree(n)!ForPeer(a, p).sigs = Append(a.sigs, [key |-> n, hop |-> p[1]])
<1>1. p[1] \in Nat /\ n \in Nat /\ NeighbourOf[p] = p[1]
  BY NetworkAssumption DEF Peers, NeighbourOf
<1>2. Tree(n)!ForPeer(a, p) = [root |-> a.root, seq |-> a.seq,
                               sigs |-> Append(a.sigs, [key |-> n, hop |-> p[1]])]
  BY <1>1 DEF Tree!ForPeer
<1>3. [key |-> n, hop |-> p[1]] \in [key : Nat, hop : Nat]
  BY <1>1
<1>4. Append(a.sigs, [key |-> n, hop |-> p[1]]) \in Seq([key : Nat, hop : Nat])
  BY <1>3 DEF Stored
<1>5. QED
  BY <1>2, <1>4 DEF Stored, Update

(* Equal but for the announcements pushed.                                  *)
SameBut(s, t) ==
  /\ t.parent = s.parent
  /\ t.announcements = s.announcements
  /\ t.ordering = s.ordering
  /\ t.sequence = s.sequence
  /\ t.waiting = s.waiting
  /\ t.coordsCache = s.coordsCache

(* A record that is told to some peers.                                     *)
LEMMA SendToPushes ==
  ASSUME NEW n \in Node, NEW s \in NodeState, s.proto = None, NEW to \in SUBSET Peers
  PROVE  LET r == Tree(n)!SendTo(s, Ann(n, s), to) IN
         r \in NodeState /\ SameBut(s, r) /\ Ann(n, r) = Ann(n, s) /\ Pushes(n, r, to)
<1> DEFINE a == Ann(n, s)
           proto == [p \in Peers |-> IF p \in to THEN Append(s.proto[p], Tree(n)!ForPeer(a, p))
                                                 ELSE s.proto[p]]
           r == Tree(n)!SendTo(s, a, to)
<1>1. a \in Stored
  BY AnnType
<1>2. r = [s EXCEPT !.proto = proto]
  BY DEF Tree!SendTo
<1> HIDE DEF r, a
<1>3. ASSUME NEW p \in Peers
      PROVE  /\ proto[p] = IF p \in to THEN <<Tree(n)!ForPeer(a, p)>> ELSE <<>>
             /\ proto[p] \in Seq(Update)
  <2>1. Tree(n)!ForPeer(a, p) \in Update /\ s.proto[p] = <<>>
    BY <1>1, ForPeerType DEF None
  <2>2. \A u \in Update : Append(<<>>, u) = <<u>> /\ <<u>> \in Seq(Update) /\ <<>> \in Seq(Update)
    OBVIOUS
  <2>3. proto[p] = IF p \in to THEN Append(<<>>, Tree(n)!ForPeer(a, p)) ELSE <<>>
    BY <2>1
  <2> HIDE DEF proto
  <2>4. QED
    BY <2>1, <2>2, <2>3
<1>4. proto \in [Peers -> Seq(Update)]
  <2>1. \A p \in Peers : proto[p] \in Seq(Update)
    BY <1>3
  <2>2. proto = [p \in Peers |-> proto[p]]
    OBVIOUS
  <2> HIDE DEF proto
  <2>3. QED
    BY <2>1, <2>2
<1> HIDE DEF proto
<1>5. r \in NodeState /\ SameBut(s, r) /\ r.proto = proto
  BY <1>2, <1>4 DEF NodeState, SameBut
<1>6. Ann(n, r) = a
  BY <1>5, AnnOfSame DEF SameBut, a
<1>7. QED
  BY <1>3, <1>5, <1>6 DEF Pushes, r, a

LEMMA SendTreeAnnouncementsPushes ==
  ASSUME NEW n \in Node, NEW s \in NodeState, s.proto = None, NEW peers \in SUBSET Peers
  PROVE  LET r == Tree(n)!SendTreeAnnouncements(s, peers) IN
         r \in NodeState /\ SameBut(s, r) /\ Ann(n, r) = Ann(n, s) /\ Pushes(n, r, peers)
<1>1. Tree(n)!SendTreeAnnouncements(s, peers) = Tree(n)!SendTo(s, Ann(n, s), peers)
  BY DEF Tree!SendTreeAnnouncements, Ann
<1>2. QED
  BY <1>1, SendToPushes

(* _setParent changes the parent and the cached coordinates.                *)
LEMMA SetParentType ==
  ASSUME NEW n \in Node, NEW s \in NodeState, NEW p \in Peers \cup {NoPeer}
  PROVE  LET r == Tree(n)!SetParent(s, p) IN
         /\ r \in NodeState /\ r.parent = p
         /\ r.announcements = s.announcements /\ r.ordering = s.ordering
         /\ r.waiting = s.waiting /\ r.sequence = s.sequence /\ r.proto = s.proto
<1> DEFINE t == [s EXCEPT !.parent = p]
           r == Tree(n)!SetParent(s, p)
<1>1. /\ t \in NodeState /\ t.parent = p
      /\ t.announcements = s.announcements /\ t.ordering = s.ordering
      /\ t.waiting = s.waiting /\ t.sequence = s.sequence /\ t.proto = s.proto
  BY DEF NodeState
<1>2. \E c \in SUBSET Nat : r = [t EXCEPT !.coordsCache = c]
  BY DEF Tree!SetParent, NodeState
<1> HIDE DEF t, r
<1>3. PICK c \in SUBSET Nat : r = [t EXCEPT !.coordsCache = c]
  BY <1>2
<1>4. r \in NodeState
  BY <1>1, <1>3 DEF NodeState
<1>5. QED
  BY <1>1, <1>3, <1>4 DEF NodeState, r

(* A root counts its sequence up and tells everyone.                        *)
LEMMA MaintainTreePushes ==
  ASSUME NEW n \in Node, NEW s \in NodeState, s.proto = None, s.parent = NoPeer,
         NEW peers \in SUBSET Peers
  PROVE  LET r == Tree(n)!MaintainTree(s, peers) IN
         /\ r \in NodeState /\ r.parent = NoPeer /\ r.announcements = s.announcements
         /\ r.waiting = s.waiting /\ Pushes(n, r, peers)
<1> DEFINE t == [s EXCEPT !.sequence = s.sequence + 1]
<1>0. s.sequence + 1 \in Nat
  BY DEF NodeState
<1>1. /\ t \in NodeState /\ t.parent = s.parent /\ t.announcements = s.announcements
      /\ t.waiting = s.waiting /\ t.proto = s.proto
  BY <1>0 DEF NodeState
<1>2. Tree(n)!MaintainTree(s, peers) = Tree(n)!SendTreeAnnouncements(t, peers)
  BY DEF Tree!MaintainTree
<1> HIDE DEF t
<1>3. QED
  BY <1>1, <1>2, SendTreeAnnouncementsPushes DEF SameBut

LEMMA BecomeRootPushes ==
  ASSUME NEW n \in Node, NEW s \in NodeState, s.proto = None, s.parent # NoPeer,
         NEW peers \in SUBSET Peers
  PROVE  LET r == Tree(n)!BecomeRoot(s, peers) IN
         /\ r \in NodeState /\ r.parent = NoPeer /\ r.announcements = s.announcements
         /\ r.waiting = s.waiting /\ Pushes(n, r, peers)
<1> DEFINE t == Tree(n)!SetParent(s, NoPeer)
<1>1. /\ t \in NodeState /\ t.parent = NoPeer /\ t.announcements = s.announcements
      /\ t.waiting = s.waiting /\ t.proto = s.proto
  BY SetParentType
<1>2. Tree(n)!BecomeRoot(s, peers) = Tree(n)!MaintainTree(t, peers)
  BY DEF Tree!BecomeRoot
<1> HIDE DEF t
<1>3. QED
  BY <1>1, <1>2, MaintainTreePushes

----------------------------------------------------------------------------
(* Parent selection.  A candidate that is beaten by a smallest set of       *)
(* others is beaten by none.                                                *)
LEMMA BetterIsTransitive ==
  ASSUME NEW n, NEW a \in Stored, NEW b \in Stored, NEW c \in Stored,
         Tree(n)!IsBetterParentCandidate(a, b), Tree(n)!IsBetterParentCandidate(b, c)
  PROVE  Tree(n)!IsBetterParentCandidate(a, c) /\ ~Tree(n)!IsBetterParentCandidate(a, a)
BY SMTT(60) DEF Tree!IsBetterParentCandidate, Stored

LEMMA BestParentIsBest ==
  ASSUME NEW n \in Node, NEW s \in NodeState, NEW peers \in SUBSET Peers,
         Tree(n)!ParentCandidates(s, peers) # {}
  PROVE  LET b == Tree(n)!BestParent(s, peers)
             C == Tree(n)!ParentCandidates(s, peers)
         IN  b \in C /\ \A q \in C : s.announcements[q].root <= s.announcements[b].root
<1> DEFINE C == Tree(n)!ParentCandidates(s, peers)
           Beats(q, p) ==
             Tree(n)!IsBetterParentCandidate(s.announcements[q], s.announcements[p])
           better(p) == { q \in C : Beats(q, p) }
           T == { better(p) : p \in C }
           b == Tree(n)!BestParent(s, peers)
<1>1. C \subseteq Peers /\ \A p \in C : s.announcements[p] \in Stored
  BY DEF Tree!ParentCandidates, NodeState
<1>2. T \subseteq FiniteSubsetsOf(Peers) /\ T # {}
  <2>1. ASSUME NEW p \in C
        PROVE  better(p) \in SUBSET Peers /\ IsFiniteSet(better(p))
    BY <1>1, FS_Subset, PeersAreFinite
  <2>2. QED
    BY <2>1 DEF FiniteSubsetsOf
<1>3. PICK x \in T : \A y \in T : <<y, x>> \notin StrictSubsetOrdering(Peers)
  BY <1>2, PeersAreFinite, FS_StrictSubsetOrderingWellFounded, WFMin
<1>4. PICK p \in C : x = better(p)
  BY <1>3
<1>5. ASSUME NEW q \in C, Beats(q, p)
      PROVE  FALSE
  <2>1. better(q) \subseteq better(p)
    BY <1>1, <1>5, BetterIsTransitive
  <2>2. q \in better(p) /\ q \notin better(q)
    BY <1>1, <1>5, BetterIsTransitive
  <2>3. better(q) \subseteq Peers /\ better(p) \subseteq Peers /\ better(q) \in T
    BY <1>1
  <2> HIDE DEF better, T
  <2>4. <<better(q), better(p)>> \in StrictSubsetOrdering(Peers)
    BY <2>1, <2>2, <2>3 DEF StrictSubsetOrdering
  <2>5. QED
    BY <1>3, <1>4, <2>3, <2>4
<1>6. b = CHOOSE y \in C : \A q \in C : ~Beats(q, y)
  BY DEF Tree!BestParent
<1> HIDE DEF C, b
<1>7. b \in C /\ \A q \in C : ~Beats(q, b)
  BY <1>4, <1>5, <1>6
<1>8. ASSUME NEW q \in C
      PROVE  s.announcements[q].root <= s.announcements[b].root
  <2>1. s.announcements[q] \in Stored /\ s.announcements[b] \in Stored
    BY <1>1, <1>7
  <2>2. ~(s.announcements[q].root > s.announcements[b].root)
    BY <1>7 DEF Tree!IsBetterParentCandidate
  <2>3. s.announcements[q].root \in Nat /\ s.announcements[b].root \in Nat
    BY <2>1, StoredType
  <2>4. QED
    BY <2>2, <2>3
<1>9. QED
  BY <1>7, <1>8 DEF C, b

(* A peer that is up and has told us of a path, that we are not on and that *)
(* nobody has signed twice, is a candidate unless its root is too weak or   *)
(* its announcement too old.                                                *)
LEMMA CandidateIf ==
  ASSUME NEW n \in Node, NEW s \in NodeState, NEW peers \in SUBSET Peers, NEW p \in peers,
         NoDoubleSignatures(n, s), s.announcements[p] # NoAnn,
         ~Tree(n)!HasSigned(s.announcements[p], n),
         Tree(n)!NotOlder(s.announcements[p], Tree(n)!RootToMatch(s))
  PROVE  p \in Tree(n)!ParentCandidates(s, peers)
<1>1. s.announcements[p] \in Stored
  BY DEF NodeState
<1>2. ~s.announcements[p].expired
  BY <1>1 DEF Stored
<1>3. QED
  BY <1>2 DEF Tree!ParentCandidates, Tree!IsLoopOrChildOf, NoDoubleSignatures

LEMMA CandidateIsGood ==
  ASSUME NEW n \in Node, NEW s \in NodeState, NEW peers \in SUBSET Peers,
         NEW p \in Tree(n)!ParentCandidates(s, peers)
  PROVE  /\ p \in peers /\ p # NoPeer /\ s.announcements[p] \in Stored
         /\ s.announcements[p] # NoAnn
         /\ ~Tree(n)!HasSigned(s.announcements[p], n)
         /\ s.announcements[p].root >= n
         /\ s.announcements[p].root >= Tree(n)!RootToMatch(s).root
<1>1. /\ p \in peers /\ s.announcements[p] # NoAnn
      /\ ~Tree(n)!HasSigned(s.announcements[p], n)
      /\ Tree(n)!NotOlder(s.announcements[p], Tree(n)!RootToMatch(s))
  BY DEF Tree!ParentCandidates, Tree!IsLoopOrChildOf
<1>2. s.announcements[p] \in Stored /\ p # NoPeer
  BY <1>1, PeersAreFinite DEF NodeState
<1>3. Tree(n)!RootToMatch(s) = IF Ann(n, s).root < n THEN [root |-> n, seq |-> 0]
                               ELSE [root |-> Ann(n, s).root, seq |-> Ann(n, s).seq]
  BY DEF Tree!RootToMatch, Ann
<1>4. n \in Nat /\ Ann(n, s).root \in Nat
  BY AnnType, NetworkAssumption DEF Stored
<1>5. Tree(n)!RootToMatch(s).root \in Nat /\ Tree(n)!RootToMatch(s).root >= n
  BY <1>3, <1>4
<1>6. s.announcements[p].root \in Nat
  BY <1>2, StoredType
<1>7. s.announcements[p].root >= Tree(n)!RootToMatch(s).root
  BY <1>1, <1>5, <1>6 DEF Tree!NotOlder
<1>8. QED
  BY <1>1, <1>2, <1>4, <1>5, <1>6, <1>7

(* What _selectNewParent makes of a record whose parent is good or has been *)
(* forgotten: a sound one, that knows of no better root.                    *)
LEMMA SelectNewParentSound ==
  ASSUME NEW n \in Node, NEW s \in NodeState, s.proto = None, NEW peers \in SUBSET Peers,
         NoDoubleSignatures(n, s), ~s.waiting,
         \/ s.parent = NoPeer
         \/ s.announcements[s.parent] = NoAnn
         \/ GoodParent(n, s, peers)
  PROVE  LET r == Tree(n)!SelectNewParent(s, peers) IN
         /\ r \in NodeState /\ r.announcements = s.announcements
         /\ SoundNode(n, r, peers)
         /\ \/ Pushes(n, r, peers)
            \/ r = s /\ (s.parent = NoPeer \/ s.announcements[s.parent] # NoAnn)
<1> DEFINE C == Tree(n)!ParentCandidates(s, peers)
           b == Tree(n)!BestParent(s, peers)
           t == Tree(n)!SetParent(s, b)
           r == Tree(n)!SelectNewParent(s, peers)
           match == Tree(n)!RootToMatch(s)
<1>1. n \in Nat /\ Ann(n, s) \in Stored
  BY AnnType, NetworkAssumption
<1>2. Ann(n, s).root >= n
  BY <1>1, AnnType DEF GoodParent
<1>3. match = [root |-> Ann(n, s).root, seq |-> Ann(n, s).seq]
  <2>1. ~(Ann(n, s).root < n)
    BY <1>1, <1>2 DEF Stored
  <2>2. QED
    BY <2>1 DEF Tree!RootToMatch, Ann
<1>4. ASSUME NEW p \in peers, p \notin C, s.announcements[p] # NoAnn,
             ~Tree(n)!HasSigned(s.announcements[p], n)
      PROVE  s.announcements[p].root <= Ann(n, s).root
  <2>1. ~Tree(n)!NotOlder(s.announcements[p], match)
    BY <1>4, CandidateIf
  <2>2. s.announcements[p] \in Stored
    BY <1>4 DEF NodeState
  <2>3. ~(s.announcements[p].root > Ann(n, s).root)
    BY <1>3, <2>1 DEF Tree!NotOlder
  <2>4. s.announcements[p].root \in Nat /\ Ann(n, s).root \in Nat
    BY <1>1, <2>2, StoredType
  <2>5. QED
    BY <2>3, <2>4
<1>5. GoodParent(n, s, peers) => s.parent \in C
  <2> SUFFICES ASSUME GoodParent(n, s, peers) PROVE s.parent \in C
    OBVIOUS
  <2>1. Ann(n, s) = s.announcements[s.parent]
    BY AnnType, PeersAreFinite DEF GoodParent
  <2>2. Tree(n)!NotOlder(s.announcements[s.parent], match)
    <3>1. Ann(n, s).root \in Nat /\ Ann(n, s).seq \in Nat
      BY <1>1, StoredType
    <3>2. QED
      BY <1>3, <2>1, <3>1 DEF Tree!NotOlder
  <2>3. QED
    BY <2>2, CandidateIf DEF GoodParent
<1>6. CASE C = {}
  <2>1. r = Tree(n)!BecomeRoot(s, peers) /\ ~GoodParent(n, s, peers)
    BY <1>5, <1>6 DEF Tree!SelectNewParent
  <2>2. /\ r \in NodeState /\ r.parent = NoPeer /\ r.announcements = s.announcements
        /\ r.waiting = s.waiting
        /\ (r = s /\ s.parent = NoPeer) \/ Pushes(n, r, peers)
    <3>1. CASE s.parent = NoPeer
      BY <2>1, <3>1 DEF Tree!BecomeRoot
    <3>2. CASE s.parent # NoPeer
      BY <2>1, <3>2, BecomeRootPushes
    <3>3. QED
      BY <3>1, <3>2
  <2>3. Ann(n, s).root = n
    BY <2>1, AnnType
  <2>4. Ann(n, r).root = n
    BY <2>2, AnnType
  <2> HIDE DEF r
  <2>5. NoBetterKnown(n, r, peers)
    BY <1>4, <1>6, <2>2, <2>3, <2>4 DEF NoBetterKnown
  <2>6. SoundNode(n, r, peers)
    BY <2>2, <2>5 DEF SoundNode, NoDoubleSignatures
  <2>7. QED
    BY <2>2, <2>6 DEF r
<1>7. CASE C # {}
  <2>1. /\ b \in C
        /\ \A q \in C : s.announcements[q].root <= s.announcements[b].root
    BY <1>7, BestParentIsBest
  <2>2. /\ b \in peers /\ b # NoPeer /\ b \in Peers /\ s.announcements[b] \in Stored
        /\ s.announcements[b] # NoAnn
        /\ ~Tree(n)!HasSigned(s.announcements[b], n)
        /\ s.announcements[b].root >= n
        /\ s.announcements[b].root >= Ann(n, s).root
    BY <1>3, <2>1, CandidateIsGood
  <2>3. ASSUME NEW p \in peers, s.announcements[p] # NoAnn,
               ~Tree(n)!HasSigned(s.announcements[p], n)
        PROVE  s.announcements[p].root <= s.announcements[b].root
    <3>1. CASE p \in C
      BY <2>1, <3>1
    <3>2. CASE p \notin C
      <4>1. s.announcements[p] \in Stored
        BY <2>3 DEF NodeState
      <4>2. s.announcements[p].root <= Ann(n, s).root
        BY <1>4, <2>3, <3>2
      <4>3. /\ s.announcements[p].root \in Nat /\ s.announcements[b].root \in Nat
            /\ Ann(n, s).root \in Nat
        BY <1>1, <2>2, <4>1, StoredType
      <4>4. QED
        BY <2>2, <4>2, <4>3
    <3>3. QED
      BY <3>1, <3>2
  <2>4. /\ r \in NodeState /\ r.parent = b /\ r.announcements = s.announcements
        /\ r.waiting = s.waiting
        /\ (r = s /\ s.parent = b) \/ Pushes(n, r, peers)
    <3>1. CASE b = s.parent
      BY <1>7, <3>1 DEF Tree!SelectNewParent
    <3>2. CASE b # s.parent
      <4>1. r = Tree(n)!SendTreeAnnouncements(t, peers)
        BY <1>7, <3>2 DEF Tree!SelectNewParent
      <4>2. /\ t \in NodeState /\ t.parent = b /\ t.announcements = s.announcements
            /\ t.waiting = s.waiting /\ t.proto = None
        BY <2>2, SetParentType
      <4> HIDE DEF t, b, r
      <4>3. QED
        BY <4>1, <4>2, SendTreeAnnouncementsPushes DEF SameBut
    <3>3. QED
      BY <3>1, <3>2
  <2> HIDE DEF r, b
  <2>5. Ann(n, r) = s.announcements[b]
    BY <2>2, <2>4, AnnType
  <2>6. NoBetterKnown(n, r, peers)
    BY <2>3, <2>4, <2>5 DEF NoBetterKnown
  <2>7. GoodParent(n, r, peers)
    BY <2>2, <2>4 DEF GoodParent
  <2>8. SoundNode(n, r, peers)
    BY <2>4, <2>6, <2>7 DEF SoundNode, NoDoubleSignatures
  <2>9. QED
    BY <2>2, <2>4, <2>8 DEF r
<1>8. QED
  BY <1>6, <1>7

----------------------------------------------------------------------------
(* The tasks of the state actor keep its record sound and announce what     *)
(* they change.                                                             *)
LEMMA SoundOfSame ==
  ASSUME NEW n, NEW s, NEW t, SameBut(s, t), NEW peers, SoundNode(n, s, peers)
  PROVE  SoundNode(n, t, peers)
<1>1. Ann(n, t) = Ann(n, s)
  BY AnnOfSame DEF SameBut
<1>2. QED
  BY <1>1 DEF SameBut, SoundNode, NoDoubleSignatures, GoodParent, NoBetterKnown

LEMMA PushesAnnounces ==
  ASSUME NEW n, NEW s, NEW r, NEW peers \in SUBSET Peers, Pushes(n, r, peers)
  PROVE  Announces(n, s, r, peers)
BY DEF Announces

LEMMA SilenceAnnounces ==
  ASSUME NEW n, NEW s, NEW r, r.proto = None, AsUpdate(Ann(n, r)) = AsUpdate(Ann(n, s)),
         NEW peers
  PROVE  Announces(n, s, r, peers)
<1>1. Pushes(n, r, {})
  BY DEF Pushes, None
<1>2. QED
  BY <1>1 DEF Announces

LEMMA HandleTreeAnnouncementSound ==
  ASSUME NEW n \in Node, NEW s \in NodeState, s.proto = None, NEW peers \in SUBSET Peers,
         SoundNode(n, s, peers), NEW p \in peers, NEW a \in Update,
         ~Tree(n)!Refused(s, p, a)
  PROVE  LET r == Tree(n)!HandleTreeAnnouncement(s, p, a, peers) IN
         /\ r \in NodeState /\ SoundNode(n, r, peers) /\ Announces(n, s, r, peers)
         /\ r.announcements = [s.announcements EXCEPT ![p] = Tree(n)!Store(a, s.ordering + 1)]
<1> DEFINE stored == Tree(n)!Store(a, s.ordering + 1)
           t == [s EXCEPT !.ordering = s.ordering + 1, !.announcements[p] = stored]
           w == [t EXCEPT !.waiting = TRUE]
           u == Tree(n)!SetParent(t, p)
           do == Tree(n)!AnnouncementAction(s, p, a)
           loop == Tree(n)!IsLoopOrChildOf(a, n)
           last == Ann(n, s)
           r == Tree(n)!HandleTreeAnnouncement(s, p, a, peers)
           Fine == /\ r \in NodeState /\ SoundNode(n, r, peers) /\ Announces(n, s, r, peers)
                   /\ r.announcements = [s.announcements EXCEPT ![p] = stored]
<1>0. p \in Peers /\ p # NoPeer /\ s.ordering + 1 \in Nat /\ n \in Nat
  BY PeersAreFinite, NetworkAssumption DEF NodeState
<1>1. /\ stored \in Stored /\ stored # NoAnn
      /\ stored.root = a.root /\ stored.seq = a.seq /\ stored.sigs = a.sigs
  <2>1. stored \in Stored
    BY <1>0 DEF Tree!Store, Stored, Update
  <2>2. stored.root = a.root /\ stored.seq = a.seq /\ stored.sigs = a.sigs
    BY DEF Tree!Store
  <2> HIDE DEF stored
  <2>3. QED
    BY <2>1, <2>2, PeersAreFinite
<1> HIDE DEF stored
<1>2. /\ ~Tree(n)!SignedTwice(stored) /\ ~Tree(n)!SignedTwice(a)
      /\ loop <=> Tree(n)!HasSigned(stored, n)
  <2>1. ~Tree(n)!SignedTwice(a)
    BY DEF Tree!Refused, Tree!SanityCheck
  <2>2. QED
    BY <1>1, <2>1 DEF Tree!SignedTwice, Tree!IsLoopOrChildOf, Tree!HasSigned, Tree!Elements
<1>3. /\ t \in NodeState /\ t.parent = s.parent /\ t.waiting = s.waiting
      /\ t.sequence = s.sequence /\ t.proto = None
      /\ t.announcements = [s.announcements EXCEPT ![p] = stored]
  BY <1>0, <1>1 DEF NodeState
<1>4. /\ t.announcements[p] = stored
      /\ \A q \in Peers \ {p} : t.announcements[q] = s.announcements[q]
  BY <1>0, <1>3 DEF NodeState
<1>5. /\ w \in NodeState /\ w.parent = s.parent /\ w.waiting /\ w.proto = None
      /\ w.announcements = t.announcements
  BY <1>3 DEF NodeState
<1>6. r = CASE do = "AcceptUpdate"    -> Tree(n)!SendTreeAnnouncements(t, peers)
            [] do = "AcceptNewParent" -> Tree(n)!SendTreeAnnouncements(u, peers)
            [] do = "SelectNewParent" -> Tree(n)!SelectNewParent(t, peers)
            [] do = "SelectNewParentWithWait" -> Tree(n)!BecomeRoot(w, peers)
            [] do = "InformPeerOfStrongerRoot" /\ s.announcements[p] # NoAnn ->
                 Tree(n)!SendTo(t, Ann(n, s), {p})
            [] OTHER -> t
  BY DEF Tree!HandleTreeAnnouncement, stored, Ann
<1>7. do = IF s.waiting THEN "Saved"
           ELSE Tree(n)!DetermineAnnouncementAction(p = s.parent, loop, a, last)
  BY DEF Tree!AnnouncementAction, Ann
<1> HIDE DEF t, w
<1>8. /\ u \in NodeState /\ u.parent = p /\ u.announcements = t.announcements
      /\ u.waiting = s.waiting /\ u.proto = None
  BY <1>0, <1>3, SetParentType
<1> HIDE DEF u, do, loop, r, last
<1>9. last \in Stored /\ last.root \in Nat /\ last.seq \in Nat
      /\ stored.root \in Nat /\ stored.seq \in Nat /\ last.root >= n
  <2>1. last \in Stored
    BY AnnType DEF last
  <2>2. last.root >= n
    <3>1. s.parent = NoPeer => last.root = n
      BY AnnType DEF last
    <3>2. s.parent # NoPeer => last.root >= n
      BY AnnType DEF last, SoundNode, GoodParent
    <3>3. QED
      BY <1>0, <3>1, <3>2
  <2>3. QED
    BY <1>1, <2>1, <2>2, StoredType
<1>10. NoDoubleSignatures(n, t)
  BY <1>2, <1>4 DEF SoundNode, NoDoubleSignatures
<1>11. /\ s.parent # NoPeer =>
            /\ s.parent \in peers /\ ~s.waiting /\ s.announcements[s.parent] # NoAnn
            /\ last = s.announcements[s.parent]
       /\ ~s.waiting => \A q \in peers :
            (s.announcements[q] # NoAnn /\ ~Tree(n)!HasSigned(s.announcements[q], n))
              => s.announcements[q].root <= last.root
  BY AnnType DEF SoundNode, GoodParent, NoBetterKnown, last
<1>12. ASSUME NEW q \in peers, q # p, ~s.waiting, t.announcements[q] # NoAnn,
              ~Tree(n)!HasSigned(t.announcements[q], n)
       PROVE  t.announcements[q].root <= last.root /\ t.announcements[q].root \in Nat
  <2>1. t.announcements[q] = s.announcements[q] /\ s.announcements[q] \in Stored
    BY <1>4, <1>12 DEF NodeState
  <2>2. QED
    BY <1>11, <1>12, <2>1, StoredType
<1>13. s.parent # p => Ann(n, t) = last
  <2> SUFFICES ASSUME s.parent # p PROVE Ann(n, t) = Ann(n, s)
    BY DEF last
  <2>1. s.parent # NoPeer => t.announcements[s.parent] = s.announcements[s.parent]
    BY <1>4 DEF NodeState
  <2>2. t.parent = s.parent /\ t.sequence = s.sequence
    BY <1>3
  <2>3. QED
    BY <2>1, <2>2, AnnOfSame
<1>14. s.parent # p /\ s.parent # NoPeer => GoodParent(n, t, peers)
  <2>1. s.parent # p /\ s.parent # NoPeer =>
          t.announcements[s.parent] = s.announcements[s.parent]
    BY <1>4 DEF NodeState
  <2>2. QED
    BY <1>3, <2>1 DEF SoundNode, GoodParent
<1>15. ASSUME ~loop, stored.root >= last.root, ~s.waiting,
              NEW v \in NodeState, v.parent = p, v.announcements = t.announcements,
              v.waiting = s.waiting
       PROVE  SoundNode(n, v, peers)
  <2>1. Ann(n, v) = stored
    BY <1>0, <1>1, <1>4, <1>15, AnnType
  <2>2. GoodParent(n, v, peers)
    <3>1. stored.root >= n
      BY <1>0, <1>9, <1>15
    <3>2. QED
      BY <1>1, <1>2, <1>4, <1>15, <3>1 DEF GoodParent
  <2>3. NoBetterKnown(n, v, peers)
    <3>1. ASSUME NEW q \in peers, v.announcements[q] # NoAnn,
                 ~Tree(n)!HasSigned(v.announcements[q], n)
          PROVE  v.announcements[q].root <= stored.root
      <4>1. CASE q = p
        BY <1>4, <1>9, <1>15, <4>1
      <4>2. CASE q # p
        BY <1>9, <1>12, <1>15, <3>1, <4>2
      <4>3. QED
        BY <4>1, <4>2
    <3>2. QED
      BY <2>1, <3>1 DEF NoBetterKnown
  <2>4. QED
    BY <1>10, <1>15, <2>2, <2>3 DEF SoundNode, NoDoubleSignatures
<1>16. ASSUME do = "AcceptUpdate" PROVE Fine
  <2>1. p = s.parent /\ ~loop /\ stored.root >= last.root /\ ~s.waiting
    BY <1>1, <1>7, <1>9, <1>16 DEF Tree!DetermineAnnouncementAction
  <2>2. SoundNode(n, t, peers)
    BY <1>3, <1>15, <2>1
  <2>3. r \in NodeState /\ SameBut(t, r) /\ Pushes(n, r, peers)
    BY <1>3, <1>6, <1>16, SendTreeAnnouncementsPushes
  <2>4. SoundNode(n, r, peers)
    BY <2>2, <2>3, SoundOfSame
  <2>5. QED
    BY <1>3, <2>3, <2>4, PushesAnnounces DEF SameBut
<1>17. ASSUME do = "AcceptNewParent" PROVE Fine
  <2>1. ~loop /\ stored.root >= last.root /\ ~s.waiting
    BY <1>1, <1>7, <1>9, <1>17 DEF Tree!DetermineAnnouncementAction
  <2>2. SoundNode(n, u, peers)
    BY <1>8, <1>15, <2>1
  <2>3. r \in NodeState /\ SameBut(u, r) /\ Pushes(n, r, peers)
    BY <1>6, <1>8, <1>17, SendTreeAnnouncementsPushes
  <2>4. SoundNode(n, r, peers)
    BY <2>2, <2>3, SoundOfSame
  <2>5. QED
    BY <1>3, <1>8, <2>3, <2>4, PushesAnnounces DEF SameBut
<1>18. ASSUME do = "SelectNewParent" PROVE Fine
  <2>1. s.parent # p /\ ~s.waiting
    BY <1>7, <1>18 DEF Tree!DetermineAnnouncementAction
  <2>2. r = Tree(n)!SelectNewParent(t, peers)
    BY <1>6, <1>18
  <2>3. /\ r \in NodeState /\ r.announcements = t.announcements /\ SoundNode(n, r, peers)
        /\ r = t \/ Pushes(n, r, peers)
    BY <1>3, <1>10, <1>14, <2>1, <2>2, SelectNewParentSound
  <2>4. r = t => Announces(n, s, r, peers)
    BY <1>3, <1>13, <2>1, SilenceAnnounces DEF last
  <2>5. QED
    BY <1>3, <2>3, <2>4, PushesAnnounces
<1>19. ASSUME do = "SelectNewParentWithWait" PROVE Fine
  <2>1. s.parent # NoPeer
    BY <1>0, <1>7, <1>19 DEF Tree!DetermineAnnouncementAction
  <2>2. r = Tree(n)!BecomeRoot(w, peers)
    BY <1>6, <1>19
  <2>3. /\ r \in NodeState /\ r.parent = NoPeer /\ r.announcements = t.announcements
        /\ r.waiting /\ Pushes(n, r, peers)
    BY <1>5, <2>1, <2>2, BecomeRootPushes
  <2>4. SoundNode(n, r, peers)
    BY <1>10, <2>3 DEF SoundNode, NoDoubleSignatures
  <2>5. QED
    BY <1>3, <2>3, <2>4, PushesAnnounces
<1>20. ASSUME do \in {"InformPeerOfStrongerRoot", "DropFrame", "Saved"} PROVE Fine
  <2>1. s.parent # p
    <3> SUFFICES ASSUME s.parent = p PROVE FALSE
      OBVIOUS
    <3>1. ~s.waiting /\ last = s.announcements[p] /\ s.announcements[p] # NoAnn
      BY <1>0, <1>11
    <3>2. a.root = last.root /\ a.seq < last.seq
      BY <1>1, <1>7, <1>9, <1>20, <3>1 DEF Tree!DetermineAnnouncementAction
    <3>3. QED
      BY <1>1, <1>9, <3>1, <3>2 DEF Tree!Refused
  <2>2. ~s.waiting => loop \/ stored.root <= last.root
    <3>1. ~s.waiting => do = Tree(n)!DetermineAnnouncementAction(FALSE, loop, a, last)
      BY <1>7, <2>1
    <3>2. QED
      BY <1>1, <1>9, <1>20, <3>1 DEF Tree!DetermineAnnouncementAction
  <2>3. ~s.waiting => NoBetterKnown(n, t, peers)
    <3>1. ASSUME ~s.waiting, NEW q \in peers, t.announcements[q] # NoAnn,
                 ~Tree(n)!HasSigned(t.announcements[q], n)
          PROVE  t.announcements[q].root <= last.root
      <4>1. CASE q = p
        BY <1>2, <1>4, <2>2, <3>1, <4>1
      <4>2. CASE q # p
        BY <1>12, <3>1, <4>2
      <4>3. QED
        BY <4>1, <4>2
    <3>2. QED
      BY <1>13, <2>1, <3>1 DEF NoBetterKnown
  <2>4. SoundNode(n, t, peers)
    BY <1>3, <1>10, <1>11, <1>14, <2>1, <2>3 DEF SoundNode
  <2>5. r = t \/ r = Tree(n)!SendTo(t, Ann(n, t), {p})
    BY <1>6, <1>13, <1>20, <2>1 DEF last
  <2>6. CASE r = t
    <3>1. Announces(n, s, r, peers)
      BY <1>3, <1>13, <2>1, <2>6, SilenceAnnounces DEF last
    <3>2. QED
      BY <1>3, <2>4, <2>6, <3>1
  <2>7. CASE r = Tree(n)!SendTo(t, Ann(n, t), {p})
    <3>1. /\ r \in NodeState /\ SameBut(t, r) /\ Pushes(n, r, {p})
          /\ Ann(n, r) = Ann(n, t)
      BY <1>0, <1>3, <2>7, SendToPushes
    <3>2. AsUpdate(Ann(n, r)) = AsUpdate(Ann(n, s))
      BY <1>13, <2>1, <3>1 DEF last
    <3>3. Announces(n, s, r, peers)
      BY <1>0, <3>1, <3>2 DEF Announces
    <3>4. SoundNode(n, r, peers)
      BY <2>4, <3>1, SoundOfSame
    <3>5. QED
      BY <1>3, <3>1, <3>3, <3>4 DEF SameBut
  <2>8. QED
    BY <2>5, <2>6, <2>7
<1>21. do \in {"AcceptUpdate", "AcceptNewParent", "SelectNewParent",
               "SelectNewParentWithWait", "InformPeerOfStrongerRoot", "DropFrame", "Saved"}
  <2>1. Tree(n)!DetermineAnnouncementAction(p = s.parent, loop, a, last) \in
          {"AcceptUpdate", "AcceptNewParent", "SelectNewParent",
           "SelectNewParentWithWait", "InformPeerOfStrongerRoot", "DropFrame"}
    BY DEF Tree!DetermineAnnouncementAction
  <2>2. QED
    BY <1>7, <2>1
<1>22. Fine
  BY <1>16, <1>17, <1>18, <1>19, <1>20, <1>21
<1>23. QED
  BY <1>22 DEF r, stored

(* The end of a wait.                                                       *)
LEMMA EndWaitSound ==
  ASSUME NEW n \in Node, NEW s \in NodeState, s.proto = None, NEW peers \in SUBSET Peers,
         SoundNode(n, s, peers), s.waiting
  PROVE  LET r == Tree(n)!EndWait(s, peers) IN
         /\ r \in NodeState /\ SoundNode(n, r, peers) /\ Announces(n, s, r, peers)
         /\ r.announcements = s.announcements
<1> DEFINE t == [s EXCEPT !.waiting = FALSE]
           r == Tree(n)!EndWait(s, peers)
<1>1. /\ t \in NodeState /\ t.parent = s.parent /\ t.sequence = s.sequence /\ ~t.waiting
      /\ t.announcements = s.announcements /\ t.proto = None
  BY DEF NodeState
<1>2. r = Tree(n)!SelectNewParent(t, peers)
  BY DEF Tree!EndWait
<1> HIDE DEF t, r
<1>3. NoDoubleSignatures(n, t) /\ t.parent = NoPeer
  BY <1>1 DEF SoundNode, NoDoubleSignatures
<1>4. /\ r \in NodeState /\ r.announcements = t.announcements /\ SoundNode(n, r, peers)
      /\ r = t \/ Pushes(n, r, peers)
  BY <1>1, <1>2, <1>3, SelectNewParentSound
<1>5. Ann(n, t) = Ann(n, s)
  BY <1>1, AnnOfSame
<1>6. Announces(n, s, r, peers)
  BY <1>1, <1>4, <1>5, PushesAnnounces, SilenceAnnounces
<1>7. QED
  BY <1>1, <1>4, <1>6 DEF r

(* The maintenance of the tree.                                             *)
LEMMA MaintainTreeSound ==
  ASSUME NEW n \in Node, NEW s \in NodeState, s.proto = None, NEW peers \in SUBSET Peers,
         SoundNode(n, s, peers), s.parent = NoPeer
  PROVE  LET r == Tree(n)!MaintainTree(s, peers) IN
         /\ r \in NodeState /\ SoundNode(n, r, peers) /\ Announces(n, s, r, peers)
         /\ r.announcements = s.announcements
<1> DEFINE r == Tree(n)!MaintainTree(s, peers)
<1>1. /\ r \in NodeState /\ r.parent = NoPeer /\ r.announcements = s.announcements
      /\ r.waiting = s.waiting /\ Pushes(n, r, peers)
  BY MaintainTreePushes
<1> HIDE DEF r
<1>2. Ann(n, r).root = n /\ Ann(n, s).root = n
  BY <1>1, AnnType
<1>3. SoundNode(n, r, peers)
  BY <1>1, <1>2 DEF SoundNode, NoDoubleSignatures, NoBetterKnown
<1>4. QED
  BY <1>1, <1>3, PushesAnnounces DEF r

(* The clean-up of a peer.                                                  *)
LEMMA PortDisconnectedSound ==
  ASSUME NEW n \in Node, NEW s \in NodeState, s.proto = None, NEW peers \in SUBSET Peers,
         SoundNode(n, s, peers), NEW p \in Peers
  PROVE  LET rest == peers \ {p}
             r == Tree(n)!PortDisconnected(s, p, rest)
         IN
         /\ r \in NodeState /\ SoundNode(n, r, rest) /\ Announces(n, s, r, rest)
         /\ \A q \in rest : r.announcements[q] = s.announcements[q]
         /\ r.announcements[p] = NoAnn
         /\ \A q \in Peers : r.announcements[q] \in {s.announcements[q], NoAnn}
<1> DEFINE rest == peers \ {p}
           t == [s EXCEPT !.announcements[p] = NoAnn]
           r == Tree(n)!PortDisconnected(s, p, rest)
           Fine == /\ r \in NodeState /\ SoundNode(n, r, rest) /\ Announces(n, s, r, rest)
                   /\ \A q \in rest : r.announcements[q] = s.announcements[q]
                   /\ r.announcements[p] = NoAnn
                   /\ \A q \in Peers : r.announcements[q] \in {s.announcements[q], NoAnn}
<1>1. /\ t \in NodeState /\ t.parent = s.parent /\ t.sequence = s.sequence
      /\ t.waiting = s.waiting /\ t.proto = None
      /\ t.announcements = [s.announcements EXCEPT ![p] = NoAnn]
  BY DEF NodeState
<1>2. /\ t.announcements[p] = NoAnn /\ p # NoPeer
      /\ \A q \in Peers \ {p} : t.announcements[q] = s.announcements[q]
  BY <1>1, PeersAreFinite DEF NodeState
<1>3. r = IF rest = {} THEN Tree(n)!Start(s)
          ELSE IF s.parent = p THEN Tree(n)!SelectNewParent(t, rest) ELSE t
  BY DEF Tree!PortDisconnected
<1>4. rest \in SUBSET Peers /\ rest \subseteq peers /\ p \notin rest
  OBVIOUS
<1> HIDE DEF t, r, rest
<1>5. NoDoubleSignatures(n, t)
  BY <1>2 DEF SoundNode, NoDoubleSignatures
<1>6. ASSUME rest = {} PROVE Fine
  <2>1. r = Tree(n)!Start(s)
    BY <1>3, <1>6
  <2>2. r = [parent |-> NoPeer, announcements |-> [q \in Peers |-> NoAnn],
             ordering |-> 0, sequence |-> s.sequence, waiting |-> FALSE, coordsCache |-> {},
             proto |-> None]
    BY <2>1 DEF Tree!Start, Tree!InitialState, NodeState
  <2>3. r \in NodeState /\ r.parent = NoPeer /\ r.proto = None
        /\ \A q \in Peers : r.announcements[q] = NoAnn
    <3>1. None \in [Peers -> Seq(Update)]
      BY DEF None
    <3> HIDE DEF None
    <3>2. QED
      BY <2>2, <3>1 DEF NodeState
  <2>4. SoundNode(n, r, rest)
    BY <1>6, <2>3 DEF SoundNode, NoDoubleSignatures, NoBetterKnown
  <2>5. Announces(n, s, r, rest)
    <3>1. Pushes(n, r, {})
      BY <2>3 DEF Pushes, None
    <3>2. QED
      BY <1>6, <3>1 DEF Announces
  <2>6. QED
    BY <1>6, <2>3, <2>4, <2>5
<1>7. ASSUME rest # {}, s.parent = p PROVE Fine
  <2>1. t.parent = p /\ ~t.waiting
    BY <1>1, <1>2, <1>7 DEF SoundNode
  <2>2. r = Tree(n)!SelectNewParent(t, rest)
    BY <1>3, <1>7
  <2>3. /\ r \in NodeState /\ r.announcements = t.announcements /\ SoundNode(n, r, rest)
        /\ Pushes(n, r, rest)
    BY <1>1, <1>2, <1>4, <1>5, <2>1, <2>2, SelectNewParentSound
  <2>4. QED
    BY <1>2, <1>4, <2>3, PushesAnnounces
<1>8. ASSUME rest # {}, s.parent # p PROVE Fine
  <2>1. r = t
    BY <1>3, <1>8
  <2>2. s.parent # NoPeer => t.announcements[s.parent] = s.announcements[s.parent]
    BY <1>2, <1>8 DEF NodeState
  <2>3. Ann(n, t) = Ann(n, s)
    BY <1>1, <2>2, AnnOfSame
  <2>4. s.parent # NoPeer => GoodParent(n, t, rest) /\ ~t.waiting
    BY <1>1, <1>8, <2>2 DEF SoundNode, GoodParent, rest
  <2>5. ~t.waiting => NoBetterKnown(n, t, rest)
    BY <1>1, <1>2, <1>4, <2>3 DEF SoundNode, NoBetterKnown
  <2>6. SoundNode(n, t, rest)
    BY <1>1, <1>5, <2>4, <2>5 DEF SoundNode
  <2>7. Announces(n, s, t, rest)
    BY <1>1, <2>3, SilenceAnnounces
  <2>8. QED
    BY <1>1, <1>2, <1>4, <2>1, <2>6, <2>7
<1>9. Fine
  BY <1>6, <1>7, <1>8
<1>10. QED
  BY <1>9 DEF r, rest

(* Renumbering the entries changes nothing that is announced or judged.     *)
LEMMA RenumberKeeps ==
  ASSUME NEW n \in Node, NEW s \in NodeState, NEW peers \in SUBSET Peers
  PROVE  LET r == Renumber(s) IN
         /\ r \in NodeState /\ r.proto = None
         /\ AsUpdate(Ann(n, r)) = AsUpdate(Ann(n, s))
         /\ SoundNode(n, s, peers) => SoundNode(n, r, peers)
         /\ \A p \in Peers :
              /\ s.announcements[p] = NoAnn <=> r.announcements[p] = NoAnn
              /\ s.announcements[p] # NoAnn =>
                   AsUpdate(r.announcements[p]) = AsUpdate(s.announcements[p])
<1> DEFINE stored == { p \in Peers : s.announcements[p] # NoAnn }
           rank(p) == Cardinality({ q \in stored :
                        s.announcements[q].order <= s.announcements[p].order })
           entries == [p \in Peers |->
             IF p \in stored THEN [s.announcements[p] EXCEPT !.order = rank(p)] ELSE NoAnn]
           r == Renumber(s)
<1>1. Cardinality(stored) \in Nat /\ \A p \in Peers : rank(p) \in Nat
  <2>1. IsFiniteSet(stored)
    BY PeersAreFinite, FS_Subset
  <2>2. ASSUME NEW p \in Peers
        PROVE  rank(p) \in Nat
    <3>1. IsFiniteSet({ q \in stored : s.announcements[q].order <= s.announcements[p].order })
      BY <2>1, FS_Subset
    <3>2. QED
      BY <3>1, FS_CardinalityType
  <2>3. QED
    BY <2>1, <2>2, FS_CardinalityType
<1>2. r = [s EXCEPT !.proto = None, !.ordering = Cardinality(stored), !.announcements = entries]
  BY DEF Renumber
<1> HIDE DEF rank, r
<1>3. ASSUME NEW p \in Peers
      PROVE  /\ entries[p] \in Stored \cup {NoAnn}
             /\ s.announcements[p] = NoAnn <=> entries[p] = NoAnn
             /\ s.announcements[p] # NoAnn =>
                  AsUpdate(entries[p]) = AsUpdate(s.announcements[p])
  <2>1. CASE s.announcements[p] = NoAnn
    BY <2>1
  <2>2. CASE s.announcements[p] # NoAnn
    <3>1. s.announcements[p] \in Stored /\ rank(p) \in Nat
      BY <1>1, <2>2 DEF NodeState
    <3>2. entries[p] = [s.announcements[p] EXCEPT !.order = rank(p)]
      BY <2>2
    <3> HIDE DEF entries
    <3>3. entries[p] \in Stored /\ AsUpdate(entries[p]) = AsUpdate(s.announcements[p])
      BY <3>1, <3>2 DEF Stored, AsUpdate
    <3>4. QED
      BY <2>2, <3>3, PeersAreFinite
  <2>3. QED
    BY <2>1, <2>2
<1>4. entries \in [Peers -> Stored \cup {NoAnn}]
  <2>1. \A p \in Peers : entries[p] \in Stored \cup {NoAnn}
    BY <1>3
  <2>2. entries = [p \in Peers |-> entries[p]]
    OBVIOUS
  <2> HIDE DEF entries
  <2>3. QED
    BY <2>1, <2>2
<1> HIDE DEF entries, stored
<1>5. None \in [Peers -> Seq(Update)]
  BY DEF None
<1>6. /\ r \in NodeState /\ r.proto = None /\ r.announcements = entries
      /\ r.parent = s.parent /\ r.sequence = s.sequence /\ r.waiting = s.waiting
  BY <1>1, <1>2, <1>4, <1>5 DEF NodeState
<1>7. AsUpdate(Ann(n, r)) = AsUpdate(Ann(n, s))
  <2>1. CASE s.parent = NoPeer
    BY <1>6, <2>1, AnnOfSame
  <2>2. CASE s.parent # NoPeer
    <3>1. s.parent \in Peers
      BY <2>2 DEF NodeState
    <3>2. CASE s.announcements[s.parent] = NoAnn
      BY <1>3, <1>6, <3>1, <3>2, AnnOfSame
    <3>3. CASE s.announcements[s.parent] # NoAnn
      BY <1>3, <1>6, <2>2, <3>1, <3>3, AnnType
    <3>4. QED
      BY <3>2, <3>3
  <2>3. QED
    BY <2>1, <2>2
<1>8. ASSUME NEW p \in Peers, s.announcements[p] # NoAnn
      PROVE  /\ entries[p].root = s.announcements[p].root
             /\ Tree(n)!HasSigned(entries[p], n) <=> Tree(n)!HasSigned(s.announcements[p], n)
             /\ Tree(n)!SignedTwice(entries[p]) <=> Tree(n)!SignedTwice(s.announcements[p])
  <2>1. AsUpdate(entries[p]) = AsUpdate(s.announcements[p])
    BY <1>3, <1>8
  <2>2. entries[p].root = s.announcements[p].root /\ entries[p].sigs = s.announcements[p].sigs
    BY <2>1 DEF AsUpdate
  <2>3. QED
    BY <2>2 DEF Tree!HasSigned, Tree!SignedTwice, Tree!Elements
<1>9. Ann(n, r).root = Ann(n, s).root
  BY <1>7 DEF AsUpdate
<1>10. ASSUME SoundNode(n, s, peers) PROVE SoundNode(n, r, peers)
  <2>1. NoDoubleSignatures(n, r)
    BY <1>3, <1>6, <1>8, <1>10 DEF SoundNode, NoDoubleSignatures
  <2>2. s.parent # NoPeer => GoodParent(n, r, peers) /\ ~r.waiting
    BY <1>3, <1>6, <1>8, <1>10 DEF SoundNode, GoodParent
  <2>3. ~r.waiting => NoBetterKnown(n, r, peers)
    BY <1>3, <1>6, <1>8, <1>9, <1>10 DEF SoundNode, NoBetterKnown
  <2>4. QED
    BY <1>6, <2>1, <2>2, <2>3 DEF SoundNode
<1>11. QED
  BY <1>3, <1>6, <1>7, <1>10 DEF r

----------------------------------------------------------------------------
(* The network.  The ends of a link are two routers, the lower key first.   *)
LEMMA LinkFacts ==
  /\ \A l \in Links : /\ l[1] \in Node /\ l[2] \in Node /\ l[1] < l[2] /\ l[1] # l[2]
                      /\ l = <<l[1], l[2]>>
                      /\ LinkOf(l[1], l[2]) = l /\ LinkOf(l[2], l[1]) = l
                      /\ Neighbour(l[1], l[2]) /\ Neighbour(l[2], l[1])
  /\ \A m \in Node, n \in Node : Neighbour(m, n) =>
       /\ m # n /\ LinkOf(m, n) \in Links /\ LinkOf(n, m) = LinkOf(m, n)
       /\ LinkOf(m, n) = <<m, n>> \/ LinkOf(m, n) = <<n, m>>
<1>1. ASSUME NEW l \in Links
      PROVE  /\ l[1] \in Node /\ l[2] \in Node /\ l[1] < l[2] /\ l[1] # l[2]
             /\ l = <<l[1], l[2]>>
             /\ LinkOf(l[1], l[2]) = l /\ LinkOf(l[2], l[1]) = l
             /\ Neighbour(l[1], l[2]) /\ Neighbour(l[2], l[1])
  <2>1. l \in Node \X Node /\ l[1] < l[2]
    BY LinksAreOrdered
  <2>2. l[1] \in Nat /\ l[2] \in Nat
    BY <2>1, NetworkAssumption
  <2>3. l = <<l[1], l[2]>> /\ l[1] \in Node /\ l[2] \in Node
    BY <2>1
  <2>4. ~(l[2] < l[1]) /\ l[1] # l[2]
    BY <2>1, <2>2
  <2>5. QED
    BY <2>1, <2>3, <2>4 DEF LinkOf, Neighbour
<1>2. ASSUME NEW m \in Node, NEW n \in Node, Neighbour(m, n)
      PROVE  /\ m # n /\ LinkOf(m, n) \in Links /\ LinkOf(n, m) = LinkOf(m, n)
             /\ LinkOf(m, n) = <<m, n>> \/ LinkOf(m, n) = <<n, m>>
  <2>1. m \in Nat /\ n \in Nat
    BY NetworkAssumption
  <2>2. CASE <<m, n>> \in Links
    <3>1. m < n
      BY <2>2, LinksAreOrdered
    <3>2. ~(n < m) /\ m # n
      BY <2>1, <3>1
    <3>3. QED
      BY <2>2, <3>1, <3>2 DEF LinkOf
  <2>3. CASE <<n, m>> \in Links
    <3>1. n < m
      BY <2>3, LinksAreOrdered
    <3>2. ~(m < n) /\ m # n
      BY <2>1, <3>1
    <3>3. QED
      BY <2>3, <3>1, <3>2 DEF LinkOf
  <2>4. QED
    BY <1>2, <2>2, <2>3 DEF Neighbour
<1>3. QED
  BY <1>1, <1>2

LEMMA PeerFacts ==
  ASSUME NEW p \in Peers
  PROVE  /\ p[1] \in Node /\ p[2] \in 1..MaxConnections /\ p = <<p[1], p[2]>>
         /\ \A k \in Node : <<k, p[2]>> \in Peers /\ <<k, p[2]>>[1] = k /\ <<k, p[2]>>[2] = p[2]
BY DEF Peers

(* What Become does to the states and the channels.                         *)
LEMMA BecomeEffect ==
  ASSUME NetworkTypes, NEW n \in Node, NEW r \in NodeState,
         NEW chans \in [Node -> [Peers -> Seq(Update)]], Become(n, r, chans)
  PROVE  /\ state' = [state EXCEPT ![n] = Renumber(r)]
         /\ state' \in [Node -> NodeState]
         /\ chan' \in [Node -> [Peers -> Seq(Update)]]
         /\ \A k \in Node, p \in Peers :
              chan'[k][p] = IF p[1] = n /\ p \in up'[k] THEN chans[k][p] \o r.proto[<<k, p[2]>>]
                                                        ELSE chans[k][p]
<1> DEFINE passed(k, p) == IF p[1] = n /\ p \in up'[k] THEN chans[k][p] \o r.proto[<<k, p[2]>>]
                                                       ELSE chans[k][p]
<1>1. /\ state' = [state EXCEPT ![n] = Renumber(r)]
      /\ chan' = IF r.proto = None THEN chans ELSE [k \in Node |-> [p \in Peers |-> passed(k, p)]]
  BY DEF Become
<1>2. state' \in [Node -> NodeState]
  BY <1>1, RenumberKeeps DEF NetworkTypes
<1>3. ASSUME NEW k \in Node, NEW p \in Peers
      PROVE  /\ passed(k, p) \in Seq(Update)
             /\ r.proto = None => passed(k, p) = chans[k][p]
  <2>1. <<k, p[2]>> \in Peers /\ chans[k][p] \in Seq(Update)
    BY PeerFacts
  <2>2. r.proto[<<k, p[2]>>] \in Seq(Update)
    BY <2>1 DEF NodeState
  <2>3. r.proto = None => r.proto[<<k, p[2]>>] = <<>>
    BY <2>1 DEF None
  <2>4. \A x, y \in Seq(Update) : x \o y \in Seq(Update) /\ x \o <<>> = x
    OBVIOUS
  <2>5. QED
    BY <2>1, <2>2, <2>3, <2>4
<1> HIDE DEF passed
<1>4. CASE r.proto = None
  BY <1>1, <1>2, <1>3, <1>4 DEF passed
<1>5. CASE r.proto # None
  <2>1. chan' = [k \in Node |-> [p \in Peers |-> passed(k, p)]]
    BY <1>1, <1>5
  <2>2. \A k \in Node, p \in Peers : chan'[k][p] = passed(k, p)
    BY <2>1
  <2>3. chan' \in [Node -> [Peers -> Seq(Update)]]
    BY <1>3, <2>1
  <2>4. QED
    BY <1>1, <1>2, <2>2, <2>3 DEF passed
<1>6. QED
  BY <1>4, <1>5

(* What is left of the invariant when one node has taken a step.            *)
Rest ==
  /\ state \in [Node -> NodeState]
  /\ up \in [Node -> SUBSET Peers]
  /\ chan \in [Node -> [Peers -> Seq(Update)]]
  /\ OnlyOfPeers /\ UpToDate
  /\ \A n \in Node : state[n].proto = None /\ SoundNode(n, state[n], up[n])

(* A task of node n ends in r, keeps `peers' of its peers and leaves the    *)
(* channels c to it; what n has of these peers is what it had.              *)
EndsTask(n, r, peers, c) ==
  /\ peers \subseteq up[n]
  /\ up' = [up EXCEPT ![n] = peers]
  /\ c \in [Peers -> Seq(Update)]
  /\ r \in NodeState
  /\ Become(n, r, [chan EXCEPT ![n] = c])
  /\ SoundNode(n, r, peers)
  /\ Announces(n, state[n], r, peers)
  /\ \A p \in Peers \ peers : r.announcements[p] = NoAnn /\ c[p] = <<>>
  /\ \A p \in peers : \A u \in Update :
       LatestIs(chan[n][p], state[n].announcements[p], u) => LatestIs(c[p], r.announcements[p], u)

(* Then what the others have of n is what r announces.                      *)
LEMMA TaskStep ==
  ASSUME NetworkIInv, NEW n \in Node, NEW r, NEW peers, NEW c, EndsTask(n, r, peers, c)
  PROVE  Rest'
<1> DEFINE chans == [chan EXCEPT ![n] = c]
<1>1. NetworkTypes /\ OneConnection /\ OnlyOfPeers /\ UpToDate
      /\ \A k \in Node : state[k].proto = None /\ SoundNode(k, state[k], up[k])
  BY DEF NetworkIInv
<1>2. /\ chans \in [Node -> [Peers -> Seq(Update)]]
      /\ chans[n] = c /\ \A k \in Node \ {n} : chans[k] = chan[k]
  BY <1>1 DEF NetworkTypes, EndsTask
<1>3. /\ Become(n, r, chans) /\ r \in NodeState /\ peers \subseteq up[n]
      /\ up' = [up EXCEPT ![n] = peers]
      /\ SoundNode(n, r, peers) /\ Announces(n, state[n], r, peers)
      /\ \A p \in Peers \ peers : r.announcements[p] = NoAnn /\ c[p] = <<>>
      /\ \A p \in peers : \A u \in Update :
           LatestIs(chan[n][p], state[n].announcements[p], u)
             => LatestIs(c[p], r.announcements[p], u)
  BY DEF EndsTask
<1> HIDE DEF chans
<1>4. /\ state' = [state EXCEPT ![n] = Renumber(r)]
      /\ state' \in [Node -> NodeState]
      /\ chan' \in [Node -> [Peers -> Seq(Update)]]
      /\ \A k \in Node, p \in Peers :
           chan'[k][p] = IF p[1] = n /\ p \in up'[k] THEN chans[k][p] \o r.proto[<<k, p[2]>>]
                                                     ELSE chans[k][p]
  BY <1>1, <1>2, <1>3, BecomeEffect
<1>5. state'[n] = Renumber(r) /\ \A k \in Node \ {n} : state'[k] = state[k]
  BY <1>1, <1>4 DEF NetworkTypes
<1>6. /\ up' \in [Node -> SUBSET Peers] /\ up'[n] = peers
      /\ \A k \in Node \ {n} : up'[k] = up[k]
      /\ \A k \in Node : up'[k] \subseteq up[k] /\ up[k] \subseteq Peers
  BY <1>1, <1>3 DEF NetworkTypes
<1>7. /\ Renumber(r).proto = None /\ SoundNode(n, Renumber(r), peers)
      /\ AsUpdate(Ann(n, Renumber(r))) = AsUpdate(Ann(n, r))
      /\ \A p \in Peers :
           /\ r.announcements[p] = NoAnn <=> Renumber(r).announcements[p] = NoAnn
           /\ r.announcements[p] # NoAnn =>
                AsUpdate(Renumber(r).announcements[p]) = AsUpdate(r.announcements[p])
  <2>1. peers \in SUBSET Peers
    BY <1>6
  <2>2. QED
    BY <1>3, <2>1, RenumberKeeps
<1>8. \A k \in Node : state'[k].proto = None /\ SoundNode(k, state'[k], up'[k])
  BY <1>1, <1>5, <1>6, <1>7
<1>9. OnlyOfPeers'
  <2>1. ASSUME NEW k \in Node, NEW p \in Peers \ up'[k]
        PROVE  state'[k].announcements[p] = NoAnn /\ chan'[k][p] = <<>>
    <3>1. chan'[k][p] = chans[k][p]
      BY <1>4, <2>1
    <3>2. CASE k = n
      BY <1>2, <1>3, <1>5, <1>6, <1>7, <2>1, <3>1, <3>2
    <3>3. CASE k # n
      <4>1. p \in Peers \ up[k] /\ state'[k] = state[k] /\ chans[k] = chan[k]
        BY <1>2, <1>5, <1>6, <2>1, <3>3
      <4>2. QED
        BY <1>1, <3>1, <4>1 DEF OnlyOfPeers
    <3>4. QED
      BY <3>2, <3>3
  <2>2. QED
    BY <2>1 DEF OnlyOfPeers
<1>10. ASSUME NEW k \in Node, NEW p \in up'[k], <<k, p[2]>> \in up'[p[1]]
       PROVE  LatestIs(chan'[k][p], state'[k].announcements[p],
                       Tree(p[1])!ForPeer(Ann(p[1], state'[p[1]]), <<k, p[2]>>))
  <2> DEFINE m == p[1]
             q == <<k, p[2]>>
             u == Tree(m)!ForPeer(Ann(m, state[m]), q)
  <2>1. /\ p \in Peers /\ p \in up[k] /\ m \in Node /\ q \in Peers /\ q \in up[m]
        /\ q[1] = k /\ q[2] = p[2]
    BY <1>6, <1>10, PeerFacts
  <2>2. m # k
    BY <1>1, <2>1, LinkFacts DEF OneConnection
  <2>3. LatestIs(chan[k][p], state[k].announcements[p], u)
    BY <1>1, <2>1 DEF UpToDate
  <2>4. u \in Update
    <3>1. state[m] \in NodeState
      BY <1>1, <2>1 DEF NetworkTypes
    <3>2. Ann(m, state[m]) \in Stored
      BY <2>1, <3>1, AnnType
    <3>3. QED
      BY <2>1, <3>2, ForPeerType
  <2>5. CASE m = n
    <3>1. /\ state'[k] = state[k] /\ chans[k] = chan[k] /\ q \in peers
          /\ state'[m] = Renumber(r)
          /\ chan'[k][p] = chan[k][p] \o r.proto[q]
      <4>1. state'[k] = state[k] /\ chans[k] = chan[k] /\ state'[m] = Renumber(r)
        BY <1>2, <1>5, <2>2, <2>5
      <4>2. q \in peers
        BY <1>6, <1>10, <2>5
      <4>3. chan'[k][p] = chans[k][p] \o r.proto[<<k, p[2]>>]
        BY <1>4, <1>10, <2>1, <2>5
      <4>4. QED
        BY <4>1, <4>2, <4>3
    <3>2. PICK to \in SUBSET Peers :
            /\ Pushes(n, r, to)
            /\ peers \subseteq to \/ AsUpdate(Ann(n, r)) = AsUpdate(Ann(n, state[n]))
      BY <1>3 DEF Announces
    <3> DEFINE v == Tree(n)!ForPeer(Ann(n, r), q)
    <3>3. Tree(m)!ForPeer(Ann(m, state'[m]), q) = v
      BY <1>7, <2>5, <3>1, ForPeerOfSame
    <3>4. chan[k][p] \in Seq(Update) /\ v \in Update
      <4>1. Ann(n, r) \in Stored
        BY <1>3, AnnType
      <4>2. v \in Update
        BY <2>1, <4>1, ForPeerType
      <4>3. QED
        BY <1>1, <2>1, <4>2 DEF NetworkTypes
    <3>5. CASE q \in to
      <4>1. r.proto[q] = <<v>>
        BY <2>1, <3>2, <3>5 DEF Pushes
      <4>2. \A x \in Seq(Update), y \in Update :
              /\ x \o <<y>> # <<>>
              /\ (x \o <<y>>)[Len(x \o <<y>>)] = y
        OBVIOUS
      <4> HIDE DEF v
      <4>3. chan'[k][p] # <<>> /\ chan'[k][p][Len(chan'[k][p])] = v
        BY <3>1, <3>4, <4>1, <4>2
      <4>4. QED
        BY <3>3, <4>3 DEF LatestIs
    <3>6. CASE q \notin to
      <4>1. r.proto[q] = <<>> /\ AsUpdate(Ann(n, r)) = AsUpdate(Ann(n, state[n]))
        BY <2>1, <3>1, <3>2, <3>6 DEF Pushes
      <4>2. v = u
        BY <2>5, <4>1, ForPeerOfSame
      <4>3. \A x \in Seq(Update) : x \o <<>> = x
        OBVIOUS
      <4>4. chan'[k][p] = chan[k][p]
        BY <3>1, <3>4, <4>1, <4>3
      <4> HIDE DEF u, v
      <4>5. QED
        BY <2>3, <3>1, <3>3, <4>2, <4>4
    <3>7. QED
      BY <3>5, <3>6
  <2>6. CASE m # n
    <3>1. state'[m] = state[m] /\ chan'[k][p] = chans[k][p]
      BY <1>4, <1>5, <2>1, <2>6
    <3>2. CASE k = n
      <4>1. p \in peers /\ chan'[k][p] = c[p] /\ state'[k] = Renumber(r)
        BY <1>2, <1>5, <1>6, <1>10, <3>1, <3>2
      <4> HIDE DEF u
      <4>2. LatestIs(c[p], r.announcements[p], u)
        BY <1>3, <2>3, <2>4, <3>2, <4>1
      <4>3. LatestIs(c[p], Renumber(r).announcements[p], u)
        BY <1>7, <2>1, <4>2 DEF LatestIs
      <4>4. QED
        BY <3>1, <4>1, <4>3 DEF u
    <3>3. CASE k # n
      <4>1. state'[k] = state[k] /\ chan'[k][p] = chan[k][p]
        BY <1>2, <1>5, <3>1, <3>3
      <4>2. QED
        BY <2>3, <3>1, <4>1
    <3>4. QED
      BY <3>2, <3>3
  <2>7. QED
    BY <2>5, <2>6
<1>11. UpToDate'
  BY <1>10 DEF UpToDate
<1>12. QED
  BY <1>4, <1>6, <1>8, <1>9, <1>11 DEF Rest

----------------------------------------------------------------------------
(* The actions.                                                             *)
LEMMA InitNetwork == Init => NetworkIInv
<1> SUFFICES ASSUME Init PROVE NetworkIInv
  OBVIOUS
<1>1. ASSUME NEW n \in Node
      PROVE  /\ state[n] \in NodeState /\ state[n].parent = NoPeer /\ state[n].proto = None
             /\ \A p \in Peers : state[n].announcements[p] = NoAnn
  <2>1. state[n] = [parent |-> NoPeer, announcements |-> [q \in Peers |-> NoAnn],
                    ordering |-> 0, sequence |-> 0, waiting |-> FALSE, coordsCache |-> {},
                    proto |-> None]
    BY DEF Init, Tree!InitialState, None
  <2>2. None \in [Peers -> Seq(Update)]
    BY DEF None
  <2> HIDE DEF None
  <2>3. QED
    BY <2>1, <2>2 DEF NodeState
<1>2. /\ up \in [Node -> SUBSET Peers] /\ \A n \in Node : up[n] = {}
      /\ made \in [Links -> 0..MaxConnections] /\ \A l \in Links : made[l] = 0
      /\ broken \in SUBSET Links
  BY NetworkAssumption DEF Init
<1>3. chan \in [Node -> [Peers -> Seq(Update)]] /\ \A n \in Node, p \in Peers : chan[n][p] = <<>>
  BY DEF Init, None
<1>4. NetworkTypes
  <2>1. state = [n \in Node |-> state[n]]
    BY DEF Init
  <2>2. state \in [Node -> NodeState]
    BY <1>1, <2>1
  <2>3. QED
    BY <1>2, <1>3, <2>2 DEF NetworkTypes
<1>5. OneConnection /\ OnlyOfPeers /\ UpToDate
  BY <1>1, <1>2, <1>3 DEF OneConnection, OnlyOfPeers, UpToDate
<1>6. \A n \in Node : SoundNode(n, state[n], up[n])
  BY <1>1, <1>2 DEF SoundNode, NoDoubleSignatures, NoBetterKnown
<1>7. QED
  BY <1>1, <1>4, <1>5, <1>6 DEF NetworkIInv

LEMMA InvariantFromRest ==
  ASSUME NetworkIInv, Rest', OneConnection', made' = made, broken' \in SUBSET Links
  PROVE  NetworkIInv'
BY DEF NetworkIInv, NetworkTypes, Rest

(* A task that leaves the peers of its node and what is on its way to them. *)
LEMMA QuietTask ==
  ASSUME NetworkIInv, NEW n \in Node, NEW r \in NodeState, Become(n, r, chan),
         SoundNode(n, r, up[n]), Announces(n, state[n], r, up[n]),
         r.announcements = state[n].announcements,
         up' = up, made' = made, broken' = broken
  PROVE  NetworkIInv'
<1>1. /\ chan \in [Node -> [Peers -> Seq(Update)]] /\ up \in [Node -> SUBSET Peers]
      /\ broken \in SUBSET Links /\ OneConnection /\ OnlyOfPeers
  BY DEF NetworkIInv, NetworkTypes
<1>2. chan = [chan EXCEPT ![n] = chan[n]] /\ up = [up EXCEPT ![n] = up[n]]
  BY <1>1
<1>3. Become(n, r, [chan EXCEPT ![n] = chan[n]])
  BY <1>2
<1>4. up' = [up EXCEPT ![n] = up[n]] /\ chan[n] \in [Peers -> Seq(Update)]
  BY <1>1, <1>2
<1>5. \A p \in Peers \ up[n] : r.announcements[p] = NoAnn /\ chan[n][p] = <<>>
  BY <1>1 DEF OnlyOfPeers
<1>6. EndsTask(n, r, up[n], chan[n])
  BY <1>3, <1>4, <1>5 DEF EndsTask
<1>7. Rest'
  BY <1>6, TaskStep
<1>8. OneConnection'
  BY <1>1 DEF OneConnection
<1>9. QED
  BY <1>1, <1>7, <1>8, InvariantFromRest

LEMMA EndWaitStep == ASSUME NetworkIInv, NEW n \in Node, EndWait(n) PROVE NetworkIInv'
<1> DEFINE r == Tree(n)!EndWait(state[n], up[n])
<1>1. state[n] \in NodeState /\ up[n] \in SUBSET Peers /\ state[n].proto = None
      /\ SoundNode(n, state[n], up[n])
  BY DEF NetworkIInv, NetworkTypes
<1>2. /\ r \in NodeState /\ SoundNode(n, r, up[n]) /\ Announces(n, state[n], r, up[n])
      /\ r.announcements = state[n].announcements
  BY <1>1, EndWaitSound DEF EndWait
<1>3. Become(n, r, chan) /\ up' = up /\ made' = made /\ broken' = broken
  BY DEF EndWait
<1> HIDE DEF r
<1>4. QED
  BY <1>2, <1>3, QuietTask

LEMMA MaintainTreeStep == ASSUME NetworkIInv, NEW n \in Node, MaintainTree(n) PROVE NetworkIInv'
<1> DEFINE r == Tree(n)!MaintainTree(state[n], up[n])
<1>1. state[n] \in NodeState /\ up[n] \in SUBSET Peers /\ state[n].proto = None
      /\ SoundNode(n, state[n], up[n])
  BY DEF NetworkIInv, NetworkTypes
<1>2. /\ r \in NodeState /\ SoundNode(n, r, up[n]) /\ Announces(n, state[n], r, up[n])
      /\ r.announcements = state[n].announcements
  BY <1>1, MaintainTreeSound DEF MaintainTree
<1>3. Become(n, r, chan) /\ up' = up /\ made' = made /\ broken' = broken
  BY DEF MaintainTree
<1> HIDE DEF r
<1>4. QED
  BY <1>2, <1>3, QuietTask

(* The last element is the head of a sequence of one, and that of the tail  *)
(* of a longer one.                                                         *)
LEMMA LastOfTail ==
  ASSUME NEW x \in Seq(Update), x # <<>>
  PROVE  IF Tail(x) = <<>> THEN x[Len(x)] = Head(x)
         ELSE Tail(x)[Len(Tail(x))] = x[Len(x)]
<1> DEFINE t == Tail(x)
<1>1. /\ t \in Seq(Update) /\ Len(x) \in Nat /\ Len(t) = Len(x) - 1 /\ Head(x) = x[1]
      /\ \A k \in 1..Len(t) : t[k] = x[k + 1]
  OBVIOUS
<1> HIDE DEF t
<1>2. Len(t) \in Nat /\ (t = <<>> <=> Len(t) = 0)
  BY <1>1
<1>3. CASE t = <<>>
  BY <1>1, <1>2, <1>3 DEF t
<1>4. CASE t # <<>>
  <2>1. Len(t) \in 1..Len(t) /\ Len(t) + 1 = Len(x)
    BY <1>1, <1>2, <1>4
  <2>2. t[Len(t)] = x[Len(x)]
    BY <1>1, <2>1
  <2>3. QED
    BY <1>4, <2>2 DEF t
<1>5. QED
  BY <1>3, <1>4

(* The update that is handled moves from the channel into the table.        *)
LEMMA DeliverStep ==
  ASSUME NetworkIInv, NEW n \in Node, NEW p \in Peers, Deliver(n, p)
  PROVE  NetworkIInv'
<1> DEFINE a == Head(chan[n][p])
           c == [chan[n] EXCEPT ![p] = Tail(chan[n][p])]
           r == Tree(n)!HandleTreeAnnouncement(state[n], p, a, up[n])
           stored == Tree(n)!Store(a, state[n].ordering + 1)
<1>1. /\ state[n] \in NodeState /\ up[n] \in SUBSET Peers /\ state[n].proto = None
      /\ SoundNode(n, state[n], up[n])
      /\ chan \in [Node -> [Peers -> Seq(Update)]] /\ up \in [Node -> SUBSET Peers]
      /\ broken \in SUBSET Links /\ OneConnection /\ OnlyOfPeers
  BY DEF NetworkIInv, NetworkTypes
<1>2. /\ p \in up[n] /\ chan[n][p] # <<>> /\ ~Tree(n)!Refused(state[n], p, a)
      /\ up' = up /\ made' = made /\ broken' = broken
      /\ Become(n, r, [chan EXCEPT ![n][p] = Tail(chan[n][p])])
  BY DEF Deliver
<1>3. chan[n][p] \in Seq(Update) /\ a \in Update /\ Tail(chan[n][p]) \in Seq(Update)
  <2>1. \A k \in Node, q \in Peers : chan[k][q] \in Seq(Update)
    BY <1>1
  <2>2. chan[n][p] \in Seq(Update)
    BY <2>1
  <2>3. \A x \in Seq(Update) : x # <<>> => Head(x) \in Update /\ Tail(x) \in Seq(Update)
    OBVIOUS
  <2>4. QED
    BY <1>2, <2>2, <2>3
<1> HIDE DEF a
<1>4. /\ r \in NodeState /\ SoundNode(n, r, up[n]) /\ Announces(n, state[n], r, up[n])
      /\ r.announcements = [state[n].announcements EXCEPT ![p] = stored]
  <2>1. state[n] \in NodeState /\ up[n] \in SUBSET Peers /\ state[n].proto = None
        /\ SoundNode(n, state[n], up[n])
    BY <1>1
  <2>2. p \in up[n] /\ ~Tree(n)!Refused(state[n], p, a) /\ a \in Update
    BY <1>2, <1>3
  <2>3. QED
    BY <2>1, <2>2, HandleTreeAnnouncementSound
<1>5. /\ [chan EXCEPT ![n][p] = Tail(chan[n][p])] = [chan EXCEPT ![n] = c]
      /\ c \in [Peers -> Seq(Update)] /\ c[p] = Tail(chan[n][p])
      /\ \A q \in Peers \ {p} : c[q] = chan[n][q]
  BY <1>1, <1>3
<1>6. stored # NoAnn /\ AsUpdate(stored) = a
  <2>1. state[n].ordering + 1 \in Nat
    BY <1>1 DEF NodeState
  <2>2. stored \in Stored /\ stored.root = a.root /\ stored.seq = a.seq /\ stored.sigs = a.sigs
    BY <1>3, <2>1 DEF Tree!Store, Stored, Update
  <2> HIDE DEF stored
  <2>3. AsUpdate(stored) = [root |-> a.root, seq |-> a.seq, sigs |-> a.sigs]
    BY <2>2 DEF AsUpdate
  <2>4. a = [root |-> a.root, seq |-> a.seq, sigs |-> a.sigs]
    BY <1>3 DEF Update
  <2>5. QED
    BY <2>2, <2>3, <2>4, PeersAreFinite
<1> HIDE DEF c, r, stored
<1>7. r.announcements[p] = stored
      /\ \A q \in Peers \ {p} : r.announcements[q] = state[n].announcements[q]
  BY <1>1, <1>2, <1>4 DEF NodeState
<1>8. ASSUME NEW q \in up[n], NEW u \in Update,
             LatestIs(chan[n][q], state[n].announcements[q], u)
      PROVE  LatestIs(c[q], r.announcements[q], u)
  <2>1. CASE q = p
    <3>1. CASE c[p] = <<>>
      <4>1. chan[n][p][Len(chan[n][p])] = a
        BY <1>2, <1>3, <1>5, <3>1, LastOfTail DEF a
      <4>2. u = a
        BY <1>2, <1>8, <2>1, <4>1 DEF LatestIs
      <4>3. QED
        BY <1>6, <1>7, <2>1, <3>1, <4>2 DEF LatestIs
    <3>2. CASE c[p] # <<>>
      <4>1. c[p][Len(c[p])] = chan[n][p][Len(chan[n][p])]
        BY <1>2, <1>3, <1>5, <3>2, LastOfTail
      <4>2. QED
        BY <1>2, <1>8, <2>1, <3>2, <4>1 DEF LatestIs
    <3>3. QED
      BY <3>1, <3>2
  <2>2. CASE q # p
    <3>1. c[q] = chan[n][q] /\ r.announcements[q] = state[n].announcements[q]
      BY <1>1, <1>5, <1>7, <2>2
    <3>2. QED
      BY <1>8, <3>1
  <2>3. QED
    BY <2>1, <2>2
<1>9. \A q \in Peers \ up[n] : r.announcements[q] = NoAnn /\ c[q] = <<>>
  BY <1>1, <1>2, <1>5, <1>7 DEF OnlyOfPeers
<1>10. up' = [up EXCEPT ![n] = up[n]] /\ Become(n, r, [chan EXCEPT ![n] = c])
  BY <1>1, <1>2, <1>5
<1>11. Rest'
  <2>1. EndsTask(n, r, up[n], c)
    BY <1>4, <1>5, <1>8, <1>9, <1>10 DEF EndsTask
  <2>2. QED
    BY <2>1, TaskStep
<1>12. OneConnection'
  BY <1>1, <1>2 DEF OneConnection
<1>13. QED
  BY <1>1, <1>2, <1>11, <1>12, InvariantFromRest

(* A peer is dropped because its link has broken, or breaks it.             *)
LEMMA DropStep ==
  ASSUME NetworkIInv, NEW n \in Node, NEW p \in up[n], Drop(n, p), made' = made,
         broken' \in SUBSET Links, broken \subseteq broken', LinkOf(n, p[1]) \in broken'
  PROVE  NetworkIInv'
<1> DEFINE rest == up[n] \ {p}
           c == [chan[n] EXCEPT ![p] = <<>>]
           r == Tree(n)!PortDisconnected(state[n], p, rest)
<1>1. /\ state[n] \in NodeState /\ up[n] \in SUBSET Peers /\ state[n].proto = None
      /\ SoundNode(n, state[n], up[n])
      /\ chan \in [Node -> [Peers -> Seq(Update)]] /\ up \in [Node -> SUBSET Peers]
      /\ OneConnection /\ OnlyOfPeers
  BY DEF NetworkIInv, NetworkTypes
<1>2. up' = [up EXCEPT ![n] = rest] /\ Become(n, r, [chan EXCEPT ![n][p] = <<>>])
  BY DEF Drop
<1>3. p \in Peers /\ rest \in SUBSET Peers /\ rest \subseteq up[n] /\ p \notin rest
  BY <1>1
<1>4. /\ r \in NodeState /\ SoundNode(n, r, rest) /\ Announces(n, state[n], r, rest)
      /\ \A q \in rest : r.announcements[q] = state[n].announcements[q]
      /\ r.announcements[p] = NoAnn
      /\ \A q \in Peers : r.announcements[q] \in {state[n].announcements[q], NoAnn}
  BY <1>1, <1>3, PortDisconnectedSound
<1>5. /\ [chan EXCEPT ![n][p] = <<>>] = [chan EXCEPT ![n] = c]
      /\ c[p] = <<>> /\ \A q \in Peers \ {p} : c[q] = chan[n][q]
  BY <1>1, <1>3
<1>6. c \in [Peers -> Seq(Update)]
  <2>1. chan[n] \in [Peers -> Seq(Update)] /\ <<>> \in Seq(Update)
    BY <1>1
  <2>2. QED
    BY <2>1
<1> HIDE DEF c, r
<1>7. \A q \in Peers \ rest : r.announcements[q] = NoAnn /\ c[q] = <<>>
  <2>1. ASSUME NEW q \in Peers \ rest
        PROVE  r.announcements[q] = NoAnn /\ c[q] = <<>>
    <3>1. CASE q = p
      BY <1>4, <1>5, <3>1
    <3>2. CASE q # p
      <4>1. q \notin up[n]
        BY <2>1, <3>2
      <4>2. state[n].announcements[q] = NoAnn /\ chan[n][q] = <<>>
        BY <1>1, <2>1, <4>1 DEF OnlyOfPeers
      <4>3. QED
        BY <1>4, <1>5, <2>1, <3>2, <4>2
    <3>3. QED
      BY <3>1, <3>2
  <2>2. QED
    BY <2>1
<1>8. ASSUME NEW q \in rest, NEW u \in Update,
             LatestIs(chan[n][q], state[n].announcements[q], u)
      PROVE  LatestIs(c[q], r.announcements[q], u)
  <2>1. c[q] = chan[n][q] /\ r.announcements[q] = state[n].announcements[q]
    BY <1>3, <1>4, <1>5
  <2>2. QED
    BY <1>8, <2>1
<1>9. Become(n, r, [chan EXCEPT ![n] = c])
  BY <1>2, <1>5
<1> HIDE DEF rest
<1>10. Rest'
  <2>1. EndsTask(n, r, rest, c)
    BY <1>2, <1>3, <1>4, <1>6, <1>7, <1>8, <1>9 DEF EndsTask
  <2>2. QED
    BY <2>1, TaskStep
<1>11. /\ \A k \in Node : up'[k] \subseteq up[k]
       /\ \A k \in Node, q \in Peers : q \in up[k] /\ q \notin up'[k] => k = n /\ q = p
  BY <1>1, <1>2, <1>3 DEF rest
<1>12. OneConnection'
  <2>1. \A k \in Node : \A q \in up'[k] : Neighbour(k, q[1]) /\ q[2] = made'[LinkOf(k, q[1])]
    BY <1>1, <1>11 DEF OneConnection
  <2>2. ASSUME NEW l \in Links \ broken', made'[l] > 0
        PROVE  <<l[2], made'[l]>> \in up'[l[1]] /\ <<l[1], made'[l]>> \in up'[l[2]]
    <3>1. <<l[2], made[l]>> \in up[l[1]] /\ <<l[1], made[l]>> \in up[l[2]]
      BY <1>1, <2>2 DEF OneConnection
    <3>2. l[1] \in Node /\ l[2] \in Node /\ LinkOf(l[1], l[2]) = l /\ LinkOf(l[2], l[1]) = l
      BY LinkFacts
    <3>3. <<l[2], made[l]>> \in Peers /\ <<l[1], made[l]>> \in Peers
      BY <1>1, <3>1, <3>2
    <3>4. <<l[2], made[l]>> \in up'[l[1]]
      BY <1>11, <2>2, <3>1, <3>2, <3>3
    <3>5. <<l[1], made[l]>> \in up'[l[2]]
      BY <1>11, <2>2, <3>1, <3>2, <3>3
    <3>6. QED
      BY <3>4, <3>5
  <2>3. QED
    BY <2>1, <2>2 DEF OneConnection
<1>13. QED
  BY <1>10, <1>12, InvariantFromRest

(* A link comes up: at both ends there is a new peer, about to be told.     *)
LEMMA ConnectStep == ASSUME NetworkIInv, NEW l \in Links, Connect(l) PROVE NetworkIInv'
<1> DEFINE m == l[1]
           n == l[2]
           c == made[l] + 1
           toM == Tree(n)!ForPeer(Ann(n, state[n]), <<m, c>>)
           toN == Tree(m)!ForPeer(Ann(m, state[m]), <<n, c>>)
           New(k, q) == (k = m /\ q = <<n, c>>) \/ (k = n /\ q = <<m, c>>)
<1>1. /\ NetworkTypes /\ OneConnection /\ OnlyOfPeers /\ UpToDate
      /\ \A k \in Node : state[k].proto = None /\ SoundNode(k, state[k], up[k])
  BY DEF NetworkIInv
<1>2. /\ made[l] < MaxConnections
      /\ \A k \in 1..made[l] : <<n, k>> \notin up[m] /\ <<m, k>> \notin up[n]
      /\ made' = [made EXCEPT ![l] = c] /\ broken' = broken \ {l}
      /\ up' = [up EXCEPT ![m] = @ \cup {<<n, c>>}, ![n] = @ \cup {<<m, c>>}]
      /\ chan' = [chan EXCEPT ![m][<<n, c>>] = <<toM>>, ![n][<<m, c>>] = <<toN>>]
      /\ state' = state
  BY DEF Connect, Ann
<1>3. m \in Node /\ n \in Node /\ m # n /\ l = <<m, n>> /\ LinkOf(m, n) = l /\ LinkOf(n, m) = l
      /\ Neighbour(m, n) /\ Neighbour(n, m)
  BY LinkFacts
<1>4. made[l] \in 0..MaxConnections /\ made[l] \in Nat /\ c \in Nat /\ c \in 1..MaxConnections
      /\ c # made[l]
  <2>1. made[l] \in 0..MaxConnections
    BY <1>1 DEF NetworkTypes
  <2>2. QED
    BY <1>2, <2>1, NetworkAssumption
<1>5. <<n, c>> \in Peers /\ <<m, c>> \in Peers
  BY <1>3, <1>4 DEF Peers
<1>6. toM \in Update /\ toN \in Update
  <2>1. state[m] \in NodeState /\ state[n] \in NodeState
    BY <1>1, <1>3 DEF NetworkTypes
  <2>2. Ann(m, state[m]) \in Stored /\ Ann(n, state[n]) \in Stored
    BY <1>3, <2>1, AnnType
  <2>3. QED
    BY <1>3, <1>5, <2>2, ForPeerType
<1> HIDE DEF m, n, toM, toN
<1>7. /\ up' \in [Node -> SUBSET Peers]
      /\ \A k \in Node : up[k] \subseteq up'[k]
      /\ \A k \in Node : \A q \in up'[k] : q \in up[k] \/ New(k, q)
      /\ <<n, c>> \in up'[m] /\ <<m, c>> \in up'[n]
  BY <1>1, <1>2, <1>3, <1>5 DEF NetworkTypes
<1>8. /\ chan' \in [Node -> [Peers -> Seq(Update)]]
      /\ chan'[m][<<n, c>>] = <<toM>> /\ chan'[n][<<m, c>>] = <<toN>>
      /\ \A k \in Node, q \in Peers : ~New(k, q) => chan'[k][q] = chan[k][q]
  <2>1. chan \in [Node -> [Peers -> Seq(Update)]]
    BY <1>1 DEF NetworkTypes
  <2>2. <<toM>> \in Seq(Update) /\ <<toN>> \in Seq(Update)
    BY <1>6
  <2> DEFINE once == [chan EXCEPT ![m][<<n, c>>] = <<toM>>]
  <2>3. /\ once \in [Node -> [Peers -> Seq(Update)]] /\ once[m][<<n, c>>] = <<toM>>
        /\ \A k \in Node, q \in Peers :
             ~(k = m /\ q = <<n, c>>) => once[k][q] = chan[k][q]
    BY <1>3, <1>5, <2>1, <2>2
  <2>4. chan' = [once EXCEPT ![n][<<m, c>>] = <<toN>>]
    BY <1>2
  <2> HIDE DEF once
  <2>5. QED
    BY <1>3, <1>5, <2>2, <2>3, <2>4
<1>9. made' \in [Links -> 0..MaxConnections] /\ made'[l] = c
      /\ \A j \in Links \ {l} : made'[j] = made[j]
  <2>1. c \in 0..MaxConnections
    BY <1>4
  <2>2. made \in [Links -> 0..MaxConnections]
    BY <1>1 DEF NetworkTypes
  <2> HIDE DEF c
  <2>3. QED
    BY <1>2, <2>1, <2>2
<1>10. NetworkTypes'
  BY <1>1, <1>2, <1>7, <1>8, <1>9 DEF NetworkTypes
<1>11. ASSUME NEW k \in Node, NEW q \in up'[k]
       PROVE  Neighbour(k, q[1]) /\ q[2] = made'[LinkOf(k, q[1])]
  <2>1. CASE New(k, q)
    <3> HIDE DEF c
    <3>1. (k = m /\ q[1] = n /\ q[2] = c) \/ (k = n /\ q[1] = m /\ q[2] = c)
      BY <2>1
    <3>2. QED
      BY <1>3, <1>9, <3>1
  <2>2. CASE q \in up[k]
    <3> HIDE DEF c
    <3>1. Neighbour(k, q[1]) /\ q[2] = made[LinkOf(k, q[1])]
      BY <1>1, <2>2 DEF OneConnection
    <3>2. q \in Peers
      BY <1>7
    <3>3. q[1] \in Node /\ q[2] \in 1..MaxConnections /\ q = <<q[1], q[2]>>
      BY <3>2, PeerFacts
    <3>4. LinkOf(k, q[1]) \in Links
          /\ (LinkOf(k, q[1]) = <<k, q[1]>> \/ LinkOf(k, q[1]) = <<q[1], k>>)
      BY <3>1, <3>3, LinkFacts
    <3>5. ASSUME LinkOf(k, q[1]) = l PROVE FALSE
      <4>1. (k = m /\ q[1] = n) \/ (k = n /\ q[1] = m)
        BY <1>3, <3>4, <3>5
      <4>2. q[2] = made[l] /\ made[l] \in 1..made[l]
        BY <1>4, <3>1, <3>3, <3>5
      <4>3. QED
        BY <1>2, <2>2, <3>3, <4>1, <4>2
    <3>6. QED
      BY <1>9, <3>1, <3>4, <3>5
  <2>3. QED
    BY <1>7, <1>11, <2>1, <2>2
<1>12. ASSUME NEW j \in Links \ broken', made'[j] > 0
       PROVE  <<j[2], made'[j]>> \in up'[j[1]] /\ <<j[1], made'[j]>> \in up'[j[2]]
  <2> HIDE DEF c
  <2>1. CASE j = l
    BY <1>3, <1>7, <1>9, <2>1 DEF m, n
  <2>2. CASE j # l
    <3>1. j \in Links \ broken /\ made'[j] = made[j]
      BY <1>2, <1>9, <1>12, <2>2
    <3>2. <<j[2], made[j]>> \in up[j[1]] /\ <<j[1], made[j]>> \in up[j[2]]
      BY <1>1, <1>12, <3>1 DEF OneConnection
    <3>3. j[1] \in Node /\ j[2] \in Node
      BY LinkFacts
    <3>4. QED
      BY <1>7, <3>1, <3>2, <3>3
  <2>3. QED
    BY <2>1, <2>2
<1>13. OneConnection'
  BY <1>11, <1>12 DEF OneConnection
<1>14. OnlyOfPeers'
  <2>1. ASSUME NEW k \in Node, NEW q \in Peers \ up'[k]
        PROVE  state'[k].announcements[q] = NoAnn /\ chan'[k][q] = <<>>
    <3>1. q \in Peers \ up[k]
      BY <1>7, <2>1
    <3>2. ~New(k, q)
      BY <1>7, <2>1
    <3>3. chan'[k][q] = chan[k][q]
      BY <1>8, <2>1, <3>2
    <3>4. QED
      BY <1>1, <1>2, <3>1, <3>3 DEF OnlyOfPeers
  <2>2. QED
    BY <2>1 DEF OnlyOfPeers
<1>15. ASSUME NEW k \in Node, NEW q \in up'[k], <<k, q[2]>> \in up'[q[1]]
       PROVE  LatestIs(chan'[k][q], state'[k].announcements[q],
                       Tree(q[1])!ForPeer(Ann(q[1], state'[q[1]]), <<k, q[2]>>))
  <2>1. /\ q \in Peers /\ q[1] \in Node /\ q = <<q[1], q[2]>>
        /\ <<k, q[2]>>[1] = k /\ <<k, q[2]>>[2] = q[2]
    BY <1>7, PeerFacts
  <2>2. CASE New(k, q)
    <3>1. \A x : LatestIs(<<x>>, state'[k].announcements[q], x)
      BY DEF LatestIs
    <3>2. CASE k = m /\ q = <<n, c>>
      <4>1. chan'[k][q] = <<toM>> /\ q[1] = n /\ q[2] = c
        BY <1>8, <3>2
      <4>2. Tree(q[1])!ForPeer(Ann(q[1], state'[q[1]]), <<k, q[2]>>) = toM
        BY <1>2, <3>2, <4>1 DEF toM
      <4>3. QED
        BY <3>1, <4>1, <4>2
    <3>3. CASE k = n /\ q = <<m, c>>
      <4>1. chan'[k][q] = <<toN>> /\ q[1] = m /\ q[2] = c
        BY <1>8, <3>3
      <4>2. Tree(q[1])!ForPeer(Ann(q[1], state'[q[1]]), <<k, q[2]>>) = toN
        BY <1>2, <3>3, <4>1 DEF toN
      <4>3. QED
        BY <3>1, <4>1, <4>2
    <3>4. QED
      BY <2>2, <3>2, <3>3
  <2>3. CASE ~New(k, q)
    <3>1. q \in up[k] /\ chan'[k][q] = chan[k][q]
      BY <1>7, <1>8, <1>15, <2>1, <2>3
    <3>2. <<k, q[2]>> \in up[q[1]]
      <4>1. ASSUME New(q[1], <<k, q[2]>>) PROVE FALSE
        <5> HIDE DEF c
        <5>1. (q[1] = m /\ k = n /\ q[2] = c) \/ (q[1] = n /\ k = m /\ q[2] = c)
          BY <2>1, <4>1
        <5>2. QED
          BY <2>1, <2>3, <5>1
      <4> HIDE DEF New
      <4>2. QED
        BY <1>7, <1>15, <2>1, <4>1
    <3>3. QED
      BY <1>1, <1>2, <3>1, <3>2 DEF UpToDate
  <2>4. QED
    BY <2>2, <2>3
<1>16. UpToDate'
  BY <1>15 DEF UpToDate
<1>17. ASSUME NEW k \in Node
       PROVE  state'[k].proto = None /\ SoundNode(k, state'[k], up'[k])
  <2>1. SoundNode(k, state[k], up[k]) /\ state[k].proto = None /\ state' = state
    BY <1>1, <1>2
  <2>2. up[k] \subseteq up'[k] /\ up'[k] \subseteq Peers
    BY <1>7
  <2>3. \A q \in up'[k] : state[k].announcements[q] # NoAnn => q \in up[k]
    BY <1>1, <2>2 DEF OnlyOfPeers
  <2>4. state[k].parent # NoPeer => GoodParent(k, state[k], up'[k])
    BY <2>1, <2>2 DEF SoundNode, GoodParent
  <2>5. ~state[k].waiting => NoBetterKnown(k, state[k], up'[k])
    BY <2>1, <2>3 DEF SoundNode, NoBetterKnown
  <2>6. QED
    BY <2>1, <2>4, <2>5 DEF SoundNode
<1>18. QED
  BY <1>10, <1>13, <1>14, <1>16, <1>17 DEF NetworkIInv

LEMMA BreakStep == ASSUME NetworkIInv, NEW l \in Links, Break(l) PROVE NetworkIInv'
<1>1. broken' = broken \cup {l} /\ state' = state /\ up' = up /\ chan' = chan /\ made' = made
  BY DEF Break
<1>2. NetworkTypes /\ OneConnection /\ OnlyOfPeers /\ UpToDate
      /\ \A k \in Node : state[k].proto = None /\ SoundNode(k, state[k], up[k])
  BY DEF NetworkIInv
<1>3. NetworkTypes'
  BY <1>1, <1>2 DEF NetworkTypes
<1>4. OneConnection'
  BY <1>1, <1>2 DEF OneConnection
<1>5. OnlyOfPeers' /\ UpToDate'
  BY <1>1, <1>2 DEF OnlyOfPeers, UpToDate
<1>6. QED
  BY <1>1, <1>2, <1>3, <1>4, <1>5 DEF NetworkIInv

(* Every step of the network keeps the invariant.                           *)
LEMMA NextNetwork == NetworkIInv /\ [Next]_vars => NetworkIInv'
<1> SUFFICES ASSUME NetworkIInv, [Next]_vars PROVE NetworkIInv'
  OBVIOUS
<1>1. ASSUME NEW l \in Links, Connect(l) \/ Break(l) PROVE NetworkIInv'
  BY <1>1, ConnectStep, BreakStep
<1>2. ASSUME NEW n \in Node, NodeStep(n) PROVE NetworkIInv'
  <2>1. CASE EndWait(n)
    BY <2>1, EndWaitStep
  <2>2. CASE MaintainTree(n)
    BY <2>2, MaintainTreeStep
  <2>3. ASSUME NEW p \in Peers, Deliver(n, p) PROVE NetworkIInv'
    BY <2>3, DeliverStep
  <2>4. ASSUME NEW p \in Peers, Disconnect(n, p) PROVE NetworkIInv'
    <3>1. /\ p \in up[n] /\ Drop(n, p) /\ made' = made /\ broken' = broken
          /\ LinkOf(n, p[1]) \in broken
      BY <2>4 DEF Disconnect
    <3>2. broken \in SUBSET Links
      BY DEF NetworkIInv, NetworkTypes
    <3>3. QED
      BY <3>1, <3>2, DropStep
  <2>5. ASSUME NEW p \in Peers, Refuse(n, p) PROVE NetworkIInv'
    <3>1. /\ p \in up[n] /\ Drop(n, p) /\ made' = made
          /\ broken' = broken \cup {LinkOf(n, p[1])}
      BY <2>5 DEF Refuse
    <3>2. broken \in SUBSET Links /\ Neighbour(n, p[1]) /\ p[1] \in Node
      BY <3>1, PeerFacts DEF NetworkIInv, NetworkTypes, OneConnection
    <3>3. LinkOf(n, p[1]) \in Links
      BY <3>2, LinkFacts
    <3>4. QED
      BY <3>1, <3>2, <3>3, DropStep
  <2>6. QED
    BY <1>2, <2>1, <2>2, <2>3, <2>4, <2>5 DEF NodeStep
<1>3. CASE UNCHANGED vars
  <2>1. state' = state /\ up' = up /\ chan' = chan /\ made' = made /\ broken' = broken
    BY <1>3 DEF vars
  <2>2. NetworkIInv
    OBVIOUS
  <2>3. NetworkTypes' /\ OneConnection' /\ OnlyOfPeers' /\ UpToDate'
    BY <2>1, <2>2 DEF NetworkIInv, NetworkTypes, OneConnection, OnlyOfPeers, UpToDate
  <2>4. QED
    BY <2>1, <2>2, <2>3 DEF NetworkIInv
<1>4. QED
  BY <1>1, <1>2, <1>3 DEF Next

LEMMA NetworkInvariance == Spec => []NetworkIInv
BY InitNetwork, NextNetwork, PTL DEF Spec

----------------------------------------------------------------------------
(* A quiet network.                                                         *)
Announced(n) == Ann(n, state[n])
Path(n) == Announced(n).sigs
ParentOf(n) == state[n].parent[1]
Entry(n, p) == state[n].announcements[p]
Signature(m, n) == [key |-> m, hop |-> n]

(* The parts of what a quiet network knows: the path of every node is that  *)
(* of its parent and one hop more,                                          *)
PathsAreReal ==
  \A n \in Node :
    /\ Path(n) \in Seq([key : Nat, hop : Nat])
    /\ Root(n) \in Nat /\ Announced(n).seq \in Nat /\ n <= Root(n)
    /\ state[n].parent = NoPeer => Root(n) = n /\ Path(n) = <<>>
    /\ state[n].parent # NoPeer =>
         /\ state[n].parent \in up[n] /\ ParentOf(n) \in Node
         /\ Root(n) = Root(ParentOf(n)) /\ Announced(n).seq = Announced(ParentOf(n)).seq
         /\ Path(n) = Append(Path(ParentOf(n)), Signature(ParentOf(n), n))

(* every connection is up at both ends and each end knows the path of the   *)
(* other,                                                                   *)
TablesAreReal ==
  \A n \in Node : \A p \in up[n] :
    /\ p[1] \in Node /\ p[1] # n /\ <<n, p[2]>> \in up[p[1]]
    /\ Entry(n, p) # NoAnn /\ Entry(n, p) \in Stored
    /\ Entry(n, p).root = Root(p[1]) /\ Entry(n, p).seq = Announced(p[1]).seq
    /\ Entry(n, p).sigs = Append(Path(p[1]), Signature(p[1], n))

(* and a neighbour with a stronger root is a descendant.                    *)
NobodyIsBetter ==
  \A n \in Node : \A p \in up[n] :
    Root(p[1]) <= Root(n) \/ \E i \in DOMAIN Path(p[1]) : Path(p[1])[i].key = n

LEMMA SignatureFacts ==
  \A m, n : Signature(m, n).key = m /\ Signature(m, n).hop = n
            /\ (m \in Nat /\ n \in Nat => Signature(m, n) \in [key : Nat, hop : Nat])
BY DEF Signature

(* What holds of a sequence and one more element.                           *)
LEMMA AppendFacts ==
  ASSUME NEW S, NEW x \in Seq(S), NEW e \in S
  PROVE  /\ Append(x, e) \in Seq(S) /\ Append(x, e) # <<>>
         /\ Len(x) \in Nat /\ Len(Append(x, e)) = Len(x) + 1
         /\ DOMAIN x = 1..Len(x) /\ DOMAIN Append(x, e) = 1..(Len(x) + 1)
         /\ \A i \in 1..Len(x) : Append(x, e)[i] = x[i]
         /\ Append(x, e)[Len(x) + 1] = e
OBVIOUS

LEMMA QuietTables ==
  ASSUME NetworkIInv, Quiet
  PROVE  TablesAreReal
<1> SUFFICES ASSUME NEW n \in Node, NEW p \in up[n]
             PROVE  /\ p[1] \in Node /\ p[1] # n /\ <<n, p[2]>> \in up[p[1]]
                    /\ Entry(n, p) # NoAnn /\ Entry(n, p) \in Stored
                    /\ Entry(n, p).root = Root(p[1]) /\ Entry(n, p).seq = Announced(p[1]).seq
                    /\ Entry(n, p).sigs = Append(Path(p[1]), Signature(p[1], n))
  BY DEF TablesAreReal
<1> DEFINE m == p[1]
           q == <<n, p[2]>>
           l == LinkOf(n, m)
           e == Entry(n, p)
           u == Tree(m)!ForPeer(Announced(m), q)
<1>1. NetworkTypes /\ OneConnection /\ UpToDate
  BY DEF NetworkIInv
<1>2. p \in Peers
  BY <1>1 DEF NetworkTypes
<1>3. m \in Node /\ p[2] \in 1..MaxConnections /\ q \in Peers /\ q[1] = n /\ q[2] = p[2]
      /\ p = <<m, p[2]>>
  BY <1>2, PeerFacts
<1>4. Neighbour(n, m) /\ p[2] = made[l]
  BY <1>1 DEF OneConnection
<1>5. m # n /\ l \in Links /\ (l = <<n, m>> \/ l = <<m, n>>)
  BY <1>3, <1>4, LinkFacts
<1>6. l \notin broken /\ chan[n] = None
  BY DEF Quiet, Drained
<1>7. q \in up[m]
  <2>1. p[2] > 0
    BY <1>3, NetworkAssumption
  <2>2. <<l[2], made[l]>> \in up[l[1]] /\ <<l[1], made[l]>> \in up[l[2]]
    BY <1>1, <1>4, <1>5, <1>6, <2>1 DEF OneConnection
  <2>3. <<l[2], p[2]>> \in up[l[1]] /\ <<l[1], p[2]>> \in up[l[2]]
    BY <1>4, <2>2
  <2> HIDE DEF l
  <2>4. CASE l = <<n, m>>
    <3>1. l[1] = n /\ l[2] = m
      BY <2>4
    <3>2. QED
      BY <2>3, <3>1
  <2>5. CASE l = <<m, n>>
    <3>1. l[1] = m /\ l[2] = n
      BY <2>5
    <3>2. QED
      BY <2>3, <3>1
  <2>6. QED
    BY <1>5, <2>4, <2>5
<1>8. e # NoAnn /\ AsUpdate(e) = u
  <2>1. LatestIs(chan[n][p], e, u)
    BY <1>1, <1>7 DEF UpToDate, Entry, Announced
  <2>2. chan[n][p] = <<>>
    BY <1>2, <1>6 DEF None
  <2>3. QED
    BY <2>1, <2>2 DEF LatestIs
<1>9. e \in Stored
  <2>1. state[n] \in NodeState
    BY <1>1 DEF NetworkTypes
  <2>2. e \in Stored \cup {NoAnn}
    BY <1>2, <2>1 DEF NodeState, Entry
  <2>3. QED
    BY <1>8, <2>2
<1>10. Announced(m) \in Stored
  <2>1. state[m] \in NodeState
    BY <1>1, <1>3 DEF NetworkTypes
  <2>2. QED
    BY <1>3, <2>1, AnnType DEF Announced
<1>11. /\ u.root = Announced(m).root /\ u.seq = Announced(m).seq
       /\ u.sigs = Append(Path(m), Signature(m, n))
  BY <1>3, <1>10, ForPeerType DEF Path, Signature
<1>12. e.root = u.root /\ e.seq = u.seq /\ e.sigs = u.sigs
  BY <1>8 DEF AsUpdate
<1>13. Root(m) = Announced(m).root
  BY DEF Root, Announced, Ann
<1> HIDE DEF e, u, m, q
<1>14. QED
  BY <1>3, <1>5, <1>7, <1>8, <1>9, <1>11, <1>12, <1>13 DEF e, m, q

LEMMA QuietPaths ==
  ASSUME NetworkIInv, Quiet
  PROVE  PathsAreReal
<1> SUFFICES ASSUME NEW n \in Node
      PROVE  /\ Path(n) \in Seq([key : Nat, hop : Nat])
             /\ Root(n) \in Nat /\ Announced(n).seq \in Nat /\ n <= Root(n)
             /\ state[n].parent = NoPeer => Root(n) = n /\ Path(n) = <<>>
             /\ state[n].parent # NoPeer =>
                  /\ state[n].parent \in up[n] /\ ParentOf(n) \in Node
                  /\ Root(n) = Root(ParentOf(n))
                  /\ Announced(n).seq = Announced(ParentOf(n)).seq
                  /\ Path(n) = Append(Path(ParentOf(n)), Signature(ParentOf(n), n))
  BY DEF PathsAreReal
<1>1. state[n] \in NodeState /\ SoundNode(n, state[n], up[n]) /\ n \in Nat
  BY NetworkAssumption DEF NetworkIInv, NetworkTypes
<1>2. Announced(n) \in Stored /\ Root(n) = Announced(n).root
  BY <1>1, AnnType DEF Announced, Root, Ann
<1>3. /\ Path(n) \in Seq([key : Nat, hop : Nat]) /\ Root(n) \in Nat
      /\ Announced(n).seq \in Nat
  BY <1>2, StoredType DEF Path
<1>4. CASE state[n].parent = NoPeer
  <2>1. Root(n) = n /\ Path(n) = <<>>
    BY <1>1, <1>2, <1>4, AnnType DEF Announced, Path
  <2>2. n <= Root(n)
    BY <1>1, <2>1
  <2>3. QED
    BY <1>3, <1>4, <2>1, <2>2
<1>5. CASE state[n].parent # NoPeer
  <2> DEFINE p == state[n].parent
  <2>1. GoodParent(n, state[n], up[n])
    BY <1>1, <1>5 DEF SoundNode
  <2>2. p \in up[n] /\ Entry(n, p) # NoAnn /\ Entry(n, p).root >= n
    BY <2>1 DEF GoodParent, Entry
  <2>3. Announced(n) = Entry(n, p)
    BY <1>1, <1>5, <2>2, AnnType DEF Announced, Entry
  <2>4. TablesAreReal
    BY QuietTables
  <2>5. /\ p[1] \in Node
        /\ Entry(n, p).root = Root(p[1]) /\ Entry(n, p).seq = Announced(p[1]).seq
        /\ Entry(n, p).sigs = Append(Path(p[1]), Signature(p[1], n))
    BY ZenonT(60), <2>2, <2>4 DEF TablesAreReal
  <2>6. n <= Root(n)
    BY <1>1, <1>2, <1>3, <2>2, <2>3
  <2>7. QED
    BY <1>2, <1>3, <1>5, <2>2, <2>3, <2>5, <2>6 DEF ParentOf, Path
<1>6. QED
  BY <1>4, <1>5

LEMMA QuietNobodyIsBetter ==
  ASSUME NetworkIInv, Quiet
  PROVE  NobodyIsBetter
<1> SUFFICES ASSUME NEW n \in Node, NEW p \in up[n],
                    ~ \E i \in DOMAIN Path(p[1]) : Path(p[1])[i].key = n
             PROVE  Root(p[1]) <= Root(n)
  BY DEF NobodyIsBetter
<1> DEFINE e == Entry(n, p)
           x == Path(p[1])
           s == Signature(p[1], n)
<1>1. TablesAreReal /\ PathsAreReal
  BY QuietTables, QuietPaths
<1>2. p[1] \in Node /\ p[1] # n /\ e # NoAnn /\ e.root = Root(p[1]) /\ e.sigs = Append(x, s)
  BY <1>1 DEF TablesAreReal
<1>3. x \in Seq([key : Nat, hop : Nat]) /\ s \in [key : Nat, hop : Nat] /\ s.key = p[1]
  <2>1. x \in Seq([key : Nat, hop : Nat])
    BY <1>1, <1>2 DEF PathsAreReal
  <2>2. p[1] \in Nat /\ n \in Nat
    BY <1>2, NetworkAssumption
  <2>3. s \in [key : Nat, hop : Nat] /\ s.key = p[1]
    BY <2>2, SignatureFacts
  <2>4. QED
    BY <2>1, <2>3
<1>4. ~Tree(n)!HasSigned(e, n)
  <2>1. ASSUME NEW i \in DOMAIN e.sigs, e.sigs[i].key = n PROVE FALSE
    <3> HIDE DEF e, x, s
    <3>1. i \in 1..(Len(x) + 1) /\ Len(x) \in Nat
      BY <1>2, <1>3, <2>1, AppendFacts
    <3>2. CASE i \in 1..Len(x)
      <4>1. e.sigs[i] = x[i] /\ i \in DOMAIN x
        BY <1>2, <1>3, <3>2, AppendFacts
      <4>2. QED
        BY <2>1, <4>1 DEF x
    <3>3. CASE i = Len(x) + 1
      <4>1. e.sigs[i] = s
        BY <1>2, <1>3, <3>3, AppendFacts
      <4>2. QED
        BY <1>2, <1>3, <2>1, <4>1
    <3>4. QED
      BY <3>1, <3>2, <3>3
  <2> HIDE DEF e
  <2>2. QED
    BY <2>1 DEF Tree!HasSigned, Tree!Elements
<1>5. SoundNode(n, state[n], up[n]) /\ ~state[n].waiting
  BY DEF NetworkIInv, Quiet
<1>6. e.root <= Announced(n).root
  BY <1>2, <1>4, <1>5 DEF SoundNode, NoBetterKnown, Entry, Announced
<1>7. QED
  BY <1>2, <1>6 DEF Root, Announced, Ann

----------------------------------------------------------------------------
LEMMA LeastNatural ==
  ASSUME NEW L \in SUBSET Nat, L # {}
  PROVE  \E x \in L : \A y \in L : x <= y
<1>1. PICK x \in L : \A y \in L : ~(<<y, x>> \in OpToRel(<, Nat))
  BY NatLessThanWellFounded, WFMin
<1>2. \A y \in L : x \in Nat /\ y \in Nat
  OBVIOUS
<1>3. \A y \in L : ~(y < x)
  BY <1>1, <1>2 DEF OpToRel
<1>4. QED
  BY <1>2, <1>3

(* Among nodes there is one with the shortest path.                         *)
LEMMA ShortestPath ==
  ASSUME PathsAreReal, NEW T \in SUBSET Node, T # {}
  PROVE  \E n \in T : \A k \in T : Len(Path(n)) <= Len(Path(k))
<1> DEFINE L == { Len(Path(n)) : n \in T }
<1>1. \A n \in T : Len(Path(n)) \in Nat
  BY DEF PathsAreReal
<1>2. L \in SUBSET Nat /\ L # {}
  BY <1>1
<1>3. PICK x \in L : \A y \in L : x <= y
  <2> HIDE DEF L
  <2>1. QED
    BY <1>2, LeastNatural
<1>4. QED
  BY <1>3

(* The path of a node is one longer than that of its parent, and goes the   *)
(* same way until there.                                                    *)
LEMMA ParentPath ==
  ASSUME PathsAreReal, NEW n \in Node, Path(n) # <<>> \/ state[n].parent # NoPeer
  PROVE  /\ state[n].parent # NoPeer /\ ParentOf(n) \in Node
         /\ Len(Path(ParentOf(n))) \in Nat /\ Len(Path(n)) = Len(Path(ParentOf(n))) + 1
         /\ \A i \in 1..Len(Path(ParentOf(n))) : Path(n)[i] = Path(ParentOf(n))[i]
         /\ Path(n)[Len(Path(n))] = Signature(ParentOf(n), n)
<1>1. state[n].parent # NoPeer
  BY DEF PathsAreReal
<1>2. /\ ParentOf(n) \in Node
      /\ Path(n) = Append(Path(ParentOf(n)), Signature(ParentOf(n), n))
  BY <1>1 DEF PathsAreReal
<1>3. Path(ParentOf(n)) \in Seq([key : Nat, hop : Nat])
      /\ Signature(ParentOf(n), n) \in [key : Nat, hop : Nat]
  BY <1>2, SignatureFacts, NetworkAssumption DEF PathsAreReal
<1>4. QED
  BY <1>1, <1>2, <1>3, AppendFacts

(* At every step of a node's path there is a real node whose path is that   *)
(* far the same.                                                            *)
IsAncestor(k, n, i) ==
  /\ state[k].parent # NoPeer
  /\ Root(k) = Root(n) /\ Announced(k).seq = Announced(n).seq
  /\ Len(Path(k)) = i
  /\ \A j \in 1..i : Path(k)[j] = Path(n)[j]

LEMMA Ancestors ==
  ASSUME PathsAreReal
  PROVE  \A n \in Node : \A i \in 1..Len(Path(n)) : \E k \in Node : IsAncestor(k, n, i)
<1> DEFINE T == { n \in Node : \E i \in 1..Len(Path(n)) : \A k \in Node : ~IsAncestor(k, n, i) }
<1>1. ASSUME T # {} PROVE FALSE
  <2>1. PICK n \in T : \A k \in T : Len(Path(n)) <= Len(Path(k))
    <3>1. T \in SUBSET Node
      OBVIOUS
    <3> HIDE DEF T
    <3>2. QED
      BY <1>1, <3>1, ShortestPath
  <2>2. PICK i \in 1..Len(Path(n)) : \A k \in Node : ~IsAncestor(k, n, i)
    BY <2>1
  <2>3. n \in Node /\ Path(n) # <<>> /\ Path(n) \in Seq([key : Nat, hop : Nat])
    BY <2>1, <2>2 DEF PathsAreReal
  <2> DEFINE m == ParentOf(n)
  <2>4. /\ state[n].parent # NoPeer /\ m \in Node
        /\ Len(Path(m)) \in Nat /\ Len(Path(n)) = Len(Path(m)) + 1
        /\ \A j \in 1..Len(Path(m)) : Path(n)[j] = Path(m)[j]
    BY <2>3, ParentPath
  <2>5. i # Len(Path(n))
    BY <2>2, <2>3, <2>4 DEF IsAncestor
  <2>6. i \in 1..Len(Path(m))
    BY <2>2, <2>4, <2>5
  <2>7. m \notin T
    BY <2>1, <2>4
  <2>8. PICK k \in Node : IsAncestor(k, m, i)
    BY <2>4, <2>6, <2>7
  <2>9. Root(m) = Root(n) /\ Announced(m).seq = Announced(n).seq
    BY <2>3, <2>4 DEF PathsAreReal
  <2>10. \A j \in 1..i : Path(n)[j] = Path(m)[j]
    BY <2>4, <2>6
  <2>11. IsAncestor(k, n, i)
    BY <2>8, <2>9, <2>10 DEF IsAncestor
  <2>12. QED
    BY <2>2, <2>11
<1>2. QED
  BY <1>1

(* So neighbours have the same root.                                        *)
LEMMA NeighboursAgree ==
  ASSUME PathsAreReal, TablesAreReal, NobodyIsBetter, NEW n \in Node, NEW p \in up[n]
  PROVE  Root(p[1]) = Root(n)
<1>1. ASSUME NEW k \in Node, NEW q \in up[k] PROVE Root(q[1]) <= Root(k)
  <2> DEFINE m == q[1]
  <2>1. CASE Root(m) <= Root(k)
    BY <2>1
  <2>2. ASSUME NEW i \in DOMAIN Path(m), Path(m)[i].key = k PROVE Root(m) <= Root(k)
    <3>1. m \in Node /\ k \in Node /\ Root(k) \in Nat
      BY <1>1 DEF TablesAreReal, PathsAreReal
    <3>2. i \in 1..Len(Path(m))
      BY <2>2, <3>1 DEF PathsAreReal
    <3>3. PICK d \in Node : IsAncestor(d, m, i)
      BY <3>1, <3>2, Ancestors
    <3>4. state[d].parent # NoPeer /\ Root(d) = Root(m) /\ Len(Path(d)) = i
          /\ Path(d)[i] = Path(m)[i]
      BY <3>2, <3>3 DEF IsAncestor
    <3>5. Path(d)[Len(Path(d))] = Signature(ParentOf(d), d) /\ ParentOf(d) \in Node
      BY <3>4, ParentPath
    <3>6. ParentOf(d) = k
      BY <2>2, <3>4, <3>5, SignatureFacts
    <3>7. Root(d) = Root(k)
      BY <3>4, <3>6 DEF PathsAreReal
    <3>8. QED
      BY <3>1, <3>4, <3>7
  <2>3. QED
    BY <1>1, <2>1, <2>2 DEF NobodyIsBetter
<1>2. /\ p[1] \in Node /\ <<n, p[2]>> \in up[p[1]] /\ <<n, p[2]>>[1] = n
  BY DEF TablesAreReal
<1>3. Root(p[1]) <= Root(n) /\ Root(n) <= Root(p[1])
  BY <1>1, <1>2
<1>4. Root(p[1]) \in Nat /\ Root(n) \in Nat
  BY <1>2 DEF PathsAreReal
<1>5. QED
  BY <1>3, <1>4

----------------------------------------------------------------------------
(* Every node that n can reach has its root, and is no stronger;            *)
LEMMA SameRoot ==
  ASSUME PathsAreReal, TablesAreReal, NobodyIsBetter, NEW n \in Node
  PROVE  \A m \in Component(n) : Root(m) = Root(n) /\ m <= Root(n)
<1> DEFINE S == { k \in Node : Root(k) = Root(n) }
<1>1. n \in S /\ S \in SUBSET Node
  OBVIOUS
<1>2. ASSUME NEW k \in S, NEW j \in Node \ S, Attached(j, k) PROVE FALSE
  <2>1. PICK p \in up[k] : p[1] = j
    BY <1>2 DEF Attached
  <2>2. Root(j) = Root(k)
    BY <2>1, NeighboursAgree
  <2>3. QED
    BY <2>2
<1>3. ASSUME NEW m \in Component(n) PROVE Root(m) = Root(n) /\ m <= Root(n)
  <2>1. m \in Node
    BY DEF Component
  <2>2. m \in S
    <3> HIDE DEF S
    <3>1. QED
      BY <1>1, <1>2, <1>3 DEF Component
  <2>3. m <= Root(m)
    BY <2>1 DEF PathsAreReal
  <2>4. QED
    BY <2>2, <2>3
<1>4. QED
  BY <1>3

(* a parent is reached over a link that is up at both ends,                 *)
LEMMA ParentIsAttached ==
  ASSUME PathsAreReal, TablesAreReal, NEW n \in Node, state[n].parent # NoPeer
  PROVE  ParentOf(n) \in Node /\ Attached(ParentOf(n), n) /\ Attached(n, ParentOf(n))
<1> DEFINE p == state[n].parent
<1>1. p \in up[n] /\ ParentOf(n) = p[1] /\ p[1] \in Node
  BY DEF PathsAreReal, ParentOf
<1>2. <<n, p[2]>> \in up[p[1]] /\ <<n, p[2]>>[1] = n
  BY <1>1 DEF TablesAreReal
<1>3. QED
  BY <1>1, <1>2 DEF Attached

(* and the root that n follows is one of the nodes that it can reach.       *)
LEMMA RootIsReached ==
  ASSUME PathsAreReal, TablesAreReal, NEW n \in Node
  PROVE  Root(n) \in Component(n)
<1>1. ASSUME NEW S \in SUBSET Node, n \in S,
             \A k \in S, j \in Node \ S : ~(Attached(j, k) /\ Attached(k, j))
      PROVE  Root(n) \in S
  <2> DEFINE T == { k \in S : Root(k) = Root(n) }
  <2>1. T \in SUBSET Node /\ T # {}
    BY <1>1
  <2>2. PICK k \in T : \A j \in T : Len(Path(k)) <= Len(Path(j))
    <3> HIDE DEF T
    <3>1. QED
      BY <2>1, ShortestPath
  <2>3. k \in Node /\ k \in S /\ Root(k) = Root(n)
    BY <1>1, <2>2
  <2>4. ASSUME state[k].parent # NoPeer PROVE FALSE
    <3> DEFINE m == ParentOf(k)
    <3>1. m \in Node /\ Attached(m, k) /\ Attached(k, m)
      BY <2>3, <2>4, ParentIsAttached
    <3>2. Root(m) = Root(k)
      BY <2>3, <2>4 DEF PathsAreReal
    <3>3. m \in T
      BY <1>1, <2>3, <3>1, <3>2
    <3>4. Len(Path(m)) \in Nat /\ Len(Path(k)) = Len(Path(m)) + 1
      BY <2>3, <2>4, ParentPath
    <3>5. QED
      BY <2>2, <3>3, <3>4
  <2>5. Root(k) = k
    BY <2>3, <2>4 DEF PathsAreReal
  <2>6. QED
    BY <2>3, <2>5
<1>2. Root(n) \in Node
  BY <1>1
<1>3. QED
  BY <1>1, <1>2 DEF Component

LEMMA RootIsStrongest ==
  ASSUME PathsAreReal, TablesAreReal, NobodyIsBetter, NEW n \in Node
  PROVE  Root(n) = StrongestIn(Component(n))
<1> DEFINE C == Component(n)
           Is(r) == r \in C /\ \A m \in C : m <= r
<1>1. Is(Root(n))
  BY SameRoot, RootIsReached
<1>2. C \subseteq Nat
  BY NetworkAssumption DEF Component
<1>3. \A r, t : Is(r) /\ Is(t) => r = t
  <2> HIDE DEF C
  <2>1. QED
    BY <1>2
<1>4. StrongestIn(C) = CHOOSE r : Is(r)
  BY DEF StrongestIn
<1> HIDE DEF Is
<1>5. Is(StrongestIn(C))
  BY <1>1, <1>4
<1>6. QED
  BY <1>1, <1>3, <1>5

(* The coordinates of a node are those of its parent and its own key.       *)
LEMMA CoordsOfPath ==
  ASSUME PathsAreReal, NEW n \in Node
  PROVE  /\ Coords(n) \in Seq(Nat) /\ Len(Coords(n)) = Len(Path(n)) /\ Len(Path(n)) \in Nat
         /\ Coords(n) = [i \in 1..Len(Path(n)) |-> Path(n)[i].hop]
<1>1. Path(n) \in Seq([key : Nat, hop : Nat])
  BY DEF PathsAreReal
<1>2. DOMAIN Path(n) = 1..Len(Path(n)) /\ Len(Path(n)) \in Nat
      /\ \A i \in 1..Len(Path(n)) : Path(n)[i].hop \in Nat
  <2>1. \A i \in 1..Len(Path(n)) : Path(n)[i] \in [key : Nat, hop : Nat]
    BY <1>1, ElementOfSeq
  <2>2. QED
    BY <1>1, <2>1, LenProperties
<1>3. Coords(n) = [i \in DOMAIN Path(n) |-> Path(n)[i].hop]
  BY DEF Coords, Tree!Coords, Tree!Hops, Path, Announced, Ann
<1>4. \A k \in Nat : \A f \in [1..k -> Nat] : f \in Seq(Nat) /\ Len(f) = k
  OBVIOUS
<1>5. Coords(n) \in [1..Len(Path(n)) -> Nat]
  BY <1>2, <1>3
<1>6. QED
  BY <1>2, <1>3, <1>4, <1>5

LEMMA CoordsOfParent ==
  ASSUME PathsAreReal, NEW n \in Node, state[n].parent # NoPeer
  PROVE  /\ ParentOf(n) \in Node
         /\ Len(Coords(ParentOf(n))) \in Nat /\ Len(Coords(n)) = Len(Coords(ParentOf(n))) + 1
         /\ \A i \in 1..Len(Coords(ParentOf(n))) : Coords(n)[i] = Coords(ParentOf(n))[i]
         /\ Coords(n)[Len(Coords(n))] = n
         /\ Coords(n) = Append(Coords(ParentOf(n)), n)
<1> DEFINE m == ParentOf(n)
<1>1. /\ m \in Node
      /\ Len(Path(m)) \in Nat /\ Len(Path(n)) = Len(Path(m)) + 1
      /\ \A i \in 1..Len(Path(m)) : Path(n)[i] = Path(m)[i]
      /\ Path(n)[Len(Path(n))] = Signature(m, n)
  BY ParentPath
<1> HIDE DEF m
<1>2. /\ Coords(m) \in Seq(Nat) /\ Len(Coords(m)) = Len(Path(m))
      /\ \A i \in 1..Len(Path(m)) : Coords(m)[i] = Path(m)[i].hop
  BY <1>1, CoordsOfPath
<1>3. /\ Coords(n) \in Seq(Nat) /\ Len(Coords(n)) = Len(Path(n))
      /\ \A i \in 1..Len(Path(n)) : Coords(n)[i] = Path(n)[i].hop
  BY CoordsOfPath
<1>4. /\ Len(Coords(m)) \in Nat /\ Len(Coords(n)) = Len(Coords(m)) + 1
      /\ \A i \in 1..Len(Coords(m)) : Coords(n)[i] = Coords(m)[i]
  BY <1>1, <1>2, <1>3
<1>5. Coords(n)[Len(Coords(n))] = n
  <2>1. Len(Path(n)) \in 1..Len(Path(n))
    BY <1>1
  <2>2. QED
    BY <1>1, <1>3, <2>1, SignatureFacts
<1>6. \A x, y \in Seq(Nat) : \A e \in Nat :
        /\ Len(y) = Len(x) + 1 /\ \A i \in 1..Len(x) : y[i] = x[i]
        /\ y[Len(y)] = e
        => y = Append(x, e)
  <2>1. SUFFICES ASSUME NEW x \in Seq(Nat), NEW y \in Seq(Nat), NEW e \in Nat,
                        Len(y) = Len(x) + 1, \A i \in 1..Len(x) : y[i] = x[i],
                        y[Len(y)] = e
                 PROVE  y = Append(x, e)
    OBVIOUS
  <2>2. Append(x, e) \in Seq(Nat) /\ Len(x) \in Nat /\ Len(Append(x, e)) = Len(x) + 1
        /\ \A i \in 1..Len(x) : Append(x, e)[i] = x[i]
        /\ Append(x, e)[Len(x) + 1] = e
    BY AppendFacts
  <2>3. \A i \in 1..Len(y) : y[i] = Append(x, e)[i]
    <3>1. ASSUME NEW i \in 1..Len(y) PROVE y[i] = Append(x, e)[i]
      <4>1. i \in 1..Len(x) \/ i = Len(x) + 1
        BY <2>1, <2>2
      <4>2. QED
        BY <2>1, <2>2, <4>1
    <3>2. QED
      BY <3>1
  <2>4. QED
    BY <2>1, <2>2, <2>3, SeqEqual
<1>7. n \in Nat
  BY NetworkAssumption
<1>8. QED
  BY <1>1, <1>2, <1>3, <1>4, <1>5, <1>6, <1>7 DEF m

LEMMA TreeFromInvariant == NetworkIInv => QuietIsTree
<1> SUFFICES ASSUME NetworkIInv, Quiet, NEW n \in Node
             PROVE  /\ Root(n) = StrongestIn(Component(n))
                    /\ state[n].parent # NoPeer =>
                         /\ state[n].parent \in up[n]
                         /\ Coords(n) = Append(Coords(state[n].parent[1]), n)
  BY DEF QuietIsTree
<1>1. PathsAreReal /\ TablesAreReal /\ NobodyIsBetter
  BY QuietPaths, QuietTables, QuietNobodyIsBetter
<1>2. Root(n) = StrongestIn(Component(n))
  BY <1>1, RootIsStrongest
<1>3. ASSUME state[n].parent # NoPeer
      PROVE  state[n].parent \in up[n] /\ Coords(n) = Append(Coords(state[n].parent[1]), n)
  BY <1>1, <1>3, CoordsOfParent DEF PathsAreReal, ParentOf
<1>4. QED
  BY <1>2, <1>3

(* Whatever the routers and the links between them, and however often these *)
(* came up and broke: once no tree announcement is on its way and nobody    *)
(* waits to choose a parent, every router follows the strongest key that it *)
(* can reach, and its coordinates are those of its parent and one hop more. *)
THEOREM QuietNetworkIsTree == Spec => []QuietIsTree
<1>1. NetworkIInv => QuietIsTree
  BY TreeFromInvariant
<1>2. QED
  BY <1>1, NetworkInvariance, PTL

----------------------------------------------------------------------------
(* Distances.  The coordinates a and b run together as far as Common.       *)
Common(a, b) == { i \in DOMAIN a \cap DOMAIN b : \A j \in 1..i : a[j] = b[j] }

Distance(a, b) == Len(a) + Len(b) - 2 * Cardinality(Common(a, b))

LEMMA DistanceToIsDistance ==
  \A n, a, b : Tree(n)!DistanceTo(a, b) = Distance(a, b)
<1> SUFFICES ASSUME NEW n, NEW a, NEW b PROVE Tree(n)!DistanceTo(a, b) = Distance(a, b)
  OBVIOUS
<1>1. \A S : Tree(n)!Cardinality(S) = Cardinality(S)
  BY DEF Tree!Cardinality, Cardinality
<1>2. Tree(n)!DistanceTo(a, b) = Len(a) + Len(b) - 2 * Tree(n)!Cardinality(Common(a, b))
  BY DEF Tree!DistanceTo, Common
<1>3. QED
  BY <1>1, <1>2 DEF Distance

LEMMA UpToLength ==
  ASSUME NEW x \in Seq(Nat)
  PROVE  /\ DOMAIN x = 1..Len(x) /\ Len(x) \in Nat
         /\ IsFiniteSet(1..Len(x)) /\ Cardinality(1..Len(x)) = Len(x)
<1>1. DOMAIN x = 1..Len(x) /\ Len(x) \in Nat
  BY LenProperties
<1>2. \A k \in Nat : IsFiniteSet(1..k) /\ Cardinality(1..k) = IF 1 > k THEN 0 ELSE k - 1 + 1
  BY FS_Interval
<1>3. \A k \in Nat : (IF 1 > k THEN 0 ELSE k - 1 + 1) = k
  OBVIOUS
<1>4. QED
  BY <1>1, <1>2, <1>3

LEMMA DistanceIsNatural ==
  ASSUME NEW a \in Seq(Nat), NEW b \in Seq(Nat)
  PROVE  Cardinality(Common(a, b)) \in Nat /\ Distance(a, b) \in Nat
<1>1. \A x \in Seq(Nat) : /\ DOMAIN x = 1..Len(x) /\ Len(x) \in Nat
                          /\ IsFiniteSet(1..Len(x)) /\ Cardinality(1..Len(x)) = Len(x)
  BY UpToLength
<1>2. Common(a, b) \subseteq 1..Len(a) /\ Common(a, b) \subseteq 1..Len(b)
  BY <1>1 DEF Common
<1>3. /\ IsFiniteSet(Common(a, b))
      /\ Cardinality(Common(a, b)) <= Len(a) /\ Cardinality(Common(a, b)) <= Len(b)
  BY <1>1, <1>2, FS_Subset
<1>4. Cardinality(Common(a, b)) \in Nat
  BY <1>3, FS_CardinalityType
<1>5. Len(a) \in Nat /\ Len(b) \in Nat
  BY <1>1
<1>6. \A c, x, y \in Nat : c <= x /\ c <= y => x + y - 2 * c \in Nat
  OBVIOUS
<1>7. QED
  BY <1>3, <1>4, <1>5, <1>6 DEF Distance

(* Off the way to b, a hop back is a step nearer;                           *)
LEMMA HopBack ==
  ASSUME NEW a \in Seq(Nat), NEW b \in Seq(Nat), NEW d \in Seq(Nat),
         Len(a) = Len(d) + 1, \A i \in 1..Len(d) : a[i] = d[i], Len(a) \notin Common(a, b)
  PROVE  Distance(d, b) < Distance(a, b)
<1>1. \A x \in Seq(Nat) : DOMAIN x = 1..Len(x) /\ Len(x) \in Nat
  BY LenProperties
<1>2. Len(a) \in Nat /\ Len(b) \in Nat /\ Len(d) \in Nat
  BY <1>1
<1>3. ASSUME NEW i PROVE i \in Common(a, b) <=> i \in Common(d, b)
  <2>1. i \in Common(a, b) => i \in 1..Len(d)
    BY <1>1, <1>2 DEF Common
  <2>2. i \in Common(d, b) => i \in 1..Len(d)
    BY <1>1 DEF Common
  <2>3. i \in 1..Len(d) =>
          /\ i \in DOMAIN a /\ i \in DOMAIN d
          /\ \A j \in 1..i : a[j] = d[j]
    BY <1>1, <1>2
  <2>4. QED
    BY <2>1, <2>2, <2>3 DEF Common
<1>4. Common(a, b) = Common(d, b)
  BY <1>3
<1>5. Cardinality(Common(a, b)) \in Nat
  BY DistanceIsNatural
<1>6. QED
  BY <1>2, <1>4, <1>5 DEF Distance

(* on the way to b, a hop on is.                                            *)
LEMMA HopOn ==
  ASSUME NEW a \in Seq(Nat), NEW b \in Seq(Nat), NEW d \in Seq(Nat),
         Len(d) = Len(a) + 1, Len(d) <= Len(b),
         \A i \in 1..Len(a) : a[i] = b[i], \A i \in 1..Len(d) : d[i] = b[i]
  PROVE  Distance(d, b) < Distance(a, b)
<1>1. \A x \in Seq(Nat) : /\ DOMAIN x = 1..Len(x) /\ Len(x) \in Nat
                          /\ Cardinality(1..Len(x)) = Len(x)
  BY UpToLength
<1>2. Len(a) \in Nat /\ Len(b) \in Nat /\ Len(d) \in Nat
  BY <1>1
<1>3. ASSUME NEW x \in Seq(Nat), Len(x) <= Len(b), \A i \in 1..Len(x) : x[i] = b[i]
      PROVE  Common(x, b) = 1..Len(x)
  <2>1. DOMAIN x = 1..Len(x) /\ DOMAIN b = 1..Len(b) /\ Len(x) \in Nat
    BY <1>1
  <2>2. \A i \in 1..Len(x) : i \in DOMAIN b /\ \A j \in 1..i : x[j] = b[j]
    BY <1>2, <1>3, <2>1
  <2>3. QED
    BY <2>1, <2>2 DEF Common
<1>4. Common(a, b) = 1..Len(a) /\ Common(d, b) = 1..Len(d)
  <2>1. Len(a) <= Len(b)
    BY <1>2
  <2>2. QED
    BY <1>3, <2>1
<1>5. Cardinality(Common(a, b)) = Len(a) /\ Cardinality(Common(d, b)) = Len(d)
  BY <1>1, <1>4
<1>6. QED
  BY <1>2, <1>5 DEF Distance

(* Within one tree, coordinates are an address.                             *)
LEMMA CoordsAreUnique ==
  ASSUME PathsAreReal, NEW m \in Node, NEW n \in Node,
         Root(m) = Root(n), Coords(m) = Coords(n)
  PROVE  m = n
<1>1. Len(Path(m)) = Len(Coords(m)) /\ Len(Path(n)) = Len(Coords(n))
      /\ Len(Coords(m)) = Len(Coords(n)) /\ Len(Path(m)) \in Nat
  BY CoordsOfPath
<1>2. CASE state[m].parent = NoPeer
  <2>1. Root(m) = m /\ Path(m) = <<>>
    BY <1>2 DEF PathsAreReal
  <2>2. Len(Path(n)) = 0
    BY <1>1, <2>1
  <2>3. state[n].parent = NoPeer
    <3>1. ASSUME state[n].parent # NoPeer PROVE FALSE
      <4>1. Len(Path(ParentOf(n))) \in Nat /\ Len(Path(n)) = Len(Path(ParentOf(n))) + 1
        BY <3>1, ParentPath
      <4>2. QED
        BY <2>2, <4>1
    <3>2. QED
      BY <3>1
  <2>4. QED
    BY <2>1, <2>3 DEF PathsAreReal
<1>3. CASE state[m].parent # NoPeer
  <2>1. Len(Path(ParentOf(m))) \in Nat /\ Len(Path(m)) = Len(Path(ParentOf(m))) + 1
    BY <1>3, ParentPath
  <2>2. Path(n) # <<>>
    BY <1>1, <2>1
  <2>3. state[n].parent # NoPeer
    BY <2>2 DEF PathsAreReal
  <2>4. Coords(m)[Len(Coords(m))] = m /\ Coords(n)[Len(Coords(n))] = n
    BY <1>3, <2>3, CoordsOfParent
  <2>5. QED
    BY <2>4
<1>4. QED
  BY <1>2, <1>3

(* In a settled tree somebody is always nearer.                             *)
LEMMA SomebodyIsNearer ==
  ASSUME PathsAreReal, TablesAreReal, NEW n \in Node, NEW m \in Node,
         Root(m) = Root(n), m # n
  PROVE  \E p \in up[m] :
           /\ Root(p[1]) = Root(m) /\ Announced(p[1]).seq = Announced(m).seq
           /\ Distance(Coords(p[1]), Coords(n)) < Distance(Coords(m), Coords(n))
<1> DEFINE a == Coords(m)
           b == Coords(n)
<1>1. a \in Seq(Nat) /\ b \in Seq(Nat) /\ DOMAIN a = 1..Len(a) /\ DOMAIN b = 1..Len(b)
      /\ Len(a) \in Nat /\ Len(b) \in Nat /\ Len(a) = Len(Path(m)) /\ Len(b) = Len(Path(n))
  BY CoordsOfPath, LenProperties
<1>2. CASE Len(a) # 0 /\ Len(a) \notin Common(a, b)
  <2>1. state[m].parent # NoPeer
    <3>1. Path(m) # <<>>
      BY <1>1, <1>2
    <3>2. QED
      BY <3>1 DEF PathsAreReal
  <2> DEFINE p == state[m].parent
             d == Coords(p[1])
  <2>2. p \in up[m] /\ p[1] \in Node /\ Root(p[1]) = Root(m) /\ Announced(p[1]).seq = Announced(m).seq
    BY <2>1 DEF PathsAreReal, ParentOf
  <2>3. d \in Seq(Nat)
    BY <2>2, CoordsOfPath
  <2>4. Len(a) = Len(d) + 1 /\ \A i \in 1..Len(d) : a[i] = d[i]
    BY <2>1, CoordsOfParent DEF ParentOf
  <2> HIDE DEF a, b, d
  <2>5. Distance(d, b) < Distance(a, b)
    BY <1>1, <1>2, <2>3, <2>4, HopBack
  <2>6. QED
    BY <2>2, <2>5 DEF a, b, d
<1>3. CASE Len(a) = 0 \/ Len(a) \in Common(a, b)
  <2>1. Len(a) <= Len(b) /\ \A i \in 1..Len(a) : a[i] = b[i]
    <3> HIDE DEF a, b
    <3>1. CASE Len(a) = 0
      BY <1>1, <3>1
    <3>2. CASE Len(a) \in Common(a, b)
      BY <1>1, <3>2 DEF Common
    <3>3. QED
      BY <1>3, <3>1, <3>2
  <2>2. Len(a) # Len(b)
    <3>1. ASSUME Len(a) = Len(b) PROVE FALSE
      <4>1. a = b
        <5> HIDE DEF a, b
        <5>1. QED
          BY <1>1, <2>1, <3>1, SeqEqual
      <4>2. QED
        BY <4>1, CoordsAreUnique
    <3>2. QED
      BY <3>1
  <2> DEFINE l == Len(a) + 1
  <2>3. l \in Nat /\ l \in 1..Len(Path(n)) /\ l <= Len(b)
    <3>1. \A i, j \in Nat : i <= j /\ i # j => i + 1 \in Nat /\ i + 1 \in 1..j /\ i + 1 <= j
      OBVIOUS
    <3> HIDE DEF a, b
    <3>2. QED
      BY <1>1, <2>1, <2>2, <3>1
  <2> HIDE DEF l
  <2>4. PICK k \in Node : IsAncestor(k, n, l)
    BY <2>3, Ancestors
  <2> DEFINE c == Coords(k)
             d == Coords(ParentOf(k))
  <2>5. /\ state[k].parent # NoPeer /\ Root(k) = Root(n) /\ Len(Path(k)) = l
        /\ \A j \in 1..l : Path(k)[j] = Path(n)[j]
    BY <2>4 DEF IsAncestor
  <2>6. c \in Seq(Nat) /\ Len(c) = l /\ \A j \in 1..l : c[j] = b[j]
    <3>1. c \in Seq(Nat) /\ Len(c) = l /\ \A j \in 1..l : c[j] = Path(k)[j].hop
      BY <2>5, CoordsOfPath
    <3>2. \A j \in 1..l : j \in 1..Len(Path(n))
      BY <2>3
    <3>3. \A j \in 1..l : b[j] = Path(n)[j].hop
      BY <3>2, CoordsOfPath
    <3>4. QED
      BY <2>5, <3>1, <3>3
  <2>7. ParentOf(k) \in Node /\ Root(ParentOf(k)) = Root(m)
        /\ Announced(ParentOf(k)).seq = Announced(k).seq
    BY <2>5 DEF PathsAreReal
  <2>8. d \in Seq(Nat) /\ Len(d) \in Nat /\ Len(c) = Len(d) + 1
        /\ \A j \in 1..Len(d) : c[j] = d[j]
    BY <2>5, <2>7, CoordsOfParent, CoordsOfPath
  <2>9. d = a
    <3> HIDE DEF a, b, c, d
    <3>1. Len(d) = Len(a)
      BY <1>1, <2>6, <2>8 DEF l
    <3>2. \A j \in 1..Len(d) : j \in 1..l
      BY <1>1, <3>1 DEF l
    <3>3. \A j \in 1..Len(d) : d[j] = a[j]
      BY <2>1, <2>6, <2>8, <3>1, <3>2
    <3>4. QED
      BY <1>1, <2>8, <3>1, <3>3, SeqEqual
  <2>10. ParentOf(k) = m
    BY <2>7, <2>9, CoordsAreUnique
  <2> DEFINE p == <<k, state[k].parent[2]>>
  <2>11. p \in up[m] /\ p[1] = k
    <3>1. state[k].parent \in up[k]
      BY <2>5 DEF PathsAreReal
    <3>2. p \in up[state[k].parent[1]]
      BY <3>1 DEF TablesAreReal
    <3>3. QED
      BY <2>10, <3>2 DEF ParentOf
  <2>12. Distance(c, b) < Distance(a, b)
    <3> HIDE DEF a, b, c
    <3>1. Len(c) = Len(a) + 1 /\ Len(c) <= Len(b)
      BY <2>3, <2>6 DEF l
    <3>2. \A i \in 1..Len(c) : c[i] = b[i]
      BY <2>6
    <3>3. QED
      BY <1>1, <2>1, <2>6, <3>1, <3>2, HopOn
  <2>13. QED
    BY <2>5, <2>7, <2>10, <2>11, <2>12
<1>4. QED
  BY <1>2, <1>3

(* What a router has stored of a neighbour holds the neighbour's            *)
(* coordinates.                                                             *)
LEMMA StoredCoords ==
  ASSUME PathsAreReal, TablesAreReal, NEW n \in Node, NEW p \in up[n]
  PROVE  Tree(n)!PeerCoords(Entry(n, p)) = Coords(p[1])
<1> DEFINE x == Path(p[1])
           s == Signature(p[1], n)
<1>1. p[1] \in Node /\ Entry(n, p).sigs = Append(x, s)
  BY DEF TablesAreReal
<1>2. x \in Seq([key : Nat, hop : Nat]) /\ s \in [key : Nat, hop : Nat]
  BY <1>1, SignatureFacts, NetworkAssumption DEF PathsAreReal
<1> DEFINE y == Append(x, s)
<1>3. Coords(p[1]) = Tree(n)!Hops(x)
  BY DEF Coords, Tree!Coords, Tree!Hops, Path, Announced, Ann
<1>4. Tree(n)!PeerCoords(Entry(n, p)) = Tree(n)!Hops(SubSeq(y, 1, Len(y) - 1))
  BY <1>1 DEF Tree!PeerCoords
<1> HIDE DEF x, s
<1>5. /\ y \in Seq([key : Nat, hop : Nat]) /\ Len(y) = Len(x) + 1 /\ Len(x) \in Nat
      /\ \A i \in 1..Len(x) : y[i] = x[i] /\ x[i] \in [key : Nat, hop : Nat]
  <2>1. \A i \in 1..Len(x) : x[i] \in [key : Nat, hop : Nat]
    BY <1>2, ElementOfSeq
  <2>2. /\ y \in Seq([key : Nat, hop : Nat]) /\ Len(y) = Len(x) + 1 /\ Len(x) \in Nat
        /\ \A i \in 1..Len(x) : y[i] = x[i]
    BY <1>2, AppendFacts
  <2>3. QED
    BY <2>1, <2>2
<1> HIDE DEF y
<1>6. /\ SubSeq(y, 1, Len(x)) \in Seq([key : Nat, hop : Nat])
      /\ Len(SubSeq(y, 1, Len(x))) = Len(x)
      /\ \A i \in 1..Len(x) : SubSeq(y, 1, Len(x))[i] = y[i]
  <2>1. \A i \in 1..Len(x) : y[i] \in [key : Nat, hop : Nat]
    BY <1>5
  <2>2. 1 \in Int /\ Len(x) \in Int /\ Len(x) - 1 + 1 = Len(x) /\ (~(1 <= Len(x)) => Len(x) = 0)
    BY <1>5
  <2>3. /\ SubSeq(y, 1, Len(x)) \in Seq([key : Nat, hop : Nat])
        /\ Len(SubSeq(y, 1, Len(x))) = IF 1 <= Len(x) THEN Len(x) - 1 + 1 ELSE 0
        /\ \A i \in 1..(Len(x) - 1 + 1) : SubSeq(y, 1, Len(x))[i] = y[1 + i - 1]
    BY <2>1, <2>2, SubSeqProperties
  <2>4. \A i \in 1..Len(x) : 1 + i - 1 = i
    OBVIOUS
  <2>5. QED
    BY <2>2, <2>3, <2>4
<1>7. SubSeq(y, 1, Len(x)) = x
  BY <1>2, <1>5, <1>6, SeqEqual
<1>8. Len(y) - 1 = Len(x)
  BY <1>5
<1>9. QED
  BY <1>3, <1>4, <1>7, <1>8

(* Whoever sent the frame here, unless it is nearer itself, the search finds  *)
(* peers that are nearer and nothing else.                                   *)
LEMMA NearerHops ==
  ASSUME NetworkIInv, Quiet, NEW m \in Node, NEW n \in Node, Root(m) = Root(n), m # n,
         NEW from,
         from \in up[m] => ~(Distance(Coords(from[1]), Coords(n)) < Distance(Coords(m), Coords(n)))
  PROVE  LET hops == Tree(m)!NextHopsTree(state[m], from, Coords(n), up[m])
         IN  /\ hops # {}
             /\ \A p \in hops :
                  /\ p \in up[m] /\ p # from
                  /\ Distance(Coords(p[1]), Coords(n)) < Distance(Coords(m), Coords(n))
<1> DEFINE b == Coords(n)
           dist(p) == Distance(Coords(p[1]), b)
           closer == { p \in up[m] : /\ Entry(m, p).root = Root(m)
                                     /\ Entry(m, p).seq = Announced(m).seq
                                     /\ dist(p) < Distance(Coords(m), b) }
           nearest == { p \in closer : \A q \in closer : dist(p) <= dist(q) }
<1>1. PathsAreReal /\ TablesAreReal /\ NobodyIsBetter
  BY QuietPaths, QuietTables, QuietNobodyIsBetter
<1>2. m \in Node /\ m # n /\ Root(m) = Root(n)
  OBVIOUS
<1>3. \A k, x, y : Tree(k)!DistanceTo(x, y) = Distance(x, y)
  BY DistanceToIsDistance
<1>4. \A p \in closer : p # from
  OBVIOUS
<1>5. \A p \in up[m] : /\ Entry(m, p) # NoAnn
                       /\ Tree(m)!PeerCoords(state[m].announcements[p]) = Coords(p[1])
  <2> TAKE p \in up[m]
  <2>2. Entry(m, p) # NoAnn
    BY <1>1 DEF TablesAreReal
  <2>3. Tree(m)!PeerCoords(Entry(m, p)) = Coords(p[1])
    BY <1>1, StoredCoords
  <2>4. QED
    BY <2>2, <2>3 DEF Entry
<1>6. Tree(m)!NextHopsTree(state[m], from, b, up[m]) = nearest
  <2> DEFINE own == Tree(m)!RootAnnouncement(state[m])
             far(p) == Tree(m)!DistanceTo(Tree(m)!PeerCoords(state[m].announcements[p]), b)
             near == { p \in up[m] \ {from} :
                         /\ state[m].announcements[p] # NoAnn
                         /\ state[m].announcements[p].root = own.root
                         /\ state[m].announcements[p].seq = own.seq
                         /\ far(p) < Tree(m)!DistanceTo(Tree(m)!Coords(state[m]), b) }
  <2>1. Tree(m)!NextHopsTree(state[m], from, b, up[m])
          = { p \in near : \A q \in near : far(p) <= far(q) }
    BY DEF Tree!NextHopsTree
  <2>2. \A p \in up[m] : far(p) = dist(p)
    BY <1>3, <1>5
  <2>3. Tree(m)!DistanceTo(Tree(m)!Coords(state[m]), b) = Distance(Coords(m), b)
    BY <1>3 DEF Coords
  <2>4. own.root = Root(m) /\ own.seq = Announced(m).seq
    BY DEF Root, Announced, Ann
  <2> HIDE DEF far, dist, own
  <2>5. \A p \in up[m] :
          /\ p \in near <=>
               /\ p # from /\ state[m].announcements[p] # NoAnn
               /\ state[m].announcements[p].root = own.root
               /\ state[m].announcements[p].seq = own.seq
               /\ far(p) < Tree(m)!DistanceTo(Tree(m)!Coords(state[m]), b)
          /\ p \in closer <=>
               /\ Entry(m, p).root = Root(m) /\ Entry(m, p).seq = Announced(m).seq
               /\ dist(p) < Distance(Coords(m), b)
    OBVIOUS
  <2>6. \A p \in up[m] : p \in near <=> p \in closer
    BY <1>4, <1>5, <2>2, <2>3, <2>4, <2>5 DEF Entry
  <2>7. near \subseteq up[m] /\ closer \subseteq up[m]
    OBVIOUS
  <2> HIDE DEF near, closer
  <2>8. near = closer
    BY <2>6, <2>7
  <2>9. QED
    BY <2>1, <2>2, <2>7, <2>8
<1>7. closer # {}
  <2>1. PICK p \in up[m] : /\ Root(p[1]) = Root(m) /\ Announced(p[1]).seq = Announced(m).seq
                           /\ dist(p) < Distance(Coords(m), b)
    BY <1>1, <1>2, SomebodyIsNearer
  <2>2. Entry(m, p).root = Root(p[1]) /\ Entry(m, p).seq = Announced(p[1]).seq
    BY ZenonT(60), <1>1, <1>2 DEF TablesAreReal
  <2>3. QED
    BY <2>1, <2>2
<1>8. \A p \in closer : dist(p) \in Nat
  <2>1. ASSUME NEW p \in up[m] PROVE dist(p) \in Nat
    <3>1. p[1] \in Node
      BY <1>1, <1>2 DEF TablesAreReal
    <3>2. Coords(p[1]) \in Seq(Nat) /\ b \in Seq(Nat)
      BY <1>1, <3>1, CoordsOfPath
    <3>3. QED
      BY <3>2, DistanceIsNatural
  <2>2. QED
    BY <2>1
<1>9. nearest # {}
  <2> HIDE DEF closer, dist
  <2> DEFINE L == { dist(p) : p \in closer }
  <2>1. L \in SUBSET Nat /\ L # {}
    BY <1>7, <1>8
  <2>2. PICK x \in L : \A y \in L : x <= y
    <3> HIDE DEF L
    <3>1. QED
      BY <2>1, LeastNatural
  <2>3. QED
    BY <2>2
<1>10. \A p \in nearest : p \in up[m] /\ p # from /\ dist(p) < Distance(Coords(m), b)
  BY <1>4
<1> HIDE DEF nearest
<1>11. QED
  BY <1>6, <1>9, <1>10

LEMMA DeliveryFromInvariant == NetworkIInv => QuietTreeDelivers
<1> SUFFICES ASSUME NetworkIInv, Quiet, NEW n \in Node, NEW m \in Component(n) \ {n}
             PROVE  LET hops == Tree(m)!NextHopsTree(state[m], NoPeer, Coords(n), up[m])
                        distance(k) == Tree(k)!DistanceTo(Coords(k), Coords(n))
                    IN  hops # {} /\ \A p \in hops : distance(p[1]) < distance(m)
  BY DEF QuietTreeDelivers
<1>1. m \in Node /\ m # n /\ Root(m) = Root(n)
  BY QuietPaths, QuietTables, QuietNobodyIsBetter, SameRoot DEF Component
<1>2. NoPeer \notin up[m]
  BY <1>1, NetworkAssumption DEF NetworkIInv, NetworkTypes
<1>3. \A k, x, y : Tree(k)!DistanceTo(x, y) = Distance(x, y)
  BY DistanceToIsDistance
<1>4. QED
  BY <1>1, <1>2, <1>3, NearerHops

(* Then a frame that is addressed by coordinates gets where it is going: a  *)
(* router on its way always has a neighbour that getNextHopTree may pick,   *)
(* and whichever it picks is really closer to the destination.              *)
THEOREM QuietTreeDelivering == Spec => []QuietTreeDelivers
<1>1. NetworkIInv => QuietTreeDelivers
  BY DeliveryFromInvariant
<1>2. QED
  BY <1>1, NetworkInvariance, PTL
=============================================================================
