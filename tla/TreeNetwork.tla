---------------------------- MODULE TreeNetwork ----------------------------
(***************************************************************************)
(* Several routers, each the state machine of TreeState, joined by links   *)
(* that come up, break and come up again.  Every connection makes a new    *)
(* *peer object at both ends; frames on a connection arrive in the order   *)
(* in which they were pushed, and none arrives once the receiving end has  *)
(* stopped.  The two ends of a broken link find out independently.         *)
(*                                                                         *)
(* A link end is stopped and cleaned up in one step here; what happens     *)
(* between the two is TreeNode's subject.                                  *)
(***************************************************************************)
EXTENDS Integers, Sequences, FiniteSets

CONSTANTS
  Node,            \* the routers: their public keys, naturals
  Links,           \* pairs <<m, n>> of nodes, m < n, that may be connected
  NoPeer, NoAnn,
  MaxConnections,  \* bound: how often one link comes up
  MaxFailures,     \* bound: how many times a link breaks
  MaxSequence,     \* bound: the sequence up to which tree timers fire
  MaxOverlaps      \* bound: events (a link up or down, a timer) that come before
                   \* the network has settled from earlier ones

ASSUME LinksAreOrdered == Links \subseteq { l \in Node \X Node : l[1] < l[2] }

VARIABLES
  state,     \* per node its TreeState record
  up,        \* per node its started peers: pairs of a neighbour and a connection
  chan,      \* per node and peer, the announcements on their way to it
  made,      \* per link the connections made so far
  broken,    \* the links whose latest connection has broken
  failures,  \* how many links broke by themselves
  overlaps   \* how many events came before the network had settled

vars == <<state, up, chan, made, broken, failures, overlaps>>

Neighbour(m, n) == <<m, n>> \in Links \/ <<n, m>> \in Links
LinkOf(m, n) == IF m < n THEN <<m, n>> ELSE <<n, m>>

Peers == Node \X (1..MaxConnections)
None == [p \in Peers |-> <<>>]

ASSUME NetworkAssumption ==
  /\ IsFiniteSet(Node) /\ Node \subseteq Nat
  /\ MaxConnections \in Nat
  /\ NoPeer \notin Peers
  /\ NoAnn \notin [root : Nat, seq : Nat, sigs : Seq([key : Nat, hop : Nat]),
                   order : Nat, expired : BOOLEAN]

(* A switch has one port per neighbour here, numbered by its key.           *)
NeighbourOf == [p \in Peers |-> p[1]]

Tree(n) == INSTANCE TreeState WITH
  Self <- n, Peer <- Peers, PeerKey <- NeighbourOf, PeerPort <- NeighbourOf

(* Receive orders are only ever compared: number the entries of the table   *)
(* 1, 2, ... in their order, so that a long history leaves no mark.         *)
Renumber(s) ==
  LET stored == { p \in Peers : s.announcements[p] # NoAnn }
      rank(p) == Cardinality({ q \in stored :
                   s.announcements[q].order <= s.announcements[p].order })
  IN  [s EXCEPT !.proto = None,
                !.ordering = Cardinality(stored),
                !.announcements = [p \in Peers |->
                  IF p \in stored THEN [s.announcements[p] EXCEPT !.order = rank(p)] ELSE NoAnn]]

(* Node n takes state s; what it pushed goes to the ends that are up.  (The *)
(* singleton makes TLC compute s once when it evaluates ENABLED.)           *)
Become(n, s, chans) ==
  \E t \in {s} :
    /\ state' = [state EXCEPT ![n] = Renumber(t)]
    /\ chan' = IF t.proto = None THEN chans
               ELSE [m \in Node |-> [p \in Peers |->
                       IF p[1] = n /\ p \in up'[m] THEN chans[m][p] \o t.proto[<<m, p[2]>>]
                                                   ELSE chans[m][p]]]

Init ==
  /\ state = [n \in Node |-> Tree(n)!InitialState]
  /\ up = [n \in Node |-> {}]
  /\ chan = [n \in Node |-> None]
  /\ made = [l \in Links |-> 0]
  /\ broken = {}
  /\ failures = 0
  /\ overlaps = 0

(* Nothing is on its way and no broken link is unnoticed ...                *)
Drained ==
  \A n \in Node : chan[n] = None /\ \A p \in up[n] : LinkOf(n, p[1]) \notin broken

(* ... and nobody waits.                                                    *)
Quiet == Drained /\ \A n \in Node : ~state[n].waiting

(* An event finds the network settled, or is one of the MaxOverlaps.        *)
EventWhen(settled) ==
  \/ settled /\ UNCHANGED overlaps
  \/ ~settled /\ overlaps < MaxOverlaps /\ overlaps' = overlaps + 1

(* Both ends of link l run _addPeer and push their current root.            *)
Connect(l) ==
  LET m == l[1]
      n == l[2]
      c == made[l] + 1
  IN  /\ made[l] < MaxConnections
      /\ made[l] = 0 \/ l \in broken
      /\ \A k \in 1..made[l] : <<n, k>> \notin up[m] /\ <<m, k>> \notin up[n]
      /\ made' = [made EXCEPT ![l] = c]
      /\ broken' = broken \ {l}
      /\ up' = [up EXCEPT ![m] = @ \cup {<<n, c>>}, ![n] = @ \cup {<<m, c>>}]
      /\ chan' = [chan EXCEPT
           ![m][<<n, c>>] = <<Tree(n)!ForPeer(Tree(n)!RootAnnouncement(state[n]), <<m, c>>)>>,
           ![n][<<m, c>>] = <<Tree(m)!ForPeer(Tree(m)!RootAnnouncement(state[m]), <<n, c>>)>>]
      /\ EventWhen(Quiet)
      /\ UNCHANGED <<state, failures>>

Break(l) ==
  /\ failures < MaxFailures
  /\ made[l] > 0
  /\ l \notin broken
  /\ broken' = broken \cup {l}
  /\ failures' = failures + 1
  /\ EventWhen(Quiet)
  /\ UNCHANGED <<state, up, chan, made>>

(* stop and its clean-up at node n, whose peer p is gone.                   *)
Drop(n, p) ==
  /\ up' = [up EXCEPT ![n] = @ \ {p}]
  /\ Become(n, Tree(n)!PortDisconnected(state[n], p, up[n] \ {p}),
            [chan EXCEPT ![n][p] = <<>>])

Disconnect(n, p) ==
  /\ p \in up[n]
  /\ LinkOf(n, p[1]) \in broken
  /\ Drop(n, p)
  /\ UNCHANGED <<made, broken, failures, overlaps>>

(* The state actor of n handles the next announcement of its peer p ...     *)
Deliver(n, p) ==
  /\ p \in up[n]
  /\ chan[n][p] # <<>>
  /\ ~Tree(n)!Refused(state[n], p, Head(chan[n][p]))
  /\ UNCHANGED <<up, made, broken, failures, overlaps>>
  /\ Become(n, Tree(n)!HandleTreeAnnouncement(state[n], p, Head(chan[n][p]), up[n]),
            [chan EXCEPT ![n][p] = Tail(@)])

(* ... or refuses it and closes the connection.                             *)
Refuse(n, p) ==
  /\ p \in up[n]
  /\ chan[n][p] # <<>>
  /\ Tree(n)!Refused(state[n], p, Head(chan[n][p]))
  /\ broken' = broken \cup {LinkOf(n, p[1])}
  /\ Drop(n, p)
  /\ UNCHANGED <<made, failures, overlaps>>

(* The second is over: as a rule the announcements it was meant for are in. *)
EndWait(n) ==
  /\ state[n].waiting
  /\ EventWhen(Drained)
  /\ UNCHANGED <<up, made, broken, failures>>
  /\ Become(n, Tree(n)!EndWait(state[n], up[n]), chan)

MaintainTree(n) ==
  /\ state[n].parent = NoPeer
  /\ state[n].sequence < MaxSequence
  /\ EventWhen(Quiet)
  /\ UNCHANGED <<up, made, broken, failures>>
  /\ Become(n, Tree(n)!MaintainTree(state[n], up[n]), chan)

NodeStep(n) ==
  \/ EndWait(n)
  \/ MaintainTree(n)
  \/ \E p \in Peers : Disconnect(n, p) \/ Deliver(n, p) \/ Refuse(n, p)

Next ==
  \/ \E l \in Links : Connect(l) \/ Break(l)
  \/ \E n \in Node : NodeStep(n)

(* Node n has something to do.  It is ENABLED NodeStep(n) written out, since  *)
(* each of its steps changes the state: TLC would have to take every step   *)
(* to find that.                                                            *)
CanStep(n) ==
  \/ state[n].waiting /\ (Drained \/ overlaps < MaxOverlaps)
  \/ /\ state[n].parent = NoPeer /\ state[n].sequence < MaxSequence
     /\ Quiet \/ overlaps < MaxOverlaps
  \/ \E p \in up[n] : LinkOf(n, p[1]) \in broken \/ chan[n][p] # <<>>

(* Weak fairness: some node with work to do does it, because actors run,    *)
(* connections deliver and timers fire, in any order.                       *)
NodeFairness ==
  []<>(\A n \in Node : ~CanStep(n)) \/ []<><<\E n \in Node : NodeStep(n)>>_vars

(* Some link that may come up does so, because the connection manager keeps *)
(* dialling.  Nothing makes a link break.                                   *)
Spec ==
  /\ Init /\ [][Next]_vars
  /\ WF_vars(\E l \in Links : Connect(l))
  /\ NodeFairness

----------------------------------------------------------------------------
Root(n) == Tree(n)!RootAnnouncement(state[n]).root
Attached(m, n) == \E p \in up[n] : p[1] = m

(* The nodes that n can reach over links that are up at both ends: those in *)
(* every set around n that no such link leaves.                             *)
Component(n) ==
  { m \in Node : \A S \in SUBSET Node :
      (n \in S /\ \A k \in S, j \in Node \ S : ~(Attached(j, k) /\ Attached(k, j))) => m \in S }

StrongestIn(S) == CHOOSE n \in S : \A m \in S : m <= n

Coords(n) == Tree(n)!Coords(state[n])

(* A quiet network is a spanning tree: all nodes of a component follow its  *)
(* strongest key, and what each was told of its path to the root is the     *)
(* path its parent is really on, one hop longer.                            *)
QuietIsTree ==
  Quiet => \A n \in Node :
    /\ Root(n) = StrongestIn(Component(n))
    /\ state[n].parent # NoPeer =>
         /\ state[n].parent \in up[n]
         /\ Coords(n) = Append(Coords(state[n].parent[1]), n)

(* In a quiet network a frame addressed by coordinates gets where it is     *)
(* going: whichever next hop a node on its way picks is really closer, and  *)
(* there is one.                                                            *)
QuietTreeDelivers ==
  Quiet => \A n \in Node : \A m \in Component(n) \ {n} :
    LET hops == Tree(m)!NextHopsTree(state[m], NoPeer, Coords(n), up[m])
        distance(k) == Tree(k)!DistanceTo(Coords(k), Coords(n))
    IN  hops # {} /\ \A p \in hops : distance(p[1]) < distance(m)

(* The root of every node settles, and on the strongest key of its          *)
(* component.                                                               *)
Converges == <>[](\A n \in Node : Root(n) = StrongestIn(Component(n)))

(* Nodes that run this code never refuse one another's announcements.       *)
NeverRefused ==
  \A n \in Node : \A p \in up[n] :
    chan[n][p] # <<>> => ~Tree(n)!Refused(state[n], p, Head(chan[n][p]))
=============================================================================
