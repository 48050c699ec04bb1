----------------------------- MODULE Broadcast -----------------------------
(***************************************************************************)
(* Wakeup broadcasts (internal/pinecone/router/state_broadcast.go and      *)
(* _flood in state_forward.go): floods over the links of a settled tree,   *)
(* which all nodes agree on.  Names start with Wakeup because runs put     *)
(* this module beside others.                                              *)
(*                                                                         *)
(* A frame is known by its source and sequence; net holds the copies that  *)
(* are on their way.  One link joins two neighbours, so that _flood's      *)
(* choice between several peerings of one neighbour never comes up.        *)
(***************************************************************************)
EXTENDS Integers, FiniteSets

CONSTANTS
  Router,        \* the nodes
  Peering,       \* the links: sets of two nodes
  TreeEdge,      \* those of the links that are in the tree
  Horizon,       \* NetworkHorizonDistance
  Sender,        \* bound: the nodes whose broadcasts are followed
  MaxBroadcasts  \* bound: the broadcasts of one node

ASSUME TreeIsOfPeerings ==
  /\ IsFiniteSet(Router) /\ Sender \subseteq Router
  /\ TreeEdge \subseteq Peering
  /\ Horizon \in Nat \ {0} /\ MaxBroadcasts \in Nat

(* The tree spans the network: one of its edges leaves any set of nodes that *)
(* is neither empty nor the whole.                                          *)
ASSUME TreeSpans ==
  \A S \in SUBSET Router :
    S # {} /\ S # Router => \E a \in S, b \in Router \ S : {a, b} \in TreeEdge

VARIABLES
  net,    \* copies on their way: [source, seq, limit, from, to]
  sent,   \* per node the sequence (its clock) of its latest broadcast
  seen,   \* _seenBroadcasts: per node and source the sequence, 0 for no entry
  hot,    \* per node the sources seen within broadcastFilterTime
  quiet   \* sources that no filter was closed to when they last sent, and that
          \* nobody has forgotten since

wakeupVars == <<net, sent, seen, hot, quiet>>

WakeupTypeOK ==
  /\ net \subseteq [source : Router, seq : 1..MaxBroadcasts, limit : 1..Horizon,
                    from : Router, to : Router]
  /\ sent \in [Router -> 0..MaxBroadcasts]
  /\ seen \in [Router -> [Router -> 0..MaxBroadcasts]]
  /\ hot \in [Router -> SUBSET Router]
  /\ quiet \subseteq Router

WakeupInit ==
  /\ net = {}
  /\ sent = [n \in Router |-> 0]
  /\ seen = [n \in Router |-> [s \in Router |-> 0]]
  /\ hot = [n \in Router |-> {}]
  /\ quiet = {}

(* Mutant: a flood along the tree only goes one way, towards higher keys.   *)
FloodTargetsAscending(n, from, tree) ==
  { m \in Router \ {from} : {n, m} \in IF tree THEN { e \in TreeEdge : m > n } ELSE Peering }

(* The neighbours _flood sends to: all of them but the one the frame came   *)
(* from, or those one step away in the tree.                                *)
FloodTargets(n, from, tree) ==
  { m \in Router \ {from} : {n, m} \in IF tree THEN TreeEdge ELSE Peering }

Flood(n, from, frame, tree) ==
  { [source |-> frame.source, seq |-> frame.seq, limit |-> frame.limit, from |-> n, to |-> m] :
    m \in FloodTargets(n, from, tree) }

(* _maintainBroadcasts: entries that are three minutes old go, and a new    *)
(* broadcast is flooded to every neighbour.                                 *)
MaintainBroadcasts(n, old) ==
  /\ n \in Sender /\ sent[n] < MaxBroadcasts
  /\ sent' = [sent EXCEPT ![n] = @ + 1]
  /\ seen' = [seen EXCEPT ![n] = [s \in Router |-> IF s \in old THEN 0 ELSE @[s]]]
  /\ net' = net \cup Flood(n, n, [source |-> n, seq |-> sent[n] + 1, limit |-> Horizon], FALSE)
  /\ quiet' = IF net = {} /\ \A m \in Router : n \notin hot[m]
              THEN (quiet \cup {n}) \ old ELSE quiet \ (old \cup {n})
  /\ UNCHANGED hot

(* A neighbour's first announcement is answered with a broadcast of its own *)
(* that goes to that neighbour.                                             *)
Greet(n, m) ==
  /\ {n, m} \in Peering
  /\ n \in Sender /\ sent[n] < MaxBroadcasts
  /\ sent' = [sent EXCEPT ![n] = @ + 1]
  /\ net' = net \cup {[source |-> n, seq |-> sent[n] + 1, limit |-> Horizon, from |-> n, to |-> m]}
  /\ quiet' = quiet \ {n}
  /\ UNCHANGED <<seen, hot>>

Filtered(f) == f.source \in hot[f.to] \/ f.seq <= seen[f.to][f.source]

(* _handleBroadcast of a copy whose root is ours.                           *)
HandleBroadcast(f) ==
  /\ f \in net
  /\ IF Filtered(f)
     THEN net' = net \ {f} /\ UNCHANGED <<seen, hot>>
     ELSE /\ seen' = [seen EXCEPT ![f.to][f.source] = f.seq]
          /\ hot' = [hot EXCEPT ![f.to] = @ \cup {f.source}]
          /\ net' = (net \ {f}) \cup
               IF f.limit > 1
               THEN Flood(f.to, f.from, [f EXCEPT !.limit = @ - 1], f.limit - 1 < Horizon - 1)
               ELSE {}
  /\ UNCHANGED <<sent, quiet>>

(* Half a minute later.  Floods take less.                                  *)
Cool(n, s) ==
  /\ net = {}
  /\ s \in hot[n]
  /\ hot' = [hot EXCEPT ![n] = @ \ {s}]
  /\ UNCHANGED <<net, sent, seen, quiet>>

WakeupNext ==
  \/ \E n \in Router : \E old \in SUBSET { s \in Router : seen[n][s] # 0 /\ s \notin hot[n] } :
       MaintainBroadcasts(n, old)
  \/ \E n, m \in Router : Greet(n, m)
  \/ \E f \in net : HandleBroadcast(f)
  \/ \E n, s \in Router : Cool(n, s)

(* When a broadcast that no filter was closed to has spent itself, every    *)
(* node has seen it, although most of its way it follows the tree and each  *)
(* node passes on only the first copy, whatever is left of its hop limit.   *)
BroadcastReaches ==
  net = {} => \A s \in quiet : \A n \in Router \ {s} : seen[n][s] = sent[s]
=============================================================================
