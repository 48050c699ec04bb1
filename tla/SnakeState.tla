----------------------------- MODULE SnakeState -----------------------------
(***************************************************************************)
(* The virtual snake of one router (internal/pinecone/router/state_snek.go)*)
(* and its part of state.go: one operator per function, over the snake's   *)
(* record s and the tree's record t (TreeState).                           *)
(*                                                                         *)
(* The snake's record has                                                  *)
(*   table       the virtualSnakeTable: per key an entry, NoEntry where the*)
(*               map has none                                              *)
(*   descending  the entry _descending points at, NoEntry for nil          *)
(* An entry has the key it leads to, the peers its bootstrap came from and *)
(* went to, the root and sequence it was made under, its own sequence, and *)
(* whether virtualSnakeNeighExpiryPeriod has passed since LastSeen.        *)
(*                                                                         *)
(* Every link is of one medium: peertype never differs.                    *)
(***************************************************************************)
EXTENDS Integers, FiniteSets

CONSTANTS
  Self, Key,  \* our public key, and all of them
  Peer, PeerKey,
  NoPeer, NoAnn, NoEntry,
  Local,      \* s.r.local, the peer in port 0
  FullMask    \* the key above all keys

EmptySnake == [table |-> [k \in Key |-> NoEntry], descending |-> NoEntry]

FirstWatermark == [key |-> FullMask, seq |-> 0]

(* Mutant: the zero of a tree hop is compared like a sequence.              *)
WorseThanByZero(a, b) == a.key > b.key \/ (a.key = b.key /\ a.seq < b.seq)

WorseThan(a, b) == a.key > b.key \/ (a.key = b.key /\ a.seq # 0 /\ a.seq < b.seq)

DHTOrdered(a, b, c) == a < b /\ b < c

SameRoot(a, b) == a.root = b.root /\ a.rseq = b.rseq

----------------------------------------------------------------------------
(* Next hops.  `up' is the set of started peers, `root' what                *)
(* _rootAnnouncement returns.                                               *)

(* newCheckedCandidate over a set of keys: the best of them, or `best'.     *)
BestOf(keys, best, dest, bootstrap) ==
  LET between == { k \in keys : DHTOrdered(dest, k, best) }
  IN  IF ~bootstrap /\ dest \in keys THEN dest
      ELSE IF best = dest \/ between = {} THEN best
      ELSE CHOOSE k \in between : \A j \in between : k <= j

KeysBehind(t, p) ==
  IF p = NoPeer THEN {}
  ELSE IF t.announcements[p] = NoAnn THEN {}
  ELSE { t.announcements[p].sigs[i].key : i \in DOMAIN t.announcements[p].sigs }

(* Whether the way to the root is where the search begins.                  *)
TowardsRoot(t, up, root, dest, bootstrap) ==
  /\ t.parent \in up
  /\ (bootstrap /\ Self = dest) \/ DHTOrdered(Self, dest, root)

(* The last loop prefers, of several peerings with the chosen node, the one *)
(* that heard of the root first.  It does not ask whether they are started. *)
Preferred(t, key, peers) ==
  LET twin(p, q) == /\ p \in Peer
                    /\ t.announcements[p] # NoAnn
                    /\ PeerKey[q] = key
                    /\ t.announcements[q] # NoAnn
                    /\ t.announcements[q].root = t.announcements[p].root
                    /\ t.announcements[q].seq = t.announcements[p].seq
                    /\ t.announcements[q].order < t.announcements[p].order
  IN  UNION { LET better == { q \in Peer : twin(p, q) }
              IN  IF better = {} THEN {p}
                  ELSE { q \in better : \A r \in better : ~twin(q, r) } : p \in peers }

(* Entries that lead away from the frame's watermark.                       *)
UsableEntries(s, up, mark) ==
  { k \in Key : /\ s.table[k] # NoEntry
                /\ s.table[k].source \in up
                /\ ~s.table[k].expired
                /\ ~WorseThan([key |-> k, seq |-> s.table[k].seq], mark) }

(* getNextHopSNEK: the peers and watermarks it may return, as the order in  *)
(* which the maps are walked has it.                                        *)
NextHopsSNEK(t, s, up, root, dest, bootstrap, mark) ==
  LET ancestors == IF t.parent \in up THEN KeysBehind(t, t.parent) ELSE {}
      toRoot    == TowardsRoot(t, up, root, dest, bootstrap)
      first     == IF toRoot THEN root ELSE Self
      second    == BestOf(ancestors, first, dest, bootstrap)
      third     == BestOf(UNION { KeysBehind(t, p) : p \in up }, second, dest, bootstrap)
      byTree    == IF third # second THEN { p \in up : third \in KeysBehind(t, p) }
                   ELSE IF second # first \/ toRoot THEN {t.parent}
                   ELSE {IF bootstrap THEN NoPeer ELSE Local}
      direct    == { p \in up : t.announcements[p] # NoAnn /\ PeerKey[p] = third }
      entries   == UsableEntries(s, up, mark)
      last      == BestOf(entries, third, dest, bootstrap)
      hops      == IF last # third THEN {s.table[last].source}
                   ELSE IF direct # {} THEN direct ELSE byTree
  IN  IF ~bootstrap /\ Self = dest THEN {[peer |-> Local, mark |-> mark]}
      ELSE { [peer |-> p,
              mark |-> [key |-> last, seq |-> IF last = third THEN 0 ELSE s.table[last].seq]] :
             p \in Preferred(t, last, hops) }

----------------------------------------------------------------------------
(* Bootstraps and the table.                                                *)

(* _maintainSnake up to its bootstrap.                                      *)
MaintainSnake(s, root) ==
  [table |-> [k \in Key |-> IF s.table[k] = NoEntry THEN NoEntry
                            ELSE IF s.table[k].expired THEN NoEntry ELSE s.table[k]],
   descending |-> IF s.descending = NoEntry THEN NoEntry
                  ELSE IF s.descending.expired \/ ~SameRoot(s.descending, root) THEN NoEntry
                  ELSE s.descending]

(* The bootstrap of _bootstrapNow before it is routed.                      *)
NewBootstrap(root, seq) ==
  [dest |-> Self, root |-> root.root, rseq |-> root.rseq, seq |-> seq, mark |-> FirstWatermark]

(* Whether _handleBootstrap returns true.                                   *)
AcceptsBootstrap(s, root, b) ==
  /\ SameRoot(b, root)
  /\ \/ s.table[b.dest] = NoEntry
     \/ ~SameRoot(s.table[b.dest], b)
     \/ b.seq > s.table[b.dest].seq

(* Mutant: the nearest of the nodes below us is not preferred.              *)
BecomesDescendingAnyway(s, b) == b.dest < Self

BecomesDescending(s, b) ==
  /\ b.dest < Self
  /\ \/ s.descending = NoEntry
     \/ s.descending.expired
     \/ s.descending.key = b.dest
     \/ DHTOrdered(s.descending.key, b.dest, Self)

(* What _handleBootstrap does with a bootstrap it accepts.                  *)
HandleBootstrap(s, from, to, b) ==
  LET entry == [key |-> b.dest, source |-> from, destination |-> to,
                root |-> b.root, rseq |-> b.rseq, seq |-> b.seq, expired |-> FALSE]
  IN  [table |-> [s.table EXCEPT ![b.dest] = entry],
       descending |-> IF BecomesDescending(s, b) THEN entry ELSE s.descending]

(* The snake's part of _portDisconnected.                                   *)
SnakePortDisconnected(s, p, up) ==
  IF up = {} THEN EmptySnake
  ELSE [table |-> [k \in Key |-> IF s.table[k] = NoEntry THEN NoEntry
                                 ELSE IF p \in {s.table[k].source, s.table[k].destination}
                                 THEN NoEntry ELSE s.table[k]],
        descending |-> IF s.descending = NoEntry THEN NoEntry
                       ELSE IF s.descending.source = p THEN NoEntry ELSE s.descending]
=============================================================================
