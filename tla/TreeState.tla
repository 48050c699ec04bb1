----------------------------- MODULE TreeState -----------------------------
(***************************************************************************)
(* The spanning-tree half of the router's state actor                      *)
(* (internal/pinecone/router/state.go and state_tree.go): one operator per *)
(* function, each a map from the state before a call to the state after    *)
(* it.  The functions run inside one actor, so a whole call is one step.   *)
(*                                                                         *)
(* The state is a record:                                                  *)
(*   parent         the *peer followed in the tree, NoPeer for nil         *)
(*   announcements  the announcementTable: per *peer the last update that  *)
(*                  was stored, NoAnn where the map has no entry           *)
(*   ordering, sequence, waiting     _ordering, _sequence, _waiting        *)
(*   coordsCache    the keys of _coordsCache                               *)
(*   proto          per *peer the tree announcements pushed on p.proto     *)
(*                                                                         *)
(* `up' is the set of peers whose atomic `started' flag is set.  Two side  *)
(* effects are left to the snake and the broadcasts, which may act at any  *)
(* time anyway: _bootstrapSoon, which only brings the next bootstrap       *)
(* forward, and the wakeup broadcast that greets a new neighbour.          *)
(***************************************************************************)
EXTENDS Integers, Sequences, FiniteSets

CONSTANTS
  Self,      \* our public key: keys are naturals, compared as CompareTo does
  Peer,      \* the *peer objects: a reconnection makes a new one
  PeerKey,   \* PeerKey[p]: the public key at the other end of p
  PeerPort,  \* PeerPort[p]: the switch port p is plugged into
  NoPeer,    \* the nil *peer
  NoAnn      \* no entry in the announcement table

Elements(sigs) == { sigs[i] : i \in DOMAIN sigs }

HasSigned(a, key) == \E sig \in Elements(a.sigs) : sig.key = key

SignedTwice(a) == \E i, j \in DOMAIN a.sigs : i # j /\ a.sigs[i].key = a.sigs[j].key

IsLoopOrChildOf(a, key) == HasSigned(a, key) \/ SignedTwice(a)

SanityCheck(a, from) ==
  /\ a.sigs # <<>>
  /\ a.sigs[1].key = a.root
  /\ a.sigs[Len(a.sigs)].key = from
  /\ \A sig \in Elements(a.sigs) : sig.hop # 0
  /\ ~SignedTwice(a)

(* A stored announcement: the update with its receiveOrder, and whether     *)
(* its receiveTime is announcementTimeout or more ago.                      *)
Store(a, order) ==
  [root |-> a.root, seq |-> a.seq, sigs |-> a.sigs, order |-> order, expired |-> FALSE]

SelfAnnouncement(s) ==
  [root |-> Self, seq |-> s.sequence, sigs |-> <<>>, order |-> 0, expired |-> FALSE]

RootAnnouncement(s) ==
  IF s.parent = NoPeer THEN SelfAnnouncement(s)
  ELSE IF s.announcements[s.parent] = NoAnn THEN SelfAnnouncement(s)
  ELSE s.announcements[s.parent]

Hops(sigs) == [i \in DOMAIN sigs |-> sigs[i].hop]

(* Mutant: the hop to us is counted as well.                                *)
PeerCoordsWithUs(a) == Hops(a.sigs)

(* Our coordinates, and those of the peer that sent a: the hops on the way  *)
(* from the root.                                                           *)
Coords(s) == Hops(RootAnnouncement(s).sigs)
PeerCoords(a) == Hops(SubSeq(a.sigs, 1, Len(a.sigs) - 1))

(* The signed update forPeer makes of a stored one.  It panics when our own *)
(* signature is in a.sigs already.                                          *)
ForPeer(a, p) ==
  [root |-> a.root, seq |-> a.seq,
   sigs |-> Append(a.sigs, [key |-> Self, hop |-> PeerPort[p]])]

SendTo(s, a, to) ==
  [s EXCEPT !.proto = [p \in Peer |-> IF p \in to THEN Append(s.proto[p], ForPeer(a, p))
                                                  ELSE s.proto[p]]]

SendTreeAnnouncements(s, up) == SendTo(s, RootAnnouncement(s), up)

(* _setParent with _rootChanged.                                            *)
SetParent(s, p) ==
  LET t == [s EXCEPT !.parent = p]
  IN  [t EXCEPT !.coordsCache =
         IF RootAnnouncement(t).root = RootAnnouncement(s).root THEN s.coordsCache ELSE {}]

(* Mutant: the sequence runs backwards.                                     *)
MaintainTreeBackwards(s, up) ==
  IF s.parent = NoPeer
  THEN SendTreeAnnouncements([s EXCEPT !.sequence = s.sequence - 1], up)
  ELSE s

(* The root counts its sequence up and announces itself.                    *)
MaintainTree(s, up) ==
  IF s.parent = NoPeer
  THEN SendTreeAnnouncements([s EXCEPT !.sequence = s.sequence + 1], up)
  ELSE s

BecomeRoot(s, up) ==
  IF s.parent = NoPeer THEN s ELSE MaintainTree(SetParent(s, NoPeer), up)

----------------------------------------------------------------------------
(* Parent selection.  The loop over the announcement table keeps the best   *)
(* candidate so far; receive orders differ, so the best does not depend on  *)
(* the order in which the map is walked.                                    *)

(* Mutant: any sequence number of our root will do.                         *)
RootToMatchAnySequence(s) == [root |-> RootAnnouncement(s).root, seq |-> 0]

(* The root a candidate has to match: ours, or our own key if it is         *)
(* stronger than the root we follow.                                        *)
RootToMatch(s) ==
  IF RootAnnouncement(s).root < Self THEN [root |-> Self, seq |-> 0]
  ELSE [root |-> RootAnnouncement(s).root, seq |-> RootAnnouncement(s).seq]

NotOlder(a, b) == a.root > b.root \/ (a.root = b.root /\ a.seq >= b.seq)

IsBetterParentCandidate(a, b) ==
  \/ a.root > b.root
  \/ a.root = b.root /\ a.seq > b.seq
  \/ a.root = b.root /\ a.seq = b.seq /\ a.order < b.order

(* Mutants: our own children are candidates; our parent is none.            *)
ParentCandidatesWithLoops(s, up) ==
  { p \in up : /\ s.announcements[p] # NoAnn
               /\ ~s.announcements[p].expired
               /\ NotOlder(s.announcements[p], RootToMatch(s)) }

ParentCandidatesButParent(s, up) ==
  { p \in up \ {s.parent} : /\ s.announcements[p] # NoAnn
                            /\ ~s.announcements[p].expired
                            /\ ~IsLoopOrChildOf(s.announcements[p], Self)
                            /\ NotOlder(s.announcements[p], RootToMatch(s)) }

ParentCandidates(s, up) ==
  { p \in up : /\ s.announcements[p] # NoAnn
               /\ ~s.announcements[p].expired
               /\ ~IsLoopOrChildOf(s.announcements[p], Self)
               /\ NotOlder(s.announcements[p], RootToMatch(s)) }

BestParent(s, up) ==
  CHOOSE p \in ParentCandidates(s, up) :
    \A q \in ParentCandidates(s, up) :
      ~IsBetterParentCandidate(s.announcements[q], s.announcements[p])

(* Mutant: the new parent is not announced to the peers.                    *)
SelectNewParentSilently(s, up) ==
  IF ParentCandidates(s, up) = {} THEN BecomeRoot(s, up) ELSE SetParent(s, BestParent(s, up))

(* _selectNewParent.                                                        *)
SelectNewParent(s, up) ==
  IF ParentCandidates(s, up) = {} THEN BecomeRoot(s, up)
  ELSE IF BestParent(s, up) = s.parent THEN s
  ELSE SendTreeAnnouncements(SetParent(s, BestParent(s, up)), up)

----------------------------------------------------------------------------
(* A tree announcement a arrives from p.                                    *)

(* What makes _handleTreeAnnouncement return an error, which stops p.       *)
Refused(s, p, a) ==
  \/ ~SanityCheck(a, PeerKey[p])
  \/ /\ s.announcements[p] # NoAnn
     /\ s.announcements[p].root = a.root
     /\ s.announcements[p].seq > a.seq

DetermineAnnouncementAction(senderIsParent, loop, new, last) ==
  IF senderIsParent
  THEN CASE loop \/ new.root < last.root -> "SelectNewParentWithWait"
         [] ~loop /\ new.root > last.root -> "AcceptUpdate"
         [] ~loop /\ new.root = last.root /\ new.seq = last.seq -> "SelectNewParentWithWait"
         [] ~loop /\ new.root = last.root /\ new.seq > last.seq -> "AcceptUpdate"
         [] OTHER -> "DropFrame"
  ELSE CASE loop -> "DropFrame"
         [] ~loop /\ new.root > last.root -> "AcceptNewParent"
         [] ~loop /\ new.root < last.root -> "InformPeerOfStrongerRoot"
         [] OTHER -> "SelectNewParent"

(* The action taken on an update from p that is not refused, "Saved" while  *)
(* we wait to re-parent.                                                    *)
AnnouncementAction(s, p, a) ==
  IF s.waiting THEN "Saved"
  ELSE DetermineAnnouncementAction(p = s.parent, IsLoopOrChildOf(a, Self), a, RootAnnouncement(s))

HandleTreeAnnouncement(s, p, a, up) ==
  LET t == [s EXCEPT !.ordering = s.ordering + 1,
                     !.announcements[p] = Store(a, s.ordering + 1)]
      do == AnnouncementAction(s, p, a)
  IN  CASE do = "AcceptUpdate"    -> SendTreeAnnouncements(t, up)
        [] do = "AcceptNewParent" -> SendTreeAnnouncements(SetParent(t, p), up)
        [] do = "SelectNewParent" -> SelectNewParent(t, up)
        [] do = "SelectNewParentWithWait" -> BecomeRoot([t EXCEPT !.waiting = TRUE], up)
        [] do = "InformPeerOfStrongerRoot" /\ s.announcements[p] # NoAnn ->
             SendTo(t, RootAnnouncement(s), {p})
        [] OTHER -> t

(* Mutant: the timer ends the wait and leaves it at that.                   *)
EndWaitAsRoot(s, up) == [s EXCEPT !.waiting = FALSE]

(* The function the 1 second timer of SelectNewParentWithWait runs.         *)
EndWait(s, up) == SelectNewParent([s EXCEPT !.waiting = FALSE], up)

----------------------------------------------------------------------------
(* Forwarding by coordinates.                                               *)

DistanceTo(a, b) ==
  LET common == { i \in DOMAIN a \cap DOMAIN b : \A j \in 1..i : a[j] = b[j] }
  IN  Len(a) + Len(b) - 2 * Cardinality(common)

(* getNextHopTree where dest is not us: the peers it may return.  It keeps  *)
(* the first peer it meets at the least distance, and meets them in the     *)
(* random order of a map; `bestPeer == p' never holds, so that a faster     *)
(* medium or an older update never breaks the tie.                          *)
NextHopsTree(s, from, dest, up) ==
  LET root == RootAnnouncement(s)
      dist(p) == DistanceTo(PeerCoords(s.announcements[p]), dest)
      closer == { p \in up \ {from} :
                    /\ s.announcements[p] # NoAnn
                    /\ s.announcements[p].root = root.root
                    /\ s.announcements[p].seq = root.seq
                    /\ dist(p) < DistanceTo(Coords(s), dest) }
  IN  { p \in closer : \A q \in closer : dist(p) <= dist(q) }

----------------------------------------------------------------------------
(* _start, and a peer that has gone.                                        *)

InitialState ==
  [parent |-> NoPeer, announcements |-> [p \in Peer |-> NoAnn],
   ordering |-> 0, sequence |-> 0, waiting |-> FALSE, coordsCache |-> {},
   proto |-> [p \in Peer |-> <<>>]]

(* Mutant: the announcement table survives.                                 *)
StartWithTable(s) ==
  [InitialState EXCEPT !.sequence = s.sequence, !.proto = s.proto,
                       !.announcements = s.announcements]

Start(s) == [InitialState EXCEPT !.sequence = s.sequence, !.proto = s.proto]

(* Mutant: a parent that has gone stays the parent.                         *)
PortDisconnectedKeepsParent(s, p, up) ==
  IF up = {} THEN Start(s) ELSE [s EXCEPT !.announcements[p] = NoAnn]

PortDisconnected(s, p, up) ==
  LET t == [s EXCEPT !.announcements[p] = NoAnn]
  IN  IF up = {} THEN Start(s)
      ELSE IF s.parent = p THEN SelectNewParent(t, up)
      ELSE t
=============================================================================
