------------------------------ MODULE TreeNode ------------------------------
(***************************************************************************)
(* One router: the state actor of TreeState, its inbox, the reader actors  *)
(* of its peers (peer.go) and its timers, in an environment of neighbours  *)
(* that may send any update of `Updates'.  It is where the actor boundary  *)
(* matters: a reader checks the `started' flag and hands its frame to the  *)
(* state actor a moment later, stop() clears the flag at once and leaves   *)
(* the cleaning up to a task in the same inbox, and a waiting period ends  *)
(* in a task posted by a timer.                                            *)
(*                                                                         *)
(* Frames leave through p.proto in the order they were pushed, so the      *)
(* writer actor is folded into the push: `told' is what each neighbour was *)
(* told last.                                                              *)
(***************************************************************************)
EXTENDS TreeState

CONSTANTS
  Updates,      \* Updates[p]: the announcements that may arrive on p
  Remote,       \* keys of nodes whose traffic may reach us
  MaxOrdering,  \* bound: announcements stored since the last _start
  MaxSequence,  \* bound: the sequence up to which the tree timer fires
  MaxInbox      \* bound: inbox length up to which neighbours and timers post

Update == [root : Nat, seq : Nat, sigs : Seq([key : Nat, hop : Nat])]

Stored == [root : Nat, seq : Nat, sigs : Seq([key : Nat, hop : Nat]),
           order : Nat, expired : BOOLEAN]

State == [parent : Peer \cup {NoPeer}, announcements : [Peer -> Stored \cup {NoAnn}],
          ordering : Nat, sequence : Nat, waiting : BOOLEAN, coordsCache : SUBSET Nat,
          proto : [Peer -> Seq(Update)]]

Task == [kind : {"frame"}, peer : Peer, ann : Update] \cup [kind : {"cleanup"}, peer : Peer]
        \cup [kind : {"endwait"}, wait : Nat] \cup [kind : {"maintain"}]

ASSUME NodeAssumption ==
  /\ Self \in Nat
  /\ IsFiniteSet(Peer) /\ NoPeer \notin Peer
  /\ PeerKey \in [Peer -> Nat] /\ PeerPort \in [Peer -> Nat]
  /\ NoAnn \notin Stored /\ NoAnn \notin Update /\ NoAnn \notin [root : Nat, seq : Nat]
  /\ Updates \in [Peer -> SUBSET Update]
  /\ Remote \subseteq Nat

VARIABLES
  node,     \* the state actor's own state, a TreeState record
  life,     \* per peer: "new", "up" (started), "stopped" (clean-up due), "gone"
  reading,  \* per peer: the update its reader holds past its last started check
  inbox,    \* the state actor's inbox: frames, clean-ups and timer functions
  timers,   \* the running 1 second timers, oldest first: the wait each one ends
  waits,    \* how many waiting periods have begun
  told      \* per peer: root and sequence of the last announcement pushed

vars == <<node, life, reading, inbox, timers, waits, told>>

Up == { p \in Peer : life[p] = "up" }

Frame(p, a) == [kind |-> "frame", peer |-> p, ann |-> a]
Cleanup(p) == [kind |-> "cleanup", peer |-> p]
EndOfWait(w) == [kind |-> "endwait", wait |-> w]
Maintain == [kind |-> "maintain"]

Running(kind) == inbox # <<>> /\ Head(inbox).kind = kind

Room == Len(inbox) < MaxInbox

Root == RootAnnouncement(node).root

(* The actor takes its next state; its writers drain what it pushed.        *)
Become(s) ==
  /\ node' = [s EXCEPT !.proto = [p \in Peer |-> <<>>]]
  /\ told' = [p \in Peer |->
       IF s.proto[p] = <<>> THEN told[p]
       ELSE LET a == s.proto[p][Len(s.proto[p])] IN [root |-> a.root, seq |-> a.seq]]

Init ==
  /\ node = InitialState
  /\ life = [p \in Peer |-> "new"]
  /\ reading = [p \in Peer |-> NoAnn]
  /\ inbox = <<>>
  /\ timers = <<>>
  /\ waits = 0
  /\ told = [p \in Peer |-> NoAnn]

(* _addPeer: the new peer is told our root before its actors start.         *)
AddPeer(p) ==
  /\ life[p] = "new"
  /\ life' = [life EXCEPT ![p] = "up"]
  /\ Become(SendTo(node, RootAnnouncement(node), {p}))
  /\ UNCHANGED <<reading, inbox, timers, waits>>

(* stop, called by the reader, the writer or the API.                       *)
Stop(p) ==
  /\ life[p] = "up"
  /\ Room
  /\ life' = [life EXCEPT ![p] = "stopped"]
  /\ inbox' = Append(inbox, Cleanup(p))
  /\ UNCHANGED <<node, reading, timers, waits, told>>

(* _read, up to its last look at the started flag ...                       *)
ReadFrame(p) ==
  /\ life[p] = "up"
  /\ reading[p] = NoAnn
  /\ node.ordering + Len(inbox) < MaxOrdering
  /\ \E a \in Updates[p] : reading' = [reading EXCEPT ![p] = a]
  /\ UNCHANGED <<node, life, inbox, timers, waits, told>>

(* ... and the Act that hands the frame to the state actor.                 *)
Dispatch(p) ==
  /\ reading[p] # NoAnn
  /\ Room
  /\ inbox' = Append(inbox, Frame(p, reading[p]))
  /\ reading' = [reading EXCEPT ![p] = NoAnn]
  /\ UNCHANGED <<node, life, timers, waits, told>>

(* Mutant: a timer that is running already is thought to be enough.         *)
BeginWaitUnlessTimed ==
  /\ waits' = waits + 1
  /\ timers' = IF timers = <<>> THEN <<waits + 1>> ELSE timers

(* time.AfterFunc: one more running timer, whatever became of the others.   *)
BeginWait ==
  /\ waits' = waits + 1
  /\ timers' = Append(timers, waits + 1)

HandleUpdate ==
  /\ Running("frame")
  /\ LET p == Head(inbox).peer
         a == Head(inbox).ann
     IN  /\ ~Refused(node, p, a)
         /\ Become(HandleTreeAnnouncement(node, p, a, Up))
         /\ IF AnnouncementAction(node, p, a) = "SelectNewParentWithWait"
            THEN BeginWait
            ELSE UNCHANGED <<waits, timers>>
  /\ inbox' = Tail(inbox)
  /\ UNCHANGED <<life, reading>>

(* _forward returned an error: the peer is stopped by the state actor.      *)
RefuseUpdate ==
  /\ Running("frame")
  /\ LET p == Head(inbox).peer
     IN  /\ Refused(node, p, Head(inbox).ann)
         /\ IF life[p] = "up"
            THEN /\ life' = [life EXCEPT ![p] = "stopped"]
                 /\ inbox' = Append(Tail(inbox), Cleanup(p))
            ELSE /\ inbox' = Tail(inbox)
                 /\ UNCHANGED life
  /\ UNCHANGED <<node, reading, timers, waits, told>>

HandleCleanup ==
  /\ Running("cleanup")
  /\ Become(PortDisconnected(node, Head(inbox).peer, Up))
  /\ life' = [life EXCEPT ![Head(inbox).peer] = "gone"]
  /\ inbox' = Tail(inbox)
  /\ UNCHANGED <<reading, timers, waits>>

HandleEndOfWait ==
  /\ Running("endwait")
  /\ Become(EndWait(node, Up))
  /\ inbox' = Tail(inbox)
  /\ UNCHANGED <<life, reading, timers, waits>>

HandleMaintain ==
  /\ Running("maintain")
  /\ Become(MaintainTree(node, Up))
  /\ inbox' = Tail(inbox)
  /\ UNCHANGED <<life, reading, timers, waits>>

FireWaitTimer ==
  /\ timers # <<>>
  /\ Room
  /\ inbox' = Append(inbox, EndOfWait(Head(timers)))
  /\ timers' = Tail(timers)
  /\ UNCHANGED <<node, life, reading, waits, told>>

FireTreeTimer ==
  /\ node.sequence < MaxSequence
  /\ Room
  /\ inbox' = Append(inbox, Maintain)
  /\ UNCHANGED <<node, life, reading, timers, waits, told>>

(* announcementTimeout has passed since p last sent an update.              *)
Expire(p) ==
  /\ node.announcements[p] # NoAnn
  /\ node' = [node EXCEPT !.announcements[p].expired = TRUE]
  /\ UNCHANGED <<life, reading, inbox, timers, waits, told>>

(* Traffic for us carries its sender's coordinates, which are cached ...    *)
LearnCoords(k) ==
  /\ node' = [node EXCEPT !.coordsCache = @ \cup {k}]
  /\ UNCHANGED <<life, reading, inbox, timers, waits, told>>

(* ... until they are old.                                                  *)
CleanCachedCoords(k) ==
  /\ node' = [node EXCEPT !.coordsCache = @ \ {k}]
  /\ UNCHANGED <<life, reading, inbox, timers, waits, told>>

HandleTask == HandleUpdate \/ RefuseUpdate \/ HandleCleanup \/ HandleEndOfWait \/ HandleMaintain

Next ==
  \/ HandleTask
  \/ FireWaitTimer
  \/ FireTreeTimer
  \/ \E p \in Peer : AddPeer(p) \/ Stop(p) \/ ReadFrame(p) \/ Dispatch(p) \/ Expire(p)
  \/ \E k \in Remote : LearnCoords(k) \/ CleanCachedCoords(k)

Spec == Init /\ [][Next]_vars

----------------------------------------------------------------------------
TypeOK ==
  /\ node \in State
  /\ life \in [Peer -> {"new", "up", "stopped", "gone"}]
  /\ reading \in [Peer -> Update \cup {NoAnn}]
  /\ inbox \in Seq(Task)
  /\ timers \in Seq(Nat)
  /\ waits \in Nat
  /\ told \in [Peer -> [root : Nat, seq : Nat] \cup {NoAnn}]

(* forPeer panics on an update that we have signed already.  Whatever the   *)
(* neighbours send and however stops and late frames interleave, the update *)
(* we would pass on at any moment is not one of ours that has come back.    *)
NeverPassesOnALoop == ~IsLoopOrChildOf(RootAnnouncement(node), Self)

(* A parent always has an entry in the table, although a clean-up deletes   *)
(* entries and a stronger neighbour, a loop or a timer changes the parent.  *)
ParentHasAnnouncement == node.parent # NoPeer => node.announcements[node.parent] # NoAnn

(* While we wait to re-parent we act as a root.                             *)
WaitingMeansNoParent == node.waiting => node.parent = NoPeer

(* The root we follow is never weaker than ourselves, the case that         *)
(* _selectNewParent guards against "for some reason".                       *)
RootNotWeakerThanSelf == Root >= Self

(* A waiting period has a timer that will end it, in flight or posted, even *)
(* after _start has ended earlier periods whose timers still run.           *)
WaitWillEnd ==
  node.waiting => \/ waits \in Elements(timers)
                  \/ EndOfWait(waits) \in Elements(inbox)

(* Two entries of the table never carry the same receive order, the last    *)
(* tie-break of parent selection, although _start begins again from 0.      *)
ReceiveOrdersDiffer ==
  \A p, q \in Peer :
    (p # q /\ node.announcements[p] # NoAnn /\ node.announcements[q] # NoAnn)
      => node.announcements[p].order # node.announcements[q].order

(* A weaker root is only ever accepted on bad news about the parent: an     *)
(* update it sent, its own clean-up, or its being stopped or expired when   *)
(* something else makes us look at it.  While the parent is up and its      *)
(* update fresh, no other peer talks us down, by what it sends or by going. *)
RootWeakensOnlyOnBadNews ==
  [][Root' < Root =>
       LET t == Head(inbox) IN
       \/ t.kind \in {"frame", "cleanup"} /\ t.peer = node.parent
       \/ node.announcements[node.parent].expired
       \/ node.parent \notin Up]_vars

Older(a, b) == a # NoAnn /\ b # NoAnn /\ a.root = b.root /\ a.seq < b.seq

(* A neighbour drops the peering when we replay an old sequence number.     *)
(* The only step that sends one to a neighbour whose peering is up is the   *)
(* clean-up of the parent, after which the sequence number that was passed  *)
(* on is forgotten.  (One that has been stopped, and has not been cleaned   *)
(* up, may be sent one later, when a frame it had sent before is handled.)  *)
TellsOlderOnlyAfterLosingParent ==
  [][\A p \in Up : Older(told'[p], told[p]) =>
       Running("cleanup") /\ Head(inbox).peer = node.parent]_vars

(* "Once the peering has been stopped", and cleaned up, it is not a parent. *)
ParentIsAttached == node.parent # NoPeer => life[node.parent] # "gone"

(* "If the root has changed then ... our cached coordinates are no longer   *)
(* valid, so clear those out."                                              *)
RootChangeClearsCoords == [][Root' # Root => node'.coordsCache = {}]_vars
=============================================================================
