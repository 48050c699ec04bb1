--------------------------- MODULE TreeNodeProofs ---------------------------
(***************************************************************************)
(* What TreeNode's runs check on two peers, for any number of peers, any   *)
(* keys and any announcements they may send.                               *)
(*                                                                         *)
(* The inductive invariant is a property of the state actor's record at    *)
(* the end of each of its tasks, Sound.  The lemmas below follow           *)
(* state_tree.go bottom up and say what each function makes of the record; *)
(* the theorems at the end combine them over the actions.                  *)
(***************************************************************************)
EXTENDS TreeNode, TLAPS, FiniteSetTheorems, WellFoundedInduction

(* Whoever has a parent has heard from it, does not wait to re-parent, and  *)
(* was told a path that neither holds our own signature nor starts at a     *)
(* weaker key than ours.                                                    *)
Sound(s) ==
  /\ s \in State
  /\ s.parent # NoPeer =>
       /\ s.announcements[s.parent] # NoAnn
       /\ ~s.waiting
       /\ ~IsLoopOrChildOf(s.announcements[s.parent], Self)
       /\ s.announcements[s.parent].root >= Self

(* Equal but for the announcements pushed.                                  *)
SameBut(s, t) ==
  /\ t.parent = s.parent
  /\ t.announcements = s.announcements
  /\ t.ordering = s.ordering
  /\ t.sequence = s.sequence
  /\ t.waiting = s.waiting
  /\ t.coordsCache = s.coordsCache

----------------------------------------------------------------------------
(* _rootAnnouncement returns an announcement, whatever the parent is.       *)
LEMMA RootAnnouncementType ==
  ASSUME NEW s \in State
  PROVE  RootAnnouncement(s) \in Stored
<1>1. SelfAnnouncement(s) \in Stored
  BY NodeAssumption DEF SelfAnnouncement, Stored, State
<1>2. CASE s.parent = NoPeer
  BY <1>1, <1>2 DEF RootAnnouncement
<1>3. CASE s.parent # NoPeer
  <2>1. s.announcements[s.parent] \in Stored \cup {NoAnn}
    BY <1>3 DEF State
  <2>2. QED
    BY <1>1, <2>1 DEF RootAnnouncement
<1>4. QED
  BY <1>2, <1>3

(* forPeer makes an update that may be sent.                                *)
LEMMA ForPeerType ==
  ASSUME NEW a \in Stored, NEW p \in Peer
  PROVE  ForPeer(a, p) \in Update
<1>1. [key |-> Self, hop |-> PeerPort[p]] \in [key : Nat, hop : Nat]
  BY NodeAssumption
<1>2. Append(a.sigs, [key |-> Self, hop |-> PeerPort[p]]) \in Seq([key : Nat, hop : Nat])
  BY <1>1 DEF Stored
<1>3. QED
  BY <1>2 DEF ForPeer, Stored, Update

(* A record that differs from a state in what was pushed only is a state.   *)
LEMMA SendToType ==
  ASSUME NEW s \in State, NEW a \in Stored, NEW to
  PROVE  SendTo(s, a, to) \in State /\ SameBut(s, SendTo(s, a, to))
<1> DEFINE proto == [p \in Peer |-> IF p \in to THEN Append(s.proto[p], ForPeer(a, p))
                                               ELSE s.proto[p]]
<1>1. proto \in [Peer -> Seq(Update)]
  <2>1. ASSUME NEW p \in Peer
        PROVE  Append(s.proto[p], ForPeer(a, p)) \in Seq(Update) /\ s.proto[p] \in Seq(Update)
    BY ForPeerType DEF State
  <2>2. QED
    BY <2>1
<1>2. SendTo(s, a, to) = [s EXCEPT !.proto = proto]
  BY DEF SendTo
<1> HIDE DEF proto
<1>3. QED
  BY <1>1, <1>2 DEF State, SameBut

(* _sendTreeAnnouncements only pushes.                                      *)
LEMMA SendTreeAnnouncementsType ==
  ASSUME NEW s \in State, NEW up
  PROVE  /\ SendTreeAnnouncements(s, up) \in State
         /\ SameBut(s, SendTreeAnnouncements(s, up))
BY RootAnnouncementType, SendToType DEF SendTreeAnnouncements

(* _setParent changes the parent and the cached coordinates.                *)
LEMMA SetParentType ==
  ASSUME NEW s \in State, NEW p \in Peer \cup {NoPeer}
  PROVE  /\ SetParent(s, p) \in State
         /\ SetParent(s, p).parent = p
         /\ SetParent(s, p).announcements = s.announcements
         /\ SetParent(s, p).ordering = s.ordering
         /\ SetParent(s, p).waiting = s.waiting
<1> DEFINE t == [s EXCEPT !.parent = p]
<1>1. t \in State
  BY DEF State
<1>2. \E c \in SUBSET Nat : SetParent(s, p) = [t EXCEPT !.coordsCache = c]
  BY DEF SetParent, State
<1> HIDE DEF t
<1>3. PICK c \in SUBSET Nat : SetParent(s, p) = [t EXCEPT !.coordsCache = c]
  BY <1>2
<1>4. SetParent(s, p) \in State
  BY <1>1, <1>3 DEF State
<1>5. /\ t.parent = p /\ t.announcements = s.announcements
      /\ t.ordering = s.ordering /\ t.waiting = s.waiting
  BY DEF t, State
<1>6. QED
  BY <1>1, <1>3, <1>4, <1>5 DEF State

(* Tree maintenance leaves all but a root's sequence alone.                 *)
LEMMA MaintainTreeType ==
  ASSUME NEW s \in State, NEW up
  PROVE  /\ MaintainTree(s, up) \in State
         /\ MaintainTree(s, up).parent = s.parent
         /\ MaintainTree(s, up).announcements = s.announcements
         /\ MaintainTree(s, up).ordering = s.ordering
         /\ MaintainTree(s, up).waiting = s.waiting
<1> DEFINE t == [s EXCEPT !.sequence = s.sequence + 1]
<1>0. s.sequence + 1 \in Nat
  BY DEF State
<1>1. t \in State /\ t.parent = s.parent /\ t.announcements = s.announcements
      /\ t.ordering = s.ordering /\ t.waiting = s.waiting
  BY <1>0 DEF State
<1>2. MaintainTree(s, up) = SendTreeAnnouncements(t, up) \/ MaintainTree(s, up) = s
  BY DEF MaintainTree
<1> HIDE DEF t
<1>3. QED
  BY <1>1, <1>2, SendTreeAnnouncementsType DEF SameBut

(* Having become a root, we have no parent, and are sound for that reason.  *)
LEMMA BecomeRootSound ==
  ASSUME NEW s \in State, NEW up
  PROVE  Sound(BecomeRoot(s, up)) /\ BecomeRoot(s, up).parent = NoPeer
<1>1. CASE s.parent = NoPeer
  BY <1>1 DEF BecomeRoot, Sound
<1>2. CASE s.parent # NoPeer
  <2> DEFINE t == SetParent(s, NoPeer)
  <2>1. t \in State /\ t.parent = NoPeer
    BY SetParentType
  <2>2. BecomeRoot(s, up) = MaintainTree(t, up)
    BY <1>2 DEF BecomeRoot
  <2> HIDE DEF t
  <2>3. QED
    BY <2>1, <2>2, MaintainTreeType DEF Sound
<1>3. QED
  BY <1>1, <1>2

(* IsBetterParentCandidate orders announcements strictly ...                *)
LEMMA BetterIsTransitive ==
  ASSUME NEW a \in Stored, NEW b \in Stored, NEW c \in Stored,
         IsBetterParentCandidate(a, b), IsBetterParentCandidate(b, c)
  PROVE  IsBetterParentCandidate(a, c) /\ ~IsBetterParentCandidate(a, a)
BY DEF IsBetterParentCandidate, Stored

(* ... so that among finitely many peers the loop of _selectNewParent finds *)
(* a best one: a candidate that is beaten by a smallest set of others.      *)
LEMMA BestParentIsCandidate ==
  ASSUME NEW s \in State, NEW up \in SUBSET Peer, ParentCandidates(s, up) # {}
  PROVE  BestParent(s, up) \in ParentCandidates(s, up)
<1> DEFINE C == ParentCandidates(s, up)
           better(p) == { q \in C : IsBetterParentCandidate(s.announcements[q], s.announcements[p]) }
           T == { better(p) : p \in C }
<1>1. C \subseteq Peer /\ \A p \in C : s.announcements[p] \in Stored
  BY DEF ParentCandidates, State
<1>2. T \subseteq FiniteSubsetsOf(Peer) /\ T # {}
  <2>1. ASSUME NEW p \in C
        PROVE  better(p) \in SUBSET Peer /\ IsFiniteSet(better(p))
    BY <1>1, FS_Subset, NodeAssumption
  <2>2. QED
    BY <2>1 DEF FiniteSubsetsOf
<1>3. PICK x \in T : \A y \in T : <<y, x>> \notin StrictSubsetOrdering(Peer)
  BY <1>2, FS_StrictSubsetOrderingWellFounded, WFMin
<1>4. PICK p \in C : x = better(p)
  BY <1>3
<1>5. ASSUME NEW q \in C, IsBetterParentCandidate(s.announcements[q], s.announcements[p])
      PROVE  FALSE
  <2>1. better(q) \subseteq better(p)
    BY <1>1, <1>5, BetterIsTransitive
  <2>2. q \in better(p) /\ q \notin better(q)
    BY <1>1, <1>5, BetterIsTransitive
  <2>3. better(q) \subseteq Peer /\ better(p) \subseteq Peer /\ better(q) \in T
    BY <1>1
  <2> HIDE DEF better, T
  <2>4. <<better(q), better(p)>> \in StrictSubsetOrdering(Peer)
    BY <2>1, <2>2, <2>3 DEF StrictSubsetOrdering
  <2>5. QED
    BY <1>3, <1>4, <2>3, <2>4
<1>6. QED
  BY <1>4, <1>5 DEF BestParent

(* Parent selection leaves a sound state, whatever the parent was before,   *)
(* as long as we do not wait.                                               *)
LEMMA SelectNewParentSound ==
  ASSUME NEW s \in State, ~s.waiting, NEW up \in SUBSET Peer
  PROVE  Sound(SelectNewParent(s, up))
<1> DEFINE b == BestParent(s, up)
<1>1. CASE ParentCandidates(s, up) = {}
  BY <1>1, BecomeRootSound DEF SelectNewParent
<1>2. CASE ParentCandidates(s, up) # {}
  <2>1. b \in ParentCandidates(s, up)
    BY <1>2, BestParentIsCandidate
  <2> HIDE DEF b
  <2>2. /\ b \in Peer
        /\ s.announcements[b] # NoAnn
        /\ ~IsLoopOrChildOf(s.announcements[b], Self)
        /\ NotOlder(s.announcements[b], RootToMatch(s))
    BY <2>1 DEF ParentCandidates
  <2>3. s.announcements[b].root \in Nat /\ RootAnnouncement(s).root \in Nat
    BY <2>2, RootAnnouncementType DEF State, Stored
  <2>4. s.announcements[b].root >= Self
    BY <2>2, <2>3, NodeAssumption DEF NotOlder, RootToMatch
  <2>5. CASE b = s.parent
    BY <1>2, <2>2, <2>4, <2>5 DEF b, SelectNewParent, Sound
  <2>6. CASE b # s.parent
    <3> DEFINE t == SetParent(s, b)
    <3>1. /\ t \in State /\ t.parent = b /\ t.announcements = s.announcements
          /\ t.waiting = s.waiting
      BY <2>2, SetParentType
    <3>2. SelectNewParent(s, up) = SendTreeAnnouncements(t, up)
      BY <1>2, <2>6 DEF b, SelectNewParent
    <3> HIDE DEF t
    <3>3. SelectNewParent(s, up) \in State /\ SameBut(t, SelectNewParent(s, up))
      BY <3>1, <3>2, SendTreeAnnouncementsType
    <3>4. QED
      BY <2>2, <2>4, <3>1, <3>3 DEF Sound, SameBut
  <2>7. QED
    BY <2>5, <2>6
<1>3. QED
  BY <1>1, <1>2

(* An update that is not refused, from whomever and in whatever order,      *)
(* leaves a sound state: the one that is refused because it replays an old  *)
(* sequence is the one that would slip past its sender's children.          *)
LEMMA HandleTreeAnnouncementSound ==
  ASSUME NEW s, Sound(s), NEW p \in Peer, NEW a \in Update, ~Refused(s, p, a),
         NEW up \in SUBSET Peer
  PROVE  Sound(HandleTreeAnnouncement(s, p, a, up))
<1> DEFINE stored == Store(a, s.ordering + 1)
           t == [s EXCEPT !.ordering = s.ordering + 1, !.announcements[p] = stored]
           do == AnnouncementAction(s, p, a)
           last == RootAnnouncement(s)
<1>1. s \in State /\ s.ordering + 1 \in Nat
  BY DEF Sound, State
<1>2. stored \in Stored /\ stored # NoAnn /\ stored.root = a.root
      /\ (IsLoopOrChildOf(stored, Self) <=> IsLoopOrChildOf(a, Self))
  <2>1. stored \in Stored
    BY <1>1 DEF Store, Stored, Update
  <2>2. stored.sigs = a.sigs /\ stored.root = a.root
    BY DEF Store
  <2> HIDE DEF stored
  <2>3. QED
    BY <2>1, <2>2, NodeAssumption DEF IsLoopOrChildOf, HasSigned, SignedTwice, Elements
<1> HIDE DEF stored
<1>3. /\ t \in State
      /\ t.parent = s.parent /\ t.waiting = s.waiting
      /\ t.announcements = [s.announcements EXCEPT ![p] = stored]
  BY <1>1, <1>2 DEF State
<1>4. t.announcements[p] = stored
      /\ \A q \in Peer \ {p} : t.announcements[q] = s.announcements[q]
  BY <1>1, <1>3 DEF State
<1>5. last.root \in Nat /\ last.root >= Self /\ a.root \in Nat /\ a.seq \in Nat
      /\ last.seq \in Nat
  <2>1. last \in Stored
    BY <1>1, RootAnnouncementType
  <2>2. last.root >= Self
    BY <1>1, NodeAssumption DEF Sound, RootAnnouncement, SelfAnnouncement
  <2>3. QED
    BY <2>1, <2>2 DEF Stored, Update
<1>6. s.parent # p => Sound(t)
  BY <1>1, <1>3, <1>4 DEF Sound, State
<1>7. s.parent = p => last = s.announcements[p] /\ last # NoAnn /\ ~s.waiting
  BY <1>1, NodeAssumption DEF Sound, RootAnnouncement
<1>8. HandleTreeAnnouncement(s, p, a, up) =
        CASE do = "AcceptUpdate"    -> SendTreeAnnouncements(t, up)
          [] do = "AcceptNewParent" -> SendTreeAnnouncements(SetParent(t, p), up)
          [] do = "SelectNewParent" -> SelectNewParent(t, up)
          [] do = "SelectNewParentWithWait" -> BecomeRoot([t EXCEPT !.waiting = TRUE], up)
          [] do = "InformPeerOfStrongerRoot" /\ s.announcements[p] # NoAnn ->
               SendTo(t, RootAnnouncement(s), {p})
          [] OTHER -> t
  BY DEF HandleTreeAnnouncement, stored
<1> HIDE DEF t, do, last
<1>9. CASE do = "AcceptUpdate"
  <2>1. s.parent = p /\ ~IsLoopOrChildOf(a, Self) /\ a.root >= last.root /\ ~s.waiting
    BY <1>5, <1>9 DEF do, last, AnnouncementAction, DetermineAnnouncementAction
  <2>2. Sound(t)
    BY <1>2, <1>3, <1>4, <1>5, <2>1, NodeAssumption DEF Sound
  <2>3. t \in State
    BY <1>3
  <2>4. HandleTreeAnnouncement(s, p, a, up) = SendTreeAnnouncements(t, up)
    BY <1>8, <1>9
  <2>5. QED
    BY <2>2, <2>3, <2>4, SendTreeAnnouncementsType DEF Sound, SameBut
<1>10. CASE do = "AcceptNewParent"
  <2> DEFINE u == SetParent(t, p)
  <2>1. ~IsLoopOrChildOf(a, Self) /\ a.root > last.root /\ ~s.waiting
    BY <1>5, <1>10 DEF do, last, AnnouncementAction, DetermineAnnouncementAction
  <2>2. /\ u \in State /\ u.parent = p /\ u.announcements = t.announcements
        /\ u.waiting = s.waiting
    BY <1>3, SetParentType
  <2>3. HandleTreeAnnouncement(s, p, a, up) = SendTreeAnnouncements(u, up)
    BY <1>8, <1>10
  <2> HIDE DEF u
  <2>4. Sound(u)
    BY <1>2, <1>4, <1>5, <2>1, <2>2, NodeAssumption DEF Sound
  <2>5. QED
    BY <2>2, <2>3, <2>4, SendTreeAnnouncementsType DEF Sound, SameBut
<1>11. CASE do = "SelectNewParent"
  <2>1. ~s.waiting
    BY <1>11 DEF do, AnnouncementAction
  <2>2. QED
    BY <1>3, <1>8, <1>11, <2>1, SelectNewParentSound
<1>12. CASE do = "SelectNewParentWithWait"
  <2>1. [t EXCEPT !.waiting = TRUE] \in State
    BY <1>3 DEF State
  <2>2. HandleTreeAnnouncement(s, p, a, up) = BecomeRoot([t EXCEPT !.waiting = TRUE], up)
    BY <1>8, <1>12
  <2>3. QED
    BY <2>1, <2>2, BecomeRootSound
<1>13. CASE do = "InformPeerOfStrongerRoot"
  <2>1. s.parent # p
    BY <1>13 DEF do, AnnouncementAction, DetermineAnnouncementAction
  <2>2. RootAnnouncement(s) \in Stored
    BY <1>1, RootAnnouncementType
  <2>3. HandleTreeAnnouncement(s, p, a, up) \in {t, SendTo(t, RootAnnouncement(s), {p})}
    BY <1>8, <1>13
  <2>4. LET u == SendTo(t, RootAnnouncement(s), {p}) IN u \in State /\ SameBut(t, u)
    BY <1>3, <2>2, SendToType
  <2>5. Sound(SendTo(t, RootAnnouncement(s), {p}))
    BY <1>6, <2>1, <2>4 DEF Sound, SameBut
  <2>6. QED
    BY <1>6, <2>1, <2>3, <2>5
<1>14. CASE do \in {"DropFrame", "Saved"}
  <2>1. s.parent # p
    <3>1. ASSUME s.parent = p PROVE FALSE
      <4>1. do = "DropFrame" /\ ~s.waiting
        BY <1>7, <1>14, <3>1 DEF do, AnnouncementAction, DetermineAnnouncementAction
      <4>2. a.root = last.root /\ a.seq < last.seq
        BY <1>5, <3>1, <4>1 DEF do, last, AnnouncementAction, DetermineAnnouncementAction
      <4>3. QED
        BY <1>7, <3>1, <4>2 DEF Refused
    <3>2. QED
      BY <3>1
  <2>2. HandleTreeAnnouncement(s, p, a, up) = t
    BY <1>8, <1>14
  <2>3. QED
    BY <1>6, <2>1, <2>2
<1>15. do \in {"AcceptUpdate", "AcceptNewParent", "SelectNewParent",
               "SelectNewParentWithWait", "InformPeerOfStrongerRoot", "DropFrame", "Saved"}
  BY <1>5 DEF do, last, AnnouncementAction, DetermineAnnouncementAction
<1>16. QED
  BY <1>9, <1>10, <1>11, <1>12, <1>13, <1>14, <1>15

(* The end of a wait, and of a peer, leave a sound state.                   *)
LEMMA EndWaitSound ==
  ASSUME NEW s \in State, NEW up \in SUBSET Peer
  PROVE  Sound(EndWait(s, up))
<1>1. [s EXCEPT !.waiting = FALSE] \in State /\ ~[s EXCEPT !.waiting = FALSE].waiting
  BY DEF State
<1>2. QED
  BY <1>1, SelectNewParentSound DEF EndWait

LEMMA PortDisconnectedSound ==
  ASSUME NEW s, Sound(s), NEW p \in Peer, NEW up \in SUBSET Peer
  PROVE  Sound(PortDisconnected(s, p, up))
<1> DEFINE t == [s EXCEPT !.announcements[p] = NoAnn]
<1>1. s \in State
  BY DEF Sound
<1>2. /\ t \in State /\ t.parent = s.parent /\ t.waiting = s.waiting
      /\ \A q \in Peer \ {p} : t.announcements[q] = s.announcements[q]
  BY <1>1 DEF State
<1>3. CASE up = {}
  <2>1. Start(s) \in State /\ Start(s).parent = NoPeer
    BY <1>1 DEF Start, InitialState, State
  <2>2. QED
    BY <1>3, <2>1 DEF PortDisconnected, Sound
<1>4. CASE up # {} /\ s.parent = p
  <2>1. ~s.waiting
    BY <1>4, NodeAssumption DEF Sound
  <2>2. PortDisconnected(s, p, up) = SelectNewParent(t, up)
    BY <1>4 DEF PortDisconnected
  <2> HIDE DEF t
  <2>3. QED
    BY <1>2, <2>1, <2>2, SelectNewParentSound
<1>5. CASE up # {} /\ s.parent # p
  <2>1. PortDisconnected(s, p, up) = t
    BY <1>5 DEF PortDisconnected
  <2> HIDE DEF t
  <2>2. QED
    BY <1>1, <1>2, <1>5, <2>1 DEF Sound, State
<1>6. QED
  BY <1>3, <1>4, <1>5

----------------------------------------------------------------------------
(* The inductive invariant.                                                 *)
IInv == TypeOK /\ Sound(node)

(* Taking a sound state keeps the variables that Become changes in order.   *)
LEMMA BecomeSound ==
  ASSUME NEW s, Sound(s), TypeOK, Become(s)
  PROVE  /\ Sound(node')
         /\ told' \in [Peer -> [root : Nat, seq : Nat] \cup {NoAnn}]
<1>1. s \in State
  BY DEF Sound
<1>2. /\ node' \in State /\ node'.parent = s.parent
      /\ node'.announcements = s.announcements /\ node'.waiting = s.waiting
  <2>1. [p \in Peer |-> <<>>] \in [Peer -> Seq(Update)]
    OBVIOUS
  <2>2. QED
    BY <1>1, <2>1 DEF Become, State
<1>3. Sound(node')
  BY <1>2 DEF Sound
<1>4. ASSUME NEW p \in Peer, s.proto[p] # <<>>
      PROVE  s.proto[p][Len(s.proto[p])] \in Update
  <2>1. s.proto[p] \in Seq(Update)
    BY <1>1 DEF State
  <2>2. Len(s.proto[p]) \in 1..Len(s.proto[p])
    BY <1>4, <2>1
  <2>3. QED
    BY <2>1, <2>2
<1>5. ASSUME NEW p \in Peer
      PROVE  told'[p] \in [root : Nat, seq : Nat] \cup {NoAnn}
  <2>1. CASE s.proto[p] = <<>>
    BY <2>1 DEF Become, TypeOK
  <2>2. CASE s.proto[p] # <<>>
    BY <1>4, <2>2 DEF Become, Update
  <2>3. QED
    BY <2>1, <2>2
<1>6. QED
  BY <1>3, <1>5 DEF Become

LEMMA InitIInv == Init => IInv
<1> SUFFICES ASSUME Init PROVE IInv
  OBVIOUS
<1>1. InitialState \in State /\ InitialState.parent = NoPeer
  BY DEF InitialState, State
<1>2. Sound(node)
  BY <1>1 DEF Init, Sound
<1>3. TypeOK
  BY <1>1 DEF Init, TypeOK
<1>4. QED
  BY <1>2, <1>3 DEF IInv

(* The task at the head of the inbox, and what is left of the inbox.        *)
LEMMA HeadTask ==
  ASSUME TypeOK, NEW kind, Running(kind)
  PROVE  /\ Tail(inbox) \in Seq(Task)
         /\ Head(inbox) \in Task
         /\ kind = "frame" => Head(inbox).peer \in Peer /\ Head(inbox).ann \in Update
         /\ kind = "cleanup" => Head(inbox).peer \in Peer
<1>1. inbox \in Seq(Task) /\ inbox # <<>> /\ Head(inbox).kind = kind
  BY DEF TypeOK, Running
<1>2. Head(inbox) \in Task /\ Tail(inbox) \in Seq(Task)
  BY <1>1
<1>3. QED
  BY <1>1, <1>2 DEF Task

LEMMA NextIInv == IInv /\ [Next]_vars => IInv'
<1> SUFFICES ASSUME IInv, [Next]_vars PROVE IInv'
  OBVIOUS
<1> USE DEF IInv
<1>0. Up \in SUBSET Peer /\ node \in State
  BY DEF Up, Sound
<1>1. ASSUME HandleUpdate PROVE IInv'
  <2> DEFINE p == Head(inbox).peer
             a == Head(inbox).ann
  <2>1. p \in Peer /\ a \in Update /\ Tail(inbox) \in Seq(Task)
    BY <1>1, HeadTask DEF HandleUpdate
  <2>2. ~Refused(node, p, a) /\ Become(HandleTreeAnnouncement(node, p, a, Up))
    BY <1>1 DEF HandleUpdate
  <2>3. inbox' = Tail(inbox) /\ UNCHANGED <<life, reading>>
        /\ (BeginWait \/ UNCHANGED <<waits, timers>>)
    BY <1>1 DEF HandleUpdate
  <2>7. waits' \in Nat /\ timers' \in Seq(Nat)
    <3>1. waits \in Nat /\ waits + 1 \in Nat /\ timers \in Seq(Nat)
      BY DEF TypeOK
    <3>2. Append(timers, waits + 1) \in Seq(Nat)
      BY <3>1
    <3>3. QED
      BY <2>3, <3>1, <3>2 DEF BeginWait
  <2> HIDE DEF p, a
  <2>4. Sound(HandleTreeAnnouncement(node, p, a, Up))
    BY <1>0, <2>1, <2>2, HandleTreeAnnouncementSound
  <2>5. Sound(node') /\ told' \in [Peer -> [root : Nat, seq : Nat] \cup {NoAnn}]
    BY <2>2, <2>4, BecomeSound
  <2>6. QED
    BY <2>1, <2>3, <2>5, <2>7 DEF TypeOK, Sound
<1>2. ASSUME RefuseUpdate PROVE IInv'
  <2> DEFINE p == Head(inbox).peer
  <2>1. p \in Peer /\ Tail(inbox) \in Seq(Task)
    BY <1>2, HeadTask DEF RefuseUpdate
  <2>2. Cleanup(p) \in Task
    BY <2>1 DEF Cleanup, Task
  <2>3. inbox' \in Seq(Task)
    BY <1>2, <2>1, <2>2 DEF RefuseUpdate
  <2>4. life' \in [Peer -> {"new", "up", "stopped", "gone"}]
    BY <1>2 DEF RefuseUpdate, TypeOK
  <2>5. QED
    BY <1>2, <2>3, <2>4 DEF RefuseUpdate, TypeOK, Sound
<1>3. ASSUME HandleCleanup PROVE IInv'
  <2> DEFINE p == Head(inbox).peer
  <2>1. p \in Peer /\ Tail(inbox) \in Seq(Task)
    BY <1>3, HeadTask DEF HandleCleanup
  <2>2. Become(PortDisconnected(node, p, Up))
    BY <1>3 DEF HandleCleanup
  <2>3. /\ inbox' = Tail(inbox) /\ UNCHANGED <<reading, timers, waits>>
        /\ life' = [life EXCEPT ![p] = "gone"]
    BY <1>3 DEF HandleCleanup
  <2> HIDE DEF p
  <2>4. Sound(PortDisconnected(node, p, Up))
    BY <1>0, <2>1, PortDisconnectedSound
  <2>5. Sound(node') /\ told' \in [Peer -> [root : Nat, seq : Nat] \cup {NoAnn}]
    BY <2>2, <2>4, BecomeSound
  <2>6. QED
    BY <2>1, <2>3, <2>5 DEF TypeOK, Sound
<1>4. ASSUME HandleEndOfWait PROVE IInv'
  <2>1. Tail(inbox) \in Seq(Task)
    BY <1>4, HeadTask DEF HandleEndOfWait
  <2>2. Sound(EndWait(node, Up))
    BY <1>0, EndWaitSound
  <2>3. Sound(node') /\ told' \in [Peer -> [root : Nat, seq : Nat] \cup {NoAnn}]
    BY <1>4, <2>2, BecomeSound DEF HandleEndOfWait
  <2>4. QED
    BY <1>4, <2>1, <2>3 DEF HandleEndOfWait, TypeOK, Sound
<1>5. ASSUME HandleMaintain PROVE IInv'
  <2>1. Tail(inbox) \in Seq(Task)
    BY <1>5, HeadTask DEF HandleMaintain
  <2>2. Sound(MaintainTree(node, Up))
    BY <1>0, MaintainTreeType DEF Sound
  <2>3. Sound(node') /\ told' \in [Peer -> [root : Nat, seq : Nat] \cup {NoAnn}]
    BY <1>5, <2>2, BecomeSound DEF HandleMaintain
  <2>4. QED
    BY <1>5, <2>1, <2>3 DEF HandleMaintain, TypeOK, Sound
<1>6. ASSUME FireWaitTimer PROVE IInv'
  <2>1. Head(timers) \in Nat /\ Tail(timers) \in Seq(Nat)
    BY <1>6 DEF FireWaitTimer, TypeOK
  <2>2. EndOfWait(Head(timers)) \in Task
    BY <2>1 DEF EndOfWait, Task
  <2>3. QED
    BY <1>6, <2>1, <2>2 DEF FireWaitTimer, TypeOK, Sound
<1>7. ASSUME FireTreeTimer PROVE IInv'
  <2>1. Maintain \in Task
    BY DEF Maintain, Task
  <2>2. QED
    BY <1>7, <2>1 DEF FireTreeTimer, TypeOK, Sound
<1>8. ASSUME NEW p \in Peer, AddPeer(p) PROVE IInv'
  <2> DEFINE s == SendTo(node, RootAnnouncement(node), {p})
  <2>1. s \in State /\ SameBut(node, s)
    BY <1>0, RootAnnouncementType, SendToType
  <2>2. Become(s)
    BY <1>8 DEF AddPeer
  <2> HIDE DEF s
  <2>3. Sound(s)
    BY <2>1 DEF Sound, SameBut
  <2>4. Sound(node') /\ told' \in [Peer -> [root : Nat, seq : Nat] \cup {NoAnn}]
    BY <2>2, <2>3, BecomeSound
  <2>5. QED
    BY <1>8, <2>4 DEF AddPeer, TypeOK, Sound
<1>9. ASSUME NEW p \in Peer, Stop(p) PROVE IInv'
  <2>1. Cleanup(p) \in Task
    BY DEF Cleanup, Task
  <2>2. QED
    BY <1>9, <2>1 DEF Stop, TypeOK, Sound
<1>10. ASSUME NEW p \in Peer, ReadFrame(p) PROVE IInv'
  <2>1. Updates[p] \subseteq Update
    BY NodeAssumption
  <2>2. QED
    BY <1>10, <2>1 DEF ReadFrame, TypeOK, Sound
<1>11. ASSUME NEW p \in Peer, Dispatch(p) PROVE IInv'
  <2>1. reading[p] \in Update
    BY <1>11 DEF Dispatch, TypeOK
  <2>2. Frame(p, reading[p]) \in Task
    BY <2>1 DEF Frame, Task
  <2>3. inbox' \in Seq(Task)
    BY <1>11, <2>2 DEF Dispatch, TypeOK
  <2>4. QED
    BY <1>11, <2>3 DEF Dispatch, TypeOK, Sound
<1>12. ASSUME NEW p \in Peer, Expire(p) PROVE IInv'
  <2> DEFINE e == [node.announcements[p] EXCEPT !.expired = TRUE]
  <2>1. node.announcements[p] \in Stored
    BY <1>0, <1>12 DEF Expire, State
  <2>2. e \in Stored /\ e.root = node.announcements[p].root
        /\ e.sigs = node.announcements[p].sigs
    BY <2>1 DEF Stored
  <2>3. e # NoAnn
        /\ (IsLoopOrChildOf(e, Self) <=> IsLoopOrChildOf(node.announcements[p], Self))
    <3> HIDE DEF e
    <3>1. QED
      BY <2>2, NodeAssumption DEF IsLoopOrChildOf, HasSigned, SignedTwice, Elements
  <2>4. node' = [node EXCEPT !.announcements = [node.announcements EXCEPT ![p] = e]]
    BY <1>0, <1>12 DEF Expire, State
  <2> HIDE DEF e
  <2>5. /\ node' \in State /\ node'.parent = node.parent /\ node'.waiting = node.waiting
        /\ node'.announcements = [node.announcements EXCEPT ![p] = e]
    BY <1>0, <2>2, <2>4 DEF State
  <2>6. Sound(node')
    <3>1. CASE node.parent = p
      BY <1>0, <1>12, <2>2, <2>3, <2>5, <3>1 DEF Sound, State, Expire
    <3>2. CASE node.parent # p
      BY <1>0, <2>5, <3>2 DEF Sound, State
    <3>3. QED
      BY <3>1, <3>2
  <2>7. QED
    BY <1>12, <2>5, <2>6 DEF Expire, TypeOK, Sound
<1>13. ASSUME NEW k \in Remote, LearnCoords(k) \/ CleanCachedCoords(k) PROVE IInv'
  <2>1. PICK c \in SUBSET Nat : node' = [node EXCEPT !.coordsCache = c]
    BY <1>0, <1>13, NodeAssumption DEF LearnCoords, CleanCachedCoords, State
  <2>2. /\ node' \in State /\ node'.parent = node.parent /\ node'.waiting = node.waiting
        /\ node'.announcements = node.announcements
    BY <1>0, <2>1 DEF State
  <2>3. UNCHANGED <<life, reading, inbox, timers, waits, told>>
    BY <1>13 DEF LearnCoords, CleanCachedCoords
  <2>4. QED
    BY <2>2, <2>3 DEF TypeOK, Sound
<1>14. ASSUME UNCHANGED vars PROVE IInv'
  BY <1>14 DEF vars, TypeOK, Sound
<1>15. QED
  BY <1>1, <1>2, <1>3, <1>4, <1>5, <1>6, <1>7, <1>8, <1>9, <1>10, <1>11, <1>12, <1>13, <1>14
  DEF Next, HandleTask

----------------------------------------------------------------------------
(* Every state of a router is of its type and sound.                        *)
THEOREM Invariance == Spec => []IInv
BY InitIInv, NextIInv, PTL DEF Spec

(* The state, the inbox and the timers hold what they are meant to hold.    *)
THEOREM TypeCorrect == Spec => []TypeOK
<1>1. IInv => TypeOK
  BY DEF IInv
<1>2. QED
  BY <1>1, Invariance, PTL

(* A router's root is its own signature-free announcement or its parent's,  *)
(* so forPeer never meets our signature and never panics.                   *)
THEOREM NoLoopPassedOn == Spec => []NeverPassesOnALoop
<1>1. IInv => NeverPassesOnALoop
  <2> SUFFICES ASSUME IInv PROVE NeverPassesOnALoop
    OBVIOUS
  <2>1. ~IsLoopOrChildOf(SelfAnnouncement(node), Self)
    BY DEF SelfAnnouncement, IsLoopOrChildOf, HasSigned, SignedTwice, Elements
  <2>2. QED
    BY <2>1 DEF IInv, Sound, NeverPassesOnALoop, RootAnnouncement
<1>2. QED
  BY <1>1, Invariance, PTL

(* The parent has an entry in the announcement table.                       *)
THEOREM ParentInTable == Spec => []ParentHasAnnouncement
<1>1. IInv => ParentHasAnnouncement
  BY DEF IInv, Sound, ParentHasAnnouncement
<1>2. QED
  BY <1>1, Invariance, PTL

(* A router that waits to re-parent acts as a root.                         *)
THEOREM WaitsAsRoot == Spec => []WaitingMeansNoParent
<1>1. IInv => WaitingMeansNoParent
  BY DEF IInv, Sound, WaitingMeansNoParent
<1>2. QED
  BY <1>1, Invariance, PTL

(* The root that is followed is never weaker than the router itself.        *)
THEOREM RootStrongEnough == Spec => []RootNotWeakerThanSelf
<1>1. IInv => RootNotWeakerThanSelf
  <2> SUFFICES ASSUME IInv PROVE RootNotWeakerThanSelf
    OBVIOUS
  <2>1. SelfAnnouncement(node).root >= Self
    BY NodeAssumption DEF SelfAnnouncement
  <2>2. QED
    BY <2>1 DEF IInv, Sound, RootNotWeakerThanSelf, Root, RootAnnouncement
<1>2. QED
  BY <1>1, Invariance, PTL

----------------------------------------------------------------------------
(* What the functions do to the table, its order and the wait.              *)
SameTable(s, t) ==
  t.announcements = s.announcements /\ t.ordering = s.ordering /\ t.waiting = s.waiting

LEMMA BecomeRootTable ==
  ASSUME NEW s \in State, NEW up
  PROVE  SameTable(s, BecomeRoot(s, up))
<1> DEFINE t == SetParent(s, NoPeer)
<1>1. t \in State /\ SameTable(s, t)
  BY SetParentType DEF SameTable
<1>2. BecomeRoot(s, up) = s \/ BecomeRoot(s, up) = MaintainTree(t, up)
  BY DEF BecomeRoot
<1> HIDE DEF t
<1>3. SameTable(t, MaintainTree(t, up))
  BY <1>1, MaintainTreeType DEF SameTable
<1>4. QED
  BY <1>1, <1>2, <1>3 DEF SameTable

LEMMA SelectNewParentTable ==
  ASSUME NEW s \in State, NEW up \in SUBSET Peer
  PROVE  SameTable(s, SelectNewParent(s, up))
<1> DEFINE b == BestParent(s, up)
           t == SetParent(s, b)
<1>1. CASE ParentCandidates(s, up) = {}
  BY <1>1, BecomeRootTable DEF SelectNewParent
<1>2. CASE ParentCandidates(s, up) # {}
  <2>1. b \in Peer
    BY <1>2, BestParentIsCandidate DEF ParentCandidates
  <2>2. t \in State /\ SameTable(s, t)
    BY <2>1, SetParentType DEF SameTable
  <2>3. SelectNewParent(s, up) = s \/ SelectNewParent(s, up) = SendTreeAnnouncements(t, up)
    BY <1>2 DEF SelectNewParent
  <2> HIDE DEF t
  <2>4. SameTable(t, SendTreeAnnouncements(t, up))
    BY <2>2, SendTreeAnnouncementsType DEF SameBut, SameTable
  <2>5. QED
    BY <2>2, <2>3, <2>4 DEF SameTable
<1>3. QED
  BY <1>1, <1>2

(* An update is stored with the next receive order, and only the action that *)
(* waits begins a wait.                                                     *)
LEMMA HandleTreeAnnouncementTable ==
  ASSUME NEW s \in State, NEW p \in Peer, NEW a \in Update, NEW up \in SUBSET Peer
  PROVE  LET r == HandleTreeAnnouncement(s, p, a, up) IN
         /\ r.announcements = [s.announcements EXCEPT ![p] = Store(a, s.ordering + 1)]
         /\ r.ordering = s.ordering + 1
         /\ r.waiting => s.waiting \/ AnnouncementAction(s, p, a) = "SelectNewParentWithWait"
<1> DEFINE stored == Store(a, s.ordering + 1)
           t == [s EXCEPT !.ordering = s.ordering + 1, !.announcements[p] = stored]
           w == [t EXCEPT !.waiting = TRUE]
           do == AnnouncementAction(s, p, a)
           r == HandleTreeAnnouncement(s, p, a, up)
<1>1. stored \in Stored /\ s.ordering + 1 \in Nat
  BY DEF Store, Stored, Update, State
<1> HIDE DEF stored
<1>2. /\ t \in State /\ t.announcements = [s.announcements EXCEPT ![p] = stored]
      /\ t.ordering = s.ordering + 1 /\ t.waiting = s.waiting
  BY <1>1 DEF State
<1>3. w \in State /\ w.announcements = t.announcements /\ w.ordering = t.ordering
  BY <1>2 DEF State
<1>4. r = CASE do = "AcceptUpdate"    -> SendTreeAnnouncements(t, up)
            [] do = "AcceptNewParent" -> SendTreeAnnouncements(SetParent(t, p), up)
            [] do = "SelectNewParent" -> SelectNewParent(t, up)
            [] do = "SelectNewParentWithWait" -> BecomeRoot(w, up)
            [] do = "InformPeerOfStrongerRoot" /\ s.announcements[p] # NoAnn ->
                 SendTo(t, RootAnnouncement(s), {p})
            [] OTHER -> t
  BY DEF HandleTreeAnnouncement, stored
<1> HIDE DEF t, w, do, r
<1>5. SameTable(t, SendTreeAnnouncements(t, up)) /\ SameTable(t, SelectNewParent(t, up))
  BY <1>2, SendTreeAnnouncementsType, SelectNewParentTable DEF SameBut, SameTable
<1>6. SameTable(t, SendTreeAnnouncements(SetParent(t, p), up))
  <2>1. SetParent(t, p) \in State /\ SameTable(t, SetParent(t, p))
    BY <1>2, SetParentType DEF SameTable
  <2>2. QED
    BY <2>1, SendTreeAnnouncementsType DEF SameBut, SameTable
<1>7. SameTable(w, BecomeRoot(w, up))
  BY <1>3, BecomeRootTable
<1>8. SameTable(t, SendTo(t, RootAnnouncement(s), {p}))
  BY <1>2, RootAnnouncementType, SendToType DEF SameBut, SameTable
<1>9. SameTable(t, r) \/ (do = "SelectNewParentWithWait" /\ SameTable(w, r))
  BY <1>4, <1>5, <1>6, <1>7, <1>8 DEF SameTable
<1>10. QED
  BY <1>2, <1>3, <1>9 DEF SameTable, stored, do, r

LEMMA EndWaitTable ==
  ASSUME NEW s \in State, NEW up \in SUBSET Peer
  PROVE  LET r == EndWait(s, up) IN
         r.announcements = s.announcements /\ r.ordering = s.ordering /\ ~r.waiting
<1> DEFINE t == [s EXCEPT !.waiting = FALSE]
<1>1. t \in State /\ t.announcements = s.announcements /\ t.ordering = s.ordering /\ ~t.waiting
  BY DEF State
<1>2. EndWait(s, up) = SelectNewParent(t, up)
  BY DEF EndWait
<1> HIDE DEF t
<1>3. QED
  BY <1>1, <1>2, SelectNewParentTable DEF SameTable

(* The entry of a peer that has gone is removed, or all are.                *)
LEMMA PortDisconnectedTable ==
  ASSUME NEW s \in State, NEW p \in Peer, NEW up \in SUBSET Peer
  PROVE  LET r == PortDisconnected(s, p, up) IN
         /\ \/ \A q \in Peer : r.announcements[q] = NoAnn
            \/ /\ r.announcements = [s.announcements EXCEPT ![p] = NoAnn]
               /\ r.ordering = s.ordering
         /\ r.waiting => s.waiting
<1> DEFINE t == [s EXCEPT !.announcements[p] = NoAnn]
<1>1. /\ t \in State /\ t.ordering = s.ordering /\ t.waiting = s.waiting
      /\ t.announcements = [s.announcements EXCEPT ![p] = NoAnn]
  BY DEF State
<1>2. PortDisconnected(s, p, up) \in {Start(s), SelectNewParent(t, up), t}
  BY DEF PortDisconnected
<1>3. ~Start(s).waiting /\ \A q \in Peer : Start(s).announcements[q] = NoAnn
  BY DEF Start, InitialState
<1> HIDE DEF t
<1>4. SameTable(t, SelectNewParent(t, up))
  BY <1>1, SelectNewParentTable
<1>5. QED
  BY <1>1, <1>2, <1>3, <1>4 DEF SameTable

----------------------------------------------------------------------------
(* No entry is younger than the counter, and no two are of one age.         *)
OrdersDiffer ==
  /\ \A p \in Peer : node.announcements[p] # NoAnn =>
       node.announcements[p].order <= node.ordering
  /\ ReceiveOrdersDiffer

(* A step that keeps, removes or ages entries keeps their order.            *)
LEMMA FewerEntries ==
  ASSUME OrdersDiffer, node'.ordering = node.ordering,
         \A p \in Peer : node'.announcements[p] # NoAnn =>
           /\ node.announcements[p] # NoAnn
           /\ node'.announcements[p].order = node.announcements[p].order
  PROVE  OrdersDiffer'
BY DEF OrdersDiffer, ReceiveOrdersDiffer

LEMMA BecomeTable ==
  ASSUME NEW s \in State, Become(s)
  PROVE  /\ node'.announcements = s.announcements /\ node'.ordering = s.ordering
         /\ node'.waiting = s.waiting
BY DEF Become, State

LEMMA HandleUpdateOrders == ASSUME IInv, OrdersDiffer, HandleUpdate PROVE OrdersDiffer'
<1> DEFINE p == Head(inbox).peer
           a == Head(inbox).ann
           r == HandleTreeAnnouncement(node, p, a, Up)
<1>1. p \in Peer /\ a \in Update /\ Up \in SUBSET Peer /\ node \in State
  BY HeadTask DEF HandleUpdate, IInv, Up, Sound
<1>2. Sound(r) /\ Become(r)
  BY <1>1, HandleTreeAnnouncementSound DEF HandleUpdate, IInv
<1>3. /\ node'.announcements = [node.announcements EXCEPT ![p] = Store(a, node.ordering + 1)]
      /\ node'.ordering = node.ordering + 1
  BY <1>1, <1>2, BecomeTable, HandleTreeAnnouncementTable DEF Sound
<1> HIDE DEF p, a, r
<1>4. node.ordering \in Nat /\ \A q \in Peer : node.announcements[q] # NoAnn =>
        node.announcements[q].order \in Nat
  BY <1>1 DEF State, Stored
<1>5. /\ node'.announcements[p].order = node.ordering + 1
      /\ \A q \in Peer \ {p} : node'.announcements[q] = node.announcements[q]
  BY <1>1, <1>3 DEF State, Store
<1>6. QED
  BY <1>3, <1>4, <1>5 DEF OrdersDiffer, ReceiveOrdersDiffer

LEMMA NextOrders == IInv /\ OrdersDiffer /\ [Next]_vars => OrdersDiffer'
<1> SUFFICES ASSUME IInv, OrdersDiffer, [Next]_vars PROVE OrdersDiffer'
  OBVIOUS
<1>0. Up \in SUBSET Peer /\ node \in State
  BY DEF Up, Sound, IInv
<1>1. CASE HandleUpdate
  BY <1>1, HandleUpdateOrders
<1>2. CASE HandleCleanup
  <2> DEFINE p == Head(inbox).peer
             r == PortDisconnected(node, p, Up)
  <2>1. p \in Peer
    BY <1>2, HeadTask DEF HandleCleanup, IInv
  <2>2. Sound(r) /\ Become(r)
    BY <1>0, <1>2, <2>1, PortDisconnectedSound DEF HandleCleanup, IInv
  <2>3. \/ \A q \in Peer : node'.announcements[q] = NoAnn
        \/ /\ node'.announcements = [node.announcements EXCEPT ![p] = NoAnn]
           /\ node'.ordering = node.ordering
    BY SMTT(60), <1>0, <2>1, <2>2, BecomeTable, PortDisconnectedTable DEF Sound
  <2>4. CASE \A q \in Peer : node'.announcements[q] = NoAnn
    BY <2>4 DEF OrdersDiffer, ReceiveOrdersDiffer
  <2>5. CASE /\ node'.announcements = [node.announcements EXCEPT ![p] = NoAnn]
             /\ node'.ordering = node.ordering
    <3> HIDE DEF p, r
    <3>1. \A q \in Peer : node'.announcements[q] # NoAnn =>
            node'.announcements[q] = node.announcements[q]
      BY <1>0, <2>5 DEF State
    <3>2. QED
      BY <2>5, <3>1, FewerEntries
  <2>6. QED
    BY <2>3, <2>4, <2>5
<1>3. CASE HandleEndOfWait
  <2>1. Sound(EndWait(node, Up)) /\ Become(EndWait(node, Up))
    BY <1>0, <1>3, EndWaitSound DEF HandleEndOfWait
  <2>2. node'.announcements = node.announcements /\ node'.ordering = node.ordering
    BY <1>0, <2>1, BecomeTable, EndWaitTable DEF Sound
  <2>3. QED
    BY <2>2, FewerEntries
<1>4. CASE HandleMaintain
  <2>1. MaintainTree(node, Up) \in State /\ Become(MaintainTree(node, Up))
    BY <1>0, <1>4, MaintainTreeType DEF HandleMaintain
  <2>2. node'.announcements = node.announcements /\ node'.ordering = node.ordering
    BY <1>0, <2>1, BecomeTable, MaintainTreeType
  <2>3. QED
    BY <2>2, FewerEntries
<1>5. ASSUME NEW p \in Peer, AddPeer(p) PROVE OrdersDiffer'
  <2> DEFINE r == SendTo(node, RootAnnouncement(node), {p})
  <2>1. r \in State /\ SameBut(node, r) /\ Become(r)
    BY <1>0, <1>5, RootAnnouncementType, SendToType DEF AddPeer
  <2>2. node'.announcements = node.announcements /\ node'.ordering = node.ordering
    BY <2>1, BecomeTable DEF SameBut
  <2>3. QED
    BY <2>2, FewerEntries
<1>6. ASSUME NEW p \in Peer, Expire(p) PROVE OrdersDiffer'
  <2>1. node.announcements[p] \in Stored
    BY <1>0, <1>6 DEF Expire, State
  <2>2. /\ node'.ordering = node.ordering
        /\ \A q \in Peer \ {p} : node'.announcements[q] = node.announcements[q]
        /\ node'.announcements[p] = [node.announcements[p] EXCEPT !.expired = TRUE]
    BY <1>0, <1>6 DEF Expire, State
  <2>3. node'.announcements[p].order = node.announcements[p].order
    BY <2>1, <2>2 DEF Stored
  <2>4. QED
    BY <1>6, <2>2, <2>3, FewerEntries DEF Expire
<1>7. ASSUME NEW k \in Remote, LearnCoords(k) \/ CleanCachedCoords(k) PROVE OrdersDiffer'
  <2>1. node'.announcements = node.announcements /\ node'.ordering = node.ordering
    BY <1>0, <1>7 DEF LearnCoords, CleanCachedCoords, State
  <2>2. QED
    BY <2>1, FewerEntries
<1>8. CASE UNCHANGED node
  BY <1>8, FewerEntries
<1>9. ASSUME \/ RefuseUpdate \/ FireWaitTimer \/ FireTreeTimer \/ UNCHANGED vars
             \/ \E p \in Peer : Stop(p) \/ ReadFrame(p) \/ Dispatch(p)
      PROVE  UNCHANGED node
  BY <1>9 DEF RefuseUpdate, FireWaitTimer, FireTreeTimer, Stop, ReadFrame, Dispatch, vars
<1>10. QED
  BY <1>1, <1>2, <1>3, <1>4, <1>5, <1>6, <1>7, <1>8, <1>9 DEF Next, HandleTask

(* The receive order, the last tie-break of parent selection, is one entry's *)
(* own: although _start begins again from 0, it empties the table with it.  *)
THEOREM OrdersAreUnique == Spec => []ReceiveOrdersDiffer
<1>1. Init => OrdersDiffer
  BY DEF Init, InitialState, OrdersDiffer, ReceiveOrdersDiffer
<1>2. OrdersDiffer => ReceiveOrdersDiffer
  BY DEF OrdersDiffer
<1>3. QED
  BY <1>1, <1>2, NextOrders, InitIInv, NextIInv, PTL DEF Spec

----------------------------------------------------------------------------
(* What is in a sequence that grows at its end and shrinks at its head.     *)
LEMMA ElementsOfAppend ==
  ASSUME NEW S, NEW seq \in Seq(S), NEW x \in S
  PROVE  Elements(Append(seq, x)) = Elements(seq) \cup {x}
<1> DEFINE t == Append(seq, x)
<1>1. /\ DOMAIN t = DOMAIN seq \cup {Len(seq) + 1} /\ t[Len(seq) + 1] = x
      /\ \A i \in DOMAIN seq : t[i] = seq[i]
  OBVIOUS
<1> HIDE DEF t
<1>2. QED
  BY <1>1 DEF Elements

LEMMA ElementsOfTail ==
  ASSUME NEW S, NEW seq \in Seq(S), seq # <<>>
  PROVE  Elements(seq) \subseteq Elements(Tail(seq)) \cup {Head(seq)}
<1> SUFFICES ASSUME NEW i \in DOMAIN seq, i # 1
             PROVE  seq[i] \in Elements(Tail(seq))
  BY DEF Elements
<1>1. i - 1 \in DOMAIN Tail(seq) /\ Tail(seq)[i - 1] = seq[i]
  OBVIOUS
<1>2. QED
  BY <1>1 DEF Elements

(* A step that begins no wait keeps the promise if it drops no timer and no *)
(* end of a wait.                                                           *)
LEMMA WaitIsKept ==
  ASSUME WaitWillEnd, node'.waiting => node.waiting, waits' = waits,
         waits \in Elements(timers) =>
           waits \in Elements(timers') \/ EndOfWait(waits) \in Elements(inbox'),
         EndOfWait(waits) \in Elements(inbox) => EndOfWait(waits) \in Elements(inbox')
  PROVE  WaitWillEnd'
BY DEF WaitWillEnd, EndOfWait

(* A task that is no end of a wait leaves the inbox.                        *)
LEMMA OtherTask ==
  ASSUME TypeOK, NEW kind, Running(kind), kind # "endwait"
  PROVE  EndOfWait(waits) \in Elements(inbox) => EndOfWait(waits) \in Elements(Tail(inbox))
<1>1. inbox \in Seq(Task) /\ inbox # <<>> /\ Head(inbox).kind = kind
  BY DEF TypeOK, Running
<1>2. EndOfWait(waits) # Head(inbox)
  BY <1>1 DEF EndOfWait
<1>3. QED
  BY <1>1, <1>2, ElementsOfTail

(* A task that is posted drops none.                                        *)
LEMMA PostedTask ==
  ASSUME NEW x \in Task, NEW rest \in Seq(Task)
  PROVE  Elements(Append(rest, x)) = Elements(rest) \cup {x}
BY ElementsOfAppend

LEMMA HandleUpdateWait == ASSUME IInv, WaitWillEnd, HandleUpdate PROVE WaitWillEnd'
<1> DEFINE p == Head(inbox).peer
           a == Head(inbox).ann
           r == HandleTreeAnnouncement(node, p, a, Up)
           wait == AnnouncementAction(node, p, a) = "SelectNewParentWithWait"
<1>1. p \in Peer /\ a \in Update /\ Up \in SUBSET Peer /\ node \in State
  BY HeadTask DEF HandleUpdate, IInv, Up, Sound
<1>2. Sound(r) /\ Become(r)
  BY <1>1, HandleTreeAnnouncementSound DEF HandleUpdate, IInv
<1>3. node'.waiting => node.waiting \/ wait
  BY <1>1, <1>2, BecomeTable, HandleTreeAnnouncementTable DEF Sound
<1>4. CASE wait
  <2>1. waits' = waits + 1 /\ timers' = Append(timers, waits + 1)
    BY <1>4 DEF HandleUpdate, BeginWait
  <2>2. timers \in Seq(Nat) /\ waits + 1 \in Nat
    BY DEF IInv, TypeOK
  <2>3. waits' \in Elements(timers')
    BY <2>1, <2>2, ElementsOfAppend
  <2>4. QED
    BY <2>3 DEF WaitWillEnd
<1>5. CASE ~wait
  <2>1. UNCHANGED <<waits, timers>> /\ inbox' = Tail(inbox) /\ Running("frame")
    BY <1>5 DEF HandleUpdate
  <2>2. QED
    BY <1>3, <1>5, <2>1, OtherTask, WaitIsKept DEF IInv
<1>6. QED
  BY <1>4, <1>5

LEMMA NextWait == IInv /\ WaitWillEnd /\ [Next]_vars => WaitWillEnd'
<1> SUFFICES ASSUME IInv, WaitWillEnd, [Next]_vars PROVE WaitWillEnd'
  OBVIOUS
<1>0. Up \in SUBSET Peer /\ node \in State /\ inbox \in Seq(Task) /\ timers \in Seq(Nat)
  BY DEF Up, Sound, IInv, TypeOK
<1>1. CASE HandleUpdate
  BY <1>1, HandleUpdateWait
<1>2. CASE HandleCleanup
  <2> DEFINE p == Head(inbox).peer
             r == PortDisconnected(node, p, Up)
  <2>1. p \in Peer
    BY <1>2, HeadTask DEF HandleCleanup, IInv
  <2>2. Sound(r) /\ Become(r)
    BY <1>0, <1>2, <2>1, PortDisconnectedSound DEF HandleCleanup, IInv
  <2>3. node'.waiting => node.waiting
    BY <1>0, <2>1, <2>2, BecomeTable, PortDisconnectedTable DEF Sound
  <2>4. UNCHANGED <<waits, timers>> /\ inbox' = Tail(inbox) /\ Running("cleanup")
    BY <1>2 DEF HandleCleanup
  <2>5. QED
    BY <2>3, <2>4, OtherTask, WaitIsKept DEF IInv
<1>3. CASE HandleEndOfWait
  <2>1. Sound(EndWait(node, Up)) /\ Become(EndWait(node, Up))
    BY <1>0, <1>3, EndWaitSound DEF HandleEndOfWait
  <2>2. ~node'.waiting
    BY <1>0, <2>1, BecomeTable, EndWaitTable DEF Sound
  <2>3. QED
    BY <2>2 DEF WaitWillEnd
<1>4. CASE HandleMaintain
  <2>1. MaintainTree(node, Up) \in State /\ Become(MaintainTree(node, Up))
    BY <1>0, <1>4, MaintainTreeType DEF HandleMaintain
  <2>2. node'.waiting = node.waiting
    BY <1>0, <2>1, BecomeTable, MaintainTreeType
  <2>3. UNCHANGED <<waits, timers>> /\ inbox' = Tail(inbox) /\ Running("maintain")
    BY <1>4 DEF HandleMaintain
  <2>4. QED
    BY <2>2, <2>3, OtherTask, WaitIsKept DEF IInv
<1>5. CASE RefuseUpdate
  <2> DEFINE p == Head(inbox).peer
  <2>1. p \in Peer /\ Tail(inbox) \in Seq(Task)
    BY <1>5, HeadTask DEF RefuseUpdate, IInv
  <2>2. Cleanup(p) \in Task
    BY <2>1 DEF Cleanup, Task
  <2>3. Elements(Tail(inbox)) \subseteq Elements(inbox')
    <3>1. PICK c \in Task, rest \in Seq(Task) : c = Cleanup(p) /\ rest = Tail(inbox)
      BY <2>1, <2>2
    <3>2. inbox' \in {Append(rest, c), rest}
      BY <1>5, <3>1 DEF RefuseUpdate
    <3>3. Elements(Append(rest, c)) = Elements(rest) \cup {c}
      BY <3>1, PostedTask
    <3>4. QED
      BY <3>1, <3>2, <3>3
  <2>4. UNCHANGED <<node, waits, timers>> /\ Running("frame")
    BY <1>5 DEF RefuseUpdate
  <2>5. QED
    BY <2>3, <2>4, OtherTask, WaitIsKept DEF IInv
<1>6. CASE FireWaitTimer
  <2>1. timers # <<>> /\ timers' = Tail(timers) /\ inbox' = Append(inbox, EndOfWait(Head(timers)))
        /\ UNCHANGED <<node, waits>>
    BY <1>6 DEF FireWaitTimer
  <2>2. EndOfWait(Head(timers)) \in Task
    BY <1>0, <2>1 DEF EndOfWait, Task
  <2>3. Elements(inbox') = Elements(inbox) \cup {EndOfWait(Head(timers))}
    BY <1>0, <2>1, <2>2, PostedTask
  <2>4. Elements(timers) \subseteq Elements(timers') \cup {Head(timers)}
    BY <1>0, <2>1, ElementsOfTail
  <2>5. QED
    BY <2>1, <2>3, <2>4, WaitIsKept
<1>7. ASSUME FireTreeTimer \/ \E p \in Peer : Stop(p) \/ Dispatch(p) PROVE WaitWillEnd'
  <2>1. UNCHANGED <<node, timers, waits>>
    BY <1>7 DEF FireTreeTimer, Stop, Dispatch
  <2>2. PICK x \in Task : inbox' = Append(inbox, x)
    <3>1. CASE FireTreeTimer
      BY <3>1 DEF FireTreeTimer, Maintain, Task
    <3>2. ASSUME NEW p \in Peer, Stop(p) PROVE \E x \in Task : inbox' = Append(inbox, x)
      BY <3>2 DEF Stop, Cleanup, Task
    <3>3. ASSUME NEW p \in Peer, Dispatch(p) PROVE \E x \in Task : inbox' = Append(inbox, x)
      <4>1. reading[p] \in Update
        BY <3>3 DEF Dispatch, IInv, TypeOK
      <4>2. QED
        BY <3>3, <4>1 DEF Dispatch, Frame, Task
    <3>4. QED
      BY <1>7, <3>1, <3>2, <3>3
  <2>3. QED
    BY <1>0, <2>1, <2>2, PostedTask, WaitIsKept
<1>8. ASSUME NEW p \in Peer, AddPeer(p) PROVE WaitWillEnd'
  <2> DEFINE r == SendTo(node, RootAnnouncement(node), {p})
  <2>1. r \in State /\ SameBut(node, r) /\ Become(r)
    BY <1>0, <1>8, RootAnnouncementType, SendToType DEF AddPeer
  <2>2. node'.waiting = node.waiting
    BY <2>1, BecomeTable DEF SameBut
  <2>3. QED
    BY <1>8, <2>2, WaitIsKept DEF AddPeer
<1>9. ASSUME \/ \E p \in Peer : ReadFrame(p) \/ Expire(p)
             \/ \E k \in Remote : LearnCoords(k) \/ CleanCachedCoords(k)
             \/ UNCHANGED vars
      PROVE  WaitWillEnd'
  <2>1. UNCHANGED <<inbox, timers, waits>> /\ node'.waiting = node.waiting
    BY <1>0, <1>9 DEF ReadFrame, Expire, LearnCoords, CleanCachedCoords, vars, State
  <2>2. QED
    BY <2>1, WaitIsKept
<1>10. QED
  BY <1>1, <1>2, <1>3, <1>4, <1>5, <1>6, <1>7, <1>8, <1>9 DEF Next, HandleTask

(* A wait always has a timer or a posted task that will end it: a node does *)
(* not act as a root for ever, however stale timers, stops of the state and *)
(* later waits interleave.                                                  *)
THEOREM WaitsAreTimed == Spec => []WaitWillEnd
<1>1. Init => WaitWillEnd
  BY DEF Init, InitialState, WaitWillEnd
<1>2. QED
  BY <1>1, NextWait, InitIInv, NextIInv, PTL DEF Spec

----------------------------------------------------------------------------
(* What may make the root weaker.                                           *)
RootOf(s) == RootAnnouncement(s).root

(* The root depends on the parent and its entry in the table only.          *)
LEMMA RootOfSame ==
  ASSUME NEW s, NEW t, t.parent = s.parent,
         s.parent # NoPeer => t.announcements[s.parent] = s.announcements[s.parent]
  PROVE  RootOf(t) = RootOf(s)
BY DEF RootOf, RootAnnouncement, SelfAnnouncement

(* The actor's next state has the root its task ended with.                 *)
LEMMA BecomeRootOf ==
  ASSUME NEW s \in State, Become(s)
  PROVE  Root' = RootOf(s)
<1>1. node'.parent = s.parent /\ node'.announcements = s.announcements
  BY DEF Become, State
<1>2. QED
  BY <1>1 DEF Root, RootOf, RootAnnouncement, SelfAnnouncement

(* A parent that is up, not expired and on no loop.                         *)
GoodParent(s, up) ==
  /\ s.parent \in up
  /\ s.announcements[s.parent] # NoAnn
  /\ ~s.announcements[s.parent].expired
  /\ ~IsLoopOrChildOf(s.announcements[s.parent], Self)
  /\ s.announcements[s.parent].root >= Self

(* Such a parent is itself a candidate, and no candidate has a weaker root: *)
(* whatever made us select, the root does not get weaker.                   *)
LEMMA SelectKeepsRoot ==
  ASSUME NEW s \in State, NEW up \in SUBSET Peer, GoodParent(s, up)
  PROVE  RootOf(SelectNewParent(s, up)) >= RootOf(s)
<1> DEFINE last == s.announcements[s.parent]
           b == BestParent(s, up)
           t == SetParent(s, b)
<1>1. s.parent \in Peer /\ s.parent # NoPeer
  BY NodeAssumption DEF GoodParent
<1>2. RootAnnouncement(s) = last /\ last \in Stored
  BY <1>1 DEF GoodParent, RootAnnouncement, State
<1>3. last.root \in Nat /\ last.seq \in Nat /\ last.root >= Self /\ Self \in Nat
  BY <1>2, NodeAssumption DEF GoodParent, Stored
<1>4. RootToMatch(s) = [root |-> last.root, seq |-> last.seq]
  BY <1>2, <1>3 DEF RootToMatch
<1>5. NotOlder(last, RootToMatch(s))
  BY <1>3, <1>4 DEF NotOlder
<1>6. s.parent \in ParentCandidates(s, up)
  BY <1>5 DEF ParentCandidates, GoodParent
<1>7. b \in ParentCandidates(s, up)
  BY <1>6, BestParentIsCandidate
<1>8. /\ b \in Peer /\ b # NoPeer /\ s.announcements[b] # NoAnn
      /\ NotOlder(s.announcements[b], RootToMatch(s))
  BY <1>7, NodeAssumption DEF ParentCandidates
<1>9. s.announcements[b].root >= last.root
  <2>1. s.announcements[b].root \in Nat
    BY <1>8 DEF State, Stored
  <2>2. QED
    BY <1>3, <1>4, <1>8, <2>1 DEF NotOlder
<1>10. SelectNewParent(s, up) = s \/ SelectNewParent(s, up) = SendTreeAnnouncements(t, up)
  BY <1>6 DEF SelectNewParent
<1>11. t \in State /\ t.parent = b /\ t.announcements = s.announcements
  BY <1>8, SetParentType
<1> HIDE DEF t, b
<1>12. RootOf(SendTreeAnnouncements(t, up)) = s.announcements[b].root
  <2>1. RootOf(SendTreeAnnouncements(t, up)) = RootOf(t)
    BY <1>11, SendTreeAnnouncementsType, RootOfSame DEF SameBut
  <2>2. QED
    BY <1>8, <1>11, <2>1 DEF RootOf, RootAnnouncement
<1>13. QED
  BY <1>2, <1>3, <1>9, <1>10, <1>12 DEF RootOf

(* An update of a peer that is not the parent does not talk us down.        *)
LEMMA OthersUpdateKeepsRoot ==
  ASSUME NEW s, Sound(s), NEW p \in Peer, NEW a \in Update, NEW up \in SUBSET Peer,
         GoodParent(s, up), p # s.parent
  PROVE  RootOf(HandleTreeAnnouncement(s, p, a, up)) >= RootOf(s)
<1> DEFINE stored == Store(a, s.ordering + 1)
           t == [s EXCEPT !.ordering = s.ordering + 1, !.announcements[p] = stored]
           u == SetParent(t, p)
           do == AnnouncementAction(s, p, a)
           r == HandleTreeAnnouncement(s, p, a, up)
<1>1. s \in State /\ s.ordering + 1 \in Nat /\ stored \in Stored /\ stored # NoAnn
  <2>1. s \in State /\ s.ordering + 1 \in Nat
    BY DEF Sound, State
  <2>2. stored \in Stored
    BY <2>1 DEF Store, Stored, Update
  <2> HIDE DEF stored
  <2>3. QED
    BY <2>1, <2>2, NodeAssumption
<1>2. stored.root = a.root
  BY DEF Store
<1> HIDE DEF stored
<1>3. /\ t \in State /\ t.parent = s.parent
      /\ t.announcements[s.parent] = s.announcements[s.parent]
      /\ t.announcements[p] = stored
  BY <1>1 DEF GoodParent, State
<1>4. RootOf(s) \in Nat
  BY <1>1, RootAnnouncementType DEF RootOf, Stored
<1>5. RootOf(t) = RootOf(s)
  BY <1>3, RootOfSame
<1>6. do \in {"AcceptNewParent", "SelectNewParent", "InformPeerOfStrongerRoot", "DropFrame", "Saved"}
      /\ (do = "AcceptNewParent" => a.root > RootOf(s))
  <2> DEFINE last == RootAnnouncement(s)
             loop == IsLoopOrChildOf(a, Self)
  <2>1. do \in {"Saved", DetermineAnnouncementAction(FALSE, loop, a, last)}
    BY DEF AnnouncementAction
  <2>2. RootOf(s) = last.root
    BY DEF RootOf
  <2> HIDE DEF do, last, loop
  <2>3. /\ DetermineAnnouncementAction(FALSE, loop, a, last)
             \in {"AcceptNewParent", "SelectNewParent", "InformPeerOfStrongerRoot", "DropFrame"}
        /\ DetermineAnnouncementAction(FALSE, loop, a, last) = "AcceptNewParent"
             => a.root > last.root
    BY DEF DetermineAnnouncementAction
  <2>4. QED
    BY <2>1, <2>2, <2>3
<1>7. \/ do = "AcceptNewParent" /\ r = SendTreeAnnouncements(u, up)
      \/ r = SelectNewParent(t, up)
      \/ r = SendTo(t, RootAnnouncement(s), {p})
      \/ r = t
  BY <1>6 DEF HandleTreeAnnouncement, stored
<1>8. u \in State /\ u.parent = p /\ u.announcements = t.announcements
  BY <1>3, SetParentType
<1>9. GoodParent(t, up)
  BY <1>3 DEF GoodParent
<1> HIDE DEF t, u, do, r
<1>10. RootOf(SendTreeAnnouncements(u, up)) = a.root
  <2>1. RootOf(SendTreeAnnouncements(u, up)) = RootOf(u)
    BY <1>8, SendTreeAnnouncementsType, RootOfSame DEF SameBut
  <2>2. QED
    BY <1>1, <1>2, <1>3, <1>8, <2>1, NodeAssumption DEF RootOf, RootAnnouncement
<1>11. RootOf(SelectNewParent(t, up)) >= RootOf(t)
  BY <1>3, <1>9, SelectKeepsRoot
<1>12. RootOf(SendTo(t, RootAnnouncement(s), {p})) = RootOf(t)
  BY <1>1, <1>3, RootAnnouncementType, SendToType, RootOfSame DEF SameBut
<1>13. a.root \in Nat
  BY DEF Update
<1>14. QED
  BY <1>4, <1>5, <1>6, <1>7, <1>10, <1>11, <1>12, <1>13 DEF r

(* What RootWeakensOnlyOnBadNews allows a weaker root on.                   *)
BadNews ==
  LET t == Head(inbox) IN
  \/ t.kind \in {"frame", "cleanup"} /\ t.peer = node.parent
  \/ node.announcements[node.parent].expired
  \/ node.parent \notin Up

(* A step that makes the root weaker is one on bad news about the parent.   *)
LEMMA NextWeakens ==
  ASSUME IInv, IInv', [Next]_vars, Root' < Root
  PROVE  BadNews
<1>1. node \in State /\ node' \in State /\ Up \in SUBSET Peer /\ Self \in Nat
  BY NodeAssumption DEF IInv, Sound, Up
<1>2. Root \in Nat /\ Root' \in Nat /\ Root = RootOf(node) /\ Root' = RootOf(node')
  <2>1. RootOf(node) \in Nat /\ RootOf(node') \in Nat
    BY <1>1, RootAnnouncementType DEF RootOf, Stored
  <2>2. Root = RootOf(node) /\ Root' = RootOf(node')
    BY DEF Root, RootOf, RootAnnouncement, SelfAnnouncement
  <2>3. QED
    BY <2>1, <2>2
<1>3. Root' >= Self
  <2>1. SelfAnnouncement(node').root = Self
    BY DEF SelfAnnouncement
  <2>2. QED
    BY <1>1, <1>2, <2>1 DEF IInv, Sound, RootOf, RootAnnouncement
<1>4. node.parent # NoPeer
  <2>1. node.parent = NoPeer => RootOf(node) = Self
    BY DEF RootOf, RootAnnouncement, SelfAnnouncement
  <2>2. QED
    BY <1>1, <1>2, <1>3, <2>1
<1> SUFFICES ASSUME ~BadNews PROVE FALSE
  OBVIOUS
<1>5. GoodParent(node, Up) /\ Sound(node) /\ ~node.waiting
  BY <1>4 DEF GoodParent, BadNews, IInv, Sound
<1>6. ASSUME NEW s \in State, Become(s), RootOf(s) >= RootOf(node) PROVE FALSE
  <2>1. Root' = RootOf(s)
    BY <1>6, BecomeRootOf
  <2>2. QED
    BY <1>2, <1>6, <2>1
<1>7. ASSUME node'.parent = node.parent,
             node'.announcements[node.parent].root = node.announcements[node.parent].root,
             node'.announcements[node.parent] # NoAnn
      PROVE  FALSE
  <2>1. RootOf(node') = RootOf(node)
    BY <1>4, <1>5, <1>7 DEF RootOf, RootAnnouncement, GoodParent
  <2>2. QED
    BY <1>2, <2>1
<1>8. ASSUME HandleUpdate PROVE FALSE
  <2> DEFINE p == Head(inbox).peer
             a == Head(inbox).ann
             r == HandleTreeAnnouncement(node, p, a, Up)
  <2>1. p \in Peer /\ a \in Update /\ ~Refused(node, p, a) /\ Become(r)
    BY <1>8, HeadTask DEF HandleUpdate, IInv
  <2>2. p # node.parent
    BY <1>8 DEF HandleUpdate, Running, BadNews
  <2> HIDE DEF p, a
  <2>3. r \in State
    BY <1>1, <1>5, <2>1, HandleTreeAnnouncementSound DEF Sound
  <2>4. RootOf(r) >= RootOf(node)
    BY <1>1, <1>5, <2>1, <2>2, OthersUpdateKeepsRoot
  <2>5. QED
    BY <1>6, <2>1, <2>3, <2>4
<1>9. ASSUME HandleCleanup PROVE FALSE
  <2> DEFINE p == Head(inbox).peer
             t == [node EXCEPT !.announcements[p] = NoAnn]
  <2>1. p \in Peer /\ Become(PortDisconnected(node, p, Up))
    BY <1>9, HeadTask DEF HandleCleanup, IInv, Running
  <2>2. p # node.parent /\ node.parent \in Up
    BY <1>9 DEF HandleCleanup, Running, BadNews
  <2>3. Become(t)
    BY <2>1, <2>2 DEF PortDisconnected
  <2>4. /\ t \in State /\ t.parent = node.parent
        /\ t.announcements[node.parent] = node.announcements[node.parent]
    BY <1>1, <2>1, <2>2 DEF State, Up
  <2> HIDE DEF t
  <2>5. RootOf(t) = RootOf(node)
    BY <2>4, RootOfSame
  <2>6. QED
    BY <1>1, <1>2, <1>6, <2>3, <2>4, <2>5
<1>10. ASSUME HandleEndOfWait PROVE FALSE
  <2> DEFINE t == [node EXCEPT !.waiting = FALSE]
  <2>1. /\ t \in State /\ t.parent = node.parent /\ t.announcements = node.announcements
        /\ ~t.waiting
    BY <1>1 DEF State
  <2>2. Become(SelectNewParent(t, Up))
    BY <1>10 DEF HandleEndOfWait, EndWait
  <2> HIDE DEF t
  <2>3. GoodParent(t, Up) /\ RootOf(t) = RootOf(node)
    BY <1>5, <2>1, RootOfSame DEF GoodParent
  <2>4. SelectNewParent(t, Up) \in State
    BY <1>1, <2>1, SelectNewParentSound DEF Sound
  <2>5. RootOf(SelectNewParent(t, Up)) >= RootOf(node)
    BY <1>1, <2>1, <2>3, SelectKeepsRoot
  <2>6. QED
    BY <1>6, <2>2, <2>4, <2>5
<1>11. ASSUME HandleMaintain PROVE FALSE
  <2>1. Become(node)
    BY <1>4, <1>11 DEF HandleMaintain, MaintainTree
  <2>2. QED
    BY <1>1, <1>2, <1>6, <2>1
<1>12. ASSUME NEW p \in Peer, AddPeer(p) PROVE FALSE
  <2> DEFINE s == SendTo(node, RootAnnouncement(node), {p})
  <2>1. s \in State /\ SameBut(node, s) /\ Become(s)
    BY <1>1, <1>12, RootAnnouncementType, SendToType DEF AddPeer
  <2> HIDE DEF s
  <2>2. RootOf(s) = RootOf(node)
    BY <2>1, RootOfSame DEF SameBut
  <2>3. QED
    BY <1>2, <1>6, <2>1, <2>2
<1>13. ASSUME NEW p \in Peer, Expire(p) PROVE FALSE
  <2> DEFINE e == [node.announcements[p] EXCEPT !.expired = TRUE]
  <2>1. e \in Stored /\ e.root = node.announcements[p].root
    BY ZenonT(60), <1>1, <1>13 DEF Expire, State, Stored
  <2>2. e # NoAnn
    BY <2>1, NodeAssumption
  <2>3. node' = [node EXCEPT !.announcements = [node.announcements EXCEPT ![p] = e]]
    BY <1>1, <1>13 DEF Expire, State
  <2> HIDE DEF e
  <2>4. node'.parent = node.parent /\ node'.announcements = [node.announcements EXCEPT ![p] = e]
    BY <1>1, <2>3 DEF State
  <2>5. node'.announcements[node.parent] \in {e, node.announcements[node.parent]}
        /\ (p # node.parent => node'.announcements[node.parent] = node.announcements[node.parent])
        /\ (p = node.parent => node'.announcements[node.parent] = e)
    BY <1>1, <1>4, <2>4 DEF State
  <2>6. QED
    BY <1>5, <1>7, <2>1, <2>2, <2>4, <2>5 DEF GoodParent
<1>14. ASSUME NEW k \in Remote, LearnCoords(k) \/ CleanCachedCoords(k) PROVE FALSE
  <2>1. node'.parent = node.parent /\ node'.announcements = node.announcements
    BY <1>1, <1>14 DEF LearnCoords, CleanCachedCoords, State
  <2>2. QED
    BY <1>5, <1>7, <2>1 DEF GoodParent
<1>15. ASSUME node' = node PROVE FALSE
  BY <1>2, <1>15
<1>16. ASSUME \/ RefuseUpdate
              \/ FireWaitTimer
              \/ FireTreeTimer
              \/ \E p \in Peer : Stop(p) \/ ReadFrame(p) \/ Dispatch(p)
              \/ UNCHANGED vars
       PROVE  FALSE
  BY <1>15, <1>16 DEF RefuseUpdate, FireWaitTimer, FireTreeTimer, Stop, ReadFrame, Dispatch, vars
<1>17. QED
  BY <1>8, <1>9, <1>10, <1>11, <1>12, <1>13, <1>14, <1>16 DEF Next, HandleTask

(* Nobody but the parent can talk a router down: for any number of peers    *)
(* and whatever they announce, the root it follows gets weaker only on an   *)
(* update of the parent, its clean-up, or its being stopped or expired.     *)
THEOREM WeakensOnlyOnBadNews == Spec => RootWeakensOnlyOnBadNews
<1>1. IInv /\ IInv' /\ [Next]_vars => [Root' < Root => BadNews]_vars
  BY NextWeakens
<1>2. RootWeakensOnlyOnBadNews <=> [][Root' < Root => BadNews]_vars
  BY DEF RootWeakensOnlyOnBadNews, BadNews
<1>3. QED
  BY <1>1, <1>2, Invariance, PTL DEF Spec

----------------------------------------------------------------------------
(* What the neighbours are told: the root and the sequence number of the    *)
(* announcement we would send at the end of a task, its mark.               *)
MarkOf(a) == [root |-> a.root, seq |-> a.seq]

Mark(s) == MarkOf(RootAnnouncement(s))

Drained(s) == \A p \in Peer : s.proto[p] = <<>>

(* The mark of the last announcement pushed for p.                          *)
LastMark(s, p) == MarkOf(s.proto[p][Len(s.proto[p])])

(* s has pushed announcements of mark m for the peers in `to' and no others. *)
Tells(s, m, to) ==
  \A p \in Peer : IF p \in to THEN s.proto[p] # <<>> /\ LastMark(s, p) = m ELSE s.proto[p] = <<>>

(* A task has told its neighbours the mark it ends with: all of them unless *)
(* the mark is the one it began with.                                       *)
Announces(s, r, up) ==
  /\ r \in State
  /\ \A p \in Peer : r.proto[p] # <<>> => LastMark(r, p) = Mark(r)
  /\ Mark(r) = Mark(s) \/ \A p \in up : r.proto[p] # <<>>

(* The mark depends on the parent, its entry and our sequence only.         *)
LEMMA MarkOfSame ==
  ASSUME NEW s, NEW t, t.parent = s.parent, t.sequence = s.sequence,
         s.parent # NoPeer => t.announcements[s.parent] = s.announcements[s.parent]
  PROVE  Mark(t) = Mark(s)
BY DEF Mark, MarkOf, RootAnnouncement, SelfAnnouncement

LEMMA MarkType ==
  ASSUME NEW s \in State
  PROVE  /\ Mark(s) \in [root : Nat, seq : Nat]
         /\ Mark(s).root = RootAnnouncement(s).root
         /\ Mark(s).seq = RootAnnouncement(s).seq
BY RootAnnouncementType DEF Mark, MarkOf, Stored

LEMMA SendToTells ==
  ASSUME NEW s \in State, Drained(s), NEW a \in Stored, NEW to \in SUBSET Peer
  PROVE  Tells(SendTo(s, a, to), MarkOf(a), to)
<1> DEFINE proto == [p \in Peer |-> IF p \in to THEN Append(s.proto[p], ForPeer(a, p))
                                               ELSE s.proto[p]]
           r == SendTo(s, a, to)
<1>1. r.proto = proto
  BY DEF SendTo, State
<1> HIDE DEF r
<1>2. ASSUME NEW p \in Peer, p \in to
      PROVE  r.proto[p] # <<>> /\ LastMark(r, p) = MarkOf(a)
  <2>1. ForPeer(a, p) \in Update
    BY ForPeerType
  <2>2. MarkOf(ForPeer(a, p)) = MarkOf(a)
    BY DEF MarkOf, ForPeer
  <2>3. r.proto[p] = Append(<<>>, ForPeer(a, p))
    BY <1>1, <1>2 DEF Drained
  <2> HIDE DEF proto
  <2>4. Len(r.proto[p]) = 1 /\ r.proto[p][1] = ForPeer(a, p) /\ r.proto[p] # <<>>
    BY <2>1, <2>3
  <2>5. QED
    BY <2>2, <2>4 DEF LastMark
<1>3. ASSUME NEW p \in Peer, p \notin to
      PROVE  r.proto[p] = <<>>
  BY <1>1, <1>3 DEF Drained
<1>4. QED
  BY <1>2, <1>3 DEF Tells, r

(* _sendTreeAnnouncements tells all the peers that are up the mark.         *)
LEMMA SendTreeAnnouncementsTells ==
  ASSUME NEW s \in State, Drained(s), NEW up \in SUBSET Peer
  PROVE  LET r == SendTreeAnnouncements(s, up) IN
         r \in State /\ Mark(r) = Mark(s) /\ Tells(r, Mark(s), up)
<1>1. RootAnnouncement(s) \in Stored
  BY RootAnnouncementType
<1>2. Tells(SendTreeAnnouncements(s, up), Mark(s), up)
  BY <1>1, SendToTells DEF SendTreeAnnouncements, Mark
<1>3. Mark(SendTreeAnnouncements(s, up)) = Mark(s)
  BY SendTreeAnnouncementsType, MarkOfSame DEF SameBut
<1>4. QED
  BY <1>2, <1>3, SendTreeAnnouncementsType

(* _setParent pushes nothing and keeps our sequence.                        *)
LEMMA SetParentDrained ==
  ASSUME NEW s \in State, Drained(s), NEW p \in Peer \cup {NoPeer}
  PROVE  Drained(SetParent(s, p)) /\ SetParent(s, p).sequence = s.sequence
<1> DEFINE t == [s EXCEPT !.parent = p]
<1>1. t \in State /\ t.proto = s.proto /\ t.sequence = s.sequence
  BY DEF State
<1>2. \E c : SetParent(s, p) = [t EXCEPT !.coordsCache = c]
  BY DEF SetParent
<1> HIDE DEF t
<1>3. SetParent(s, p).proto = t.proto /\ SetParent(s, p).sequence = t.sequence
  BY <1>1, <1>2 DEF State
<1>4. QED
  BY <1>1, <1>3 DEF Drained

(* A root that maintains the tree tells everyone its next sequence number.  *)
LEMMA MaintainTreeTells ==
  ASSUME NEW s \in State, Drained(s), s.parent = NoPeer, NEW up \in SUBSET Peer
  PROVE  LET r == MaintainTree(s, up) IN
         /\ r \in State /\ Tells(r, Mark(r), up)
         /\ Mark(r) = [root |-> Self, seq |-> s.sequence + 1]
<1> DEFINE t == [s EXCEPT !.sequence = s.sequence + 1]
<1>0. s.sequence + 1 \in Nat
  BY DEF State
<1>1. t \in State /\ t.parent = NoPeer /\ t.sequence = s.sequence + 1 /\ t.proto = s.proto
  BY <1>0 DEF State
<1>2. MaintainTree(s, up) = SendTreeAnnouncements(t, up)
  BY DEF MaintainTree
<1> HIDE DEF t
<1>3. Drained(t)
  BY <1>1 DEF Drained
<1>4. Mark(t) = [root |-> Self, seq |-> s.sequence + 1]
  BY <1>1 DEF Mark, MarkOf, RootAnnouncement, SelfAnnouncement
<1>5. QED
  BY <1>1, <1>2, <1>3, <1>4, SendTreeAnnouncementsTells

LEMMA BecomeRootTells ==
  ASSUME NEW s \in State, Drained(s), s.parent # NoPeer, NEW up \in SUBSET Peer
  PROVE  LET r == BecomeRoot(s, up) IN
         /\ r \in State /\ Tells(r, Mark(r), up)
         /\ Mark(r) = [root |-> Self, seq |-> s.sequence + 1]
<1> DEFINE t == SetParent(s, NoPeer)
<1>1. t \in State /\ t.parent = NoPeer /\ Drained(t) /\ t.sequence = s.sequence
  BY SetParentType, SetParentDrained
<1>2. BecomeRoot(s, up) = MaintainTree(t, up)
  BY DEF BecomeRoot
<1> HIDE DEF t
<1>3. QED
  BY <1>1, <1>2, MaintainTreeTells

(* Parent selection changes nothing, or makes us the root and says so, or   *)
(* takes a candidate and says so.                                           *)
LEMMA SelectNewParentTells ==
  ASSUME NEW s \in State, Drained(s), NEW up \in SUBSET Peer
  PROVE  LET r == SelectNewParent(s, up) IN
         \/ r = s /\ s.parent \in ParentCandidates(s, up) \cup {NoPeer}
         \/ /\ r \in State /\ Tells(r, Mark(r), up)
            /\ \/ s.parent # NoPeer /\ Mark(r) = [root |-> Self, seq |-> s.sequence + 1]
               \/ NotOlder(Mark(r), RootToMatch(s))
<1> DEFINE r == SelectNewParent(s, up)
           b == BestParent(s, up)
           t == SetParent(s, b)
<1>1. CASE ParentCandidates(s, up) = {}
  <2>1. r = BecomeRoot(s, up)
    BY <1>1 DEF SelectNewParent
  <2>2. CASE s.parent = NoPeer
    BY <2>1, <2>2 DEF BecomeRoot
  <2>3. CASE s.parent # NoPeer
    BY <2>1, <2>3, BecomeRootTells
  <2>4. QED
    BY <2>2, <2>3
<1>2. CASE ParentCandidates(s, up) # {}
  <2>1. b \in ParentCandidates(s, up)
    BY <1>2, BestParentIsCandidate
  <2>2. /\ b \in Peer /\ b # NoPeer /\ s.announcements[b] # NoAnn
        /\ NotOlder(s.announcements[b], RootToMatch(s))
    BY <2>1, NodeAssumption DEF ParentCandidates
  <2>3. CASE b = s.parent
    BY <1>2, <2>1, <2>3 DEF SelectNewParent
  <2>4. CASE b # s.parent
    <3>1. r = SendTreeAnnouncements(t, up)
      BY <1>2, <2>4 DEF SelectNewParent
    <3>2. t \in State /\ t.parent = b /\ t.announcements = s.announcements /\ Drained(t)
      BY <2>2, SetParentType, SetParentDrained
    <3> HIDE DEF t, b, r
    <3>3. Mark(t) = MarkOf(s.announcements[b])
      BY <2>2, <3>2 DEF Mark, RootAnnouncement
    <3>4. r \in State /\ Mark(r) = Mark(t) /\ Tells(r, Mark(t), up)
      BY <3>1, <3>2, SendTreeAnnouncementsTells
    <3>5. NotOlder(Mark(r), RootToMatch(s))
      BY <2>2, <3>3, <3>4 DEF NotOlder, MarkOf
    <3>6. QED
      BY <3>4, <3>5 DEF r
  <2>5. QED
    BY <2>3, <2>4
<1>3. QED
  BY <1>1, <1>2

(* Every entry of the table is signed by the root it names, so that of a    *)
(* parent, whose path does not hold our signature, names another root.      *)
SignedByRoot(s) ==
  \A p \in Peer : s.announcements[p] # NoAnn =>
    HasSigned(s.announcements[p], s.announcements[p].root)

Steady(s) == Sound(s) /\ Drained(s) /\ SignedByRoot(s)

LEMMA RootIsParents ==
  ASSUME NEW s, Steady(s)
  PROVE  /\ s \in State /\ RootAnnouncement(s) \in Stored /\ Mark(s).root >= Self
         /\ s.parent # NoPeer => /\ RootAnnouncement(s) = s.announcements[s.parent]
                                 /\ Mark(s).root # Self
<1>1. s \in State
  BY DEF Steady, Sound
<1>2. RootAnnouncement(s) \in Stored /\ Mark(s).root = RootAnnouncement(s).root
  BY <1>1, MarkType, RootAnnouncementType
<1>3. CASE s.parent = NoPeer
  BY <1>1, <1>2, <1>3, NodeAssumption DEF RootAnnouncement, SelfAnnouncement
<1>4. CASE s.parent # NoPeer
  <2> DEFINE last == s.announcements[s.parent]
  <2>1. s.parent \in Peer /\ last # NoAnn /\ ~HasSigned(last, Self) /\ last.root >= Self
    BY <1>1, <1>4 DEF Steady, Sound, State, IsLoopOrChildOf
  <2>2. HasSigned(last, last.root)
    BY <2>1 DEF Steady, SignedByRoot
  <2>3. last.root # Self
    BY <2>1, <2>2
  <2>4. RootAnnouncement(s) = last
    BY <1>4, <2>1 DEF RootAnnouncement
  <2> HIDE DEF last
  <2>5. QED
    BY <1>1, <1>2, <2>1, <2>3, <2>4 DEF last
<1>5. QED
  BY <1>3, <1>4

(* Having told everyone, or having kept the mark and told nobody.           *)
LEMMA TellsAnnounces ==
  ASSUME NEW s, NEW r \in State, NEW up \in SUBSET Peer, Tells(r, Mark(r), up)
  PROVE  Announces(s, r, up)
BY DEF Tells, Announces

LEMMA SilenceAnnounces ==
  ASSUME NEW s, NEW r \in State, NEW up \in SUBSET Peer, Drained(r), Mark(r) = Mark(s)
  PROVE  Announces(s, r, up)
BY DEF Drained, Announces

LEMMA NeverOlderThanItself ==
  ASSUME NEW s \in State
  PROVE  ~Older(Mark(s), Mark(s))
BY MarkType DEF Older

(* Parent selection tells the peers what it changes, and never an older     *)
(* sequence of a root that we still hear of.                                *)
LEMMA SelectNewParentAnnounces ==
  ASSUME NEW s \in State, Drained(s), NEW up \in SUBSET Peer,
         Mark(s).root >= Self, s.parent # NoPeer => Mark(s).root # Self
  PROVE  LET r == SelectNewParent(s, up) IN
         Announces(s, r, up) /\ ~Older(Mark(r), Mark(s))
<1> DEFINE r == SelectNewParent(s, up)
<1>1. /\ Mark(s).root \in Nat /\ Mark(s).seq \in Nat /\ Self \in Nat
      /\ Mark(s) = [root |-> RootAnnouncement(s).root, seq |-> RootAnnouncement(s).seq]
  BY MarkType, NodeAssumption DEF Mark, MarkOf
<1>2. RootToMatch(s) = Mark(s)
  <2>1. ~(RootAnnouncement(s).root < Self)
    BY <1>1, MarkType
  <2>2. QED
    BY <1>1, <2>1 DEF RootToMatch
<1>3. \/ r = s
      \/ /\ r \in State /\ Tells(r, Mark(r), up)
         /\ \/ s.parent # NoPeer /\ Mark(r) = [root |-> Self, seq |-> s.sequence + 1]
            \/ NotOlder(Mark(r), Mark(s))
  BY <1>2, SelectNewParentTells
<1> HIDE DEF r
<1>4. CASE r = s
  BY <1>4, SilenceAnnounces, NeverOlderThanItself DEF r
<1>5. CASE /\ r \in State /\ Tells(r, Mark(r), up)
           /\ s.parent # NoPeer /\ Mark(r) = [root |-> Self, seq |-> s.sequence + 1]
  <2>1. Mark(r).root # Mark(s).root
    BY <1>5
  <2>2. QED
    BY <1>5, <2>1, TellsAnnounces DEF Older, r
<1>6. CASE r \in State /\ Tells(r, Mark(r), up) /\ NotOlder(Mark(r), Mark(s))
  <2>1. Mark(r).root \in Nat /\ Mark(r).seq \in Nat
    BY <1>6, MarkType
  <2>2. ~Older(Mark(r), Mark(s))
    BY <1>1, <1>6, <2>1 DEF Older, NotOlder
  <2>3. QED
    BY <1>6, <2>2, TellsAnnounces DEF r
<1>7. QED
  BY <1>3, <1>4, <1>5, <1>6

(* So does the end of a wait.                                               *)
LEMMA EndWaitAnnounces ==
  ASSUME NEW s, Steady(s), NEW up \in SUBSET Peer
  PROVE  LET r == EndWait(s, up) IN
         Announces(s, r, up) /\ ~Older(Mark(r), Mark(s))
<1> DEFINE t == [s EXCEPT !.waiting = FALSE]
<1>1. s \in State
  BY RootIsParents
<1>2. /\ t \in State /\ t.parent = s.parent /\ t.sequence = s.sequence
      /\ t.announcements = s.announcements /\ t.proto = s.proto
  BY <1>1 DEF State
<1>3. EndWait(s, up) = SelectNewParent(t, up)
  BY DEF EndWait
<1> HIDE DEF t
<1>4. Mark(t) = Mark(s) /\ Drained(t)
  BY <1>2, MarkOfSame DEF Steady, Drained
<1>5. QED
  BY <1>2, <1>3, <1>4, RootIsParents, SelectNewParentAnnounces DEF Announces

(* So does the clean-up of a peer, except that the sequence number which    *)
(* the parent had announced is forgotten with it.                           *)
LEMMA PortDisconnectedAnnounces ==
  ASSUME NEW s, Steady(s), NEW p \in Peer, NEW up \in SUBSET Peer
  PROVE  LET r == PortDisconnected(s, p, up) IN
         /\ Announces(s, r, up)
         /\ up # {} /\ s.parent # p => Mark(r) = Mark(s)
<1> DEFINE t == [s EXCEPT !.announcements[p] = NoAnn]
<1>1. s \in State /\ p # NoPeer
  BY RootIsParents, NodeAssumption
<1>2. /\ t \in State /\ t.parent = s.parent /\ t.sequence = s.sequence /\ t.proto = s.proto
      /\ t.announcements = [s.announcements EXCEPT ![p] = NoAnn]
  BY <1>1 DEF State
<1>3. PortDisconnected(s, p, up) =
        IF up = {} THEN Start(s) ELSE IF s.parent = p THEN SelectNewParent(t, up) ELSE t
  BY DEF PortDisconnected
<1> HIDE DEF t
<1>4. Drained(t)
  BY <1>2 DEF Steady, Drained
<1>5. CASE up = {}
  <2>1. Start(s) \in State /\ Start(s).proto = s.proto
    BY <1>1 DEF Start, InitialState, State
  <2>2. Announces(s, Start(s), {})
    BY <2>1 DEF Announces, Steady, Drained
  <2>3. QED
    BY <1>3, <1>5, <2>2
<1>6. CASE up # {} /\ s.parent = p
  <2>1. t.announcements[p] = NoAnn /\ t.parent = p
    BY <1>1, <1>2, <1>6 DEF State
  <2>2. t.parent \notin ParentCandidates(t, up)
    BY <2>1 DEF ParentCandidates
  <2>3. LET r == SelectNewParent(t, up) IN r \in State /\ Tells(r, Mark(r), up)
    BY <1>1, <1>2, <1>4, <2>1, <2>2, SelectNewParentTells
  <2>4. QED
    BY <1>3, <1>6, <2>3, TellsAnnounces
<1>7. CASE up # {} /\ s.parent # p
  <2>1. Mark(t) = Mark(s)
    <3>1. s.parent # NoPeer => t.announcements[s.parent] = s.announcements[s.parent]
      BY <1>1, <1>2, <1>7 DEF State
    <3>2. QED
      BY <1>2, <3>1, MarkOfSame
  <2>2. QED
    BY <1>2, <1>3, <1>4, <1>7, <2>1, SilenceAnnounces
<1>8. QED
  BY <1>5, <1>6, <1>7

(* An update that is not refused: whoever is up is told what it changes,    *)
(* and a weaker neighbour what we go on with.  Bad news of the parent makes *)
(* us a root of our own, which is another root than the one it announced.   *)
LEMMA HandleTreeAnnouncementAnnounces ==
  ASSUME NEW s, Steady(s), NEW p \in Peer, NEW a \in Update, ~Refused(s, p, a),
         NEW up \in SUBSET Peer
  PROVE  LET r == HandleTreeAnnouncement(s, p, a, up) IN
         /\ Announces(s, r, up) /\ ~Older(Mark(r), Mark(s))
         /\ SignedByRoot(r)
<1> DEFINE stored == Store(a, s.ordering + 1)
           t == [s EXCEPT !.ordering = s.ordering + 1, !.announcements[p] = stored]
           w == [t EXCEPT !.waiting = TRUE]
           do == AnnouncementAction(s, p, a)
           r == HandleTreeAnnouncement(s, p, a, up)
           last == RootAnnouncement(s)
<1>0. s \in State /\ Sound(s) /\ s.ordering + 1 \in Nat /\ p # NoPeer
  <2>1. s \in State
    BY RootIsParents
  <2>2. QED
    BY <2>1, NodeAssumption DEF Steady, State
<1>1. stored \in Stored /\ stored # NoAnn /\ MarkOf(stored) = MarkOf(a) /\ stored.root = a.root
  <2>1. stored \in Stored
    BY <1>0 DEF Store, Stored, Update
  <2>2. stored.root = a.root /\ MarkOf(stored) = MarkOf(a)
    BY DEF Store, MarkOf
  <2> HIDE DEF stored
  <2>3. QED
    BY <2>1, <2>2, NodeAssumption
<1>2. HasSigned(stored, stored.root)
  <2>1. a.sigs # <<>> /\ a.sigs[1].key = a.root /\ a.sigs \in Seq([key : Nat, hop : Nat])
    BY DEF Refused, SanityCheck, Update
  <2>2. 1 \in DOMAIN a.sigs
    BY <2>1
  <2>3. QED
    BY <2>1, <2>2 DEF HasSigned, Elements, Store
<1> HIDE DEF stored
<1>3. /\ t \in State /\ t.parent = s.parent /\ t.waiting = s.waiting
      /\ t.sequence = s.sequence /\ t.proto = s.proto
      /\ t.announcements = [s.announcements EXCEPT ![p] = stored]
  BY <1>0, <1>1 DEF State
<1>4. /\ t.announcements[p] = stored
      /\ \A q \in Peer \ {p} : t.announcements[q] = s.announcements[q]
  BY <1>0, <1>3 DEF State
<1>5. /\ w \in State /\ w.parent = s.parent /\ w.sequence = s.sequence /\ w.proto = s.proto
  BY <1>3 DEF State
<1>6. r = CASE do = "AcceptUpdate"    -> SendTreeAnnouncements(t, up)
            [] do = "AcceptNewParent" -> SendTreeAnnouncements(SetParent(t, p), up)
            [] do = "SelectNewParent" -> SelectNewParent(t, up)
            [] do = "SelectNewParentWithWait" -> BecomeRoot(w, up)
            [] do = "InformPeerOfStrongerRoot" /\ s.announcements[p] # NoAnn ->
                 SendTo(t, RootAnnouncement(s), {p})
            [] OTHER -> t
  BY DEF HandleTreeAnnouncement, stored
<1>7. r.announcements = [s.announcements EXCEPT ![p] = stored]
  BY <1>0, HandleTreeAnnouncementTable DEF stored
<1>8. Drained(t) /\ Drained(w)
  BY <1>3, <1>5 DEF Steady, Drained
<1>9. /\ Mark(s) = [root |-> last.root, seq |-> last.seq]
      /\ last.root \in Nat /\ last.seq \in Nat /\ last.root >= Self
      /\ s.parent # NoPeer => last = s.announcements[s.parent] /\ last.root # Self
  <2>1. last \in Stored /\ Mark(s).root >= Self
        /\ (s.parent # NoPeer => last = s.announcements[s.parent] /\ Mark(s).root # Self)
    BY RootIsParents
  <2>2. Mark(s) = [root |-> last.root, seq |-> last.seq]
    BY DEF Mark, MarkOf
  <2> HIDE DEF last
  <2>3. QED
    BY <2>1, <2>2 DEF Stored
<1>10. s.parent # p => Mark(t) = Mark(s)
  <2>1. s.parent # p /\ s.parent # NoPeer =>
          t.announcements[s.parent] = s.announcements[s.parent]
    BY <1>0, <1>4 DEF State
  <2>2. QED
    BY <1>3, <2>1, MarkOfSame
<1>11. a.root \in Nat /\ a.seq \in Nat /\ MarkOf(a) = [root |-> a.root, seq |-> a.seq]
  BY DEF Update, MarkOf
<1>12. SignedByRoot(r)
  <2>1. ASSUME NEW q \in Peer, r.announcements[q] # NoAnn
        PROVE  HasSigned(r.announcements[q], r.announcements[q].root)
    <3>1. r.announcements[q] = IF q = p THEN stored ELSE s.announcements[q]
      BY <1>0, <1>7 DEF State
    <3>2. CASE q = p
      BY <1>2, <3>1, <3>2
    <3>3. CASE q # p
      BY <2>1, <3>1, <3>3 DEF Steady, SignedByRoot
    <3>4. QED
      BY <3>2, <3>3
  <2>2. QED
    BY <2>1 DEF SignedByRoot
<1> HIDE DEF t, w, do, r, last
<1>13. CASE do = "AcceptUpdate"
  <2>1. /\ s.parent = p /\ ~s.waiting
        /\ a.root > last.root \/ (a.root = last.root /\ a.seq > last.seq)
    BY <1>9, <1>11, <1>13 DEF do, last, AnnouncementAction, DetermineAnnouncementAction
  <2>2. r \in State /\ Mark(r) = Mark(t) /\ Tells(r, Mark(t), up)
    BY <1>3, <1>6, <1>8, <1>13, SendTreeAnnouncementsTells
  <2>3. Mark(t) = MarkOf(a)
    BY <1>0, <1>1, <1>3, <1>4, <2>1 DEF Mark, RootAnnouncement
  <2>4. ~Older(Mark(r), Mark(s))
    BY <1>9, <1>11, <2>1, <2>2, <2>3 DEF Older
  <2>5. QED
    BY <1>12, <2>2, <2>4, TellsAnnounces DEF r
<1>14. CASE do = "AcceptNewParent"
  <2> DEFINE u == SetParent(t, p)
  <2>1. a.root > last.root
    BY <1>9, <1>11, <1>14 DEF do, last, AnnouncementAction, DetermineAnnouncementAction
  <2>2. u \in State /\ u.parent = p /\ u.announcements = t.announcements /\ Drained(u)
    BY <1>3, <1>8, SetParentType, SetParentDrained
  <2>3. r = SendTreeAnnouncements(u, up)
    BY <1>6, <1>14
  <2> HIDE DEF u
  <2>4. r \in State /\ Mark(r) = Mark(u) /\ Tells(r, Mark(u), up)
    BY <2>2, <2>3, SendTreeAnnouncementsTells
  <2>5. Mark(u) = MarkOf(a)
    BY <1>0, <1>1, <1>4, <2>2 DEF Mark, RootAnnouncement
  <2>6. ~Older(Mark(r), Mark(s))
    BY <1>9, <1>11, <2>1, <2>4, <2>5 DEF Older
  <2>7. QED
    BY <1>12, <2>4, <2>6, TellsAnnounces DEF r
<1>15. CASE do = "SelectNewParent"
  <2>1. s.parent # p
    BY <1>15 DEF do, AnnouncementAction, DetermineAnnouncementAction
  <2>2. Mark(t) = Mark(s)
    BY <1>10, <2>1
  <2>3. Mark(t).root >= Self /\ (t.parent # NoPeer => Mark(t).root # Self)
    BY <1>3, <1>9, <2>2
  <2>4. LET x == SelectNewParent(t, up) IN Announces(t, x, up) /\ ~Older(Mark(x), Mark(t))
    BY <1>3, <1>8, <2>3, SelectNewParentAnnounces
  <2>5. r = SelectNewParent(t, up)
    BY <1>6, <1>15
  <2>6. QED
    BY <1>12, <2>2, <2>4, <2>5 DEF Announces, r
<1>16. CASE do = "SelectNewParentWithWait"
  <2>1. s.parent # NoPeer
    BY <1>0, <1>16 DEF do, AnnouncementAction, DetermineAnnouncementAction
  <2>2. r = BecomeRoot(w, up)
    BY <1>6, <1>16
  <2>3. /\ r \in State /\ Tells(r, Mark(r), up)
        /\ Mark(r) = [root |-> Self, seq |-> w.sequence + 1]
    BY <1>5, <1>8, <2>1, <2>2, BecomeRootTells
  <2>4. ~Older(Mark(r), Mark(s))
    BY <1>9, <2>1, <2>3 DEF Older
  <2>5. QED
    BY <1>12, <2>3, <2>4, TellsAnnounces DEF r
<1>17. CASE do \in {"InformPeerOfStrongerRoot", "DropFrame", "Saved"}
  <2>1. s.parent # p
    <3>1. ASSUME s.parent = p PROVE FALSE
      <4>1. ~s.waiting
        BY <1>0, <3>1 DEF Sound
      <4>2. do = "DropFrame"
        BY <1>9, <1>11, <1>17, <3>1, <4>1
        DEF do, last, AnnouncementAction, DetermineAnnouncementAction
      <4>3. a.root = last.root /\ a.seq < last.seq
        BY <1>9, <1>11, <3>1, <4>1, <4>2
        DEF do, last, AnnouncementAction, DetermineAnnouncementAction
      <4>4. last = s.announcements[p] /\ s.announcements[p] # NoAnn
        BY <1>0, <1>9, <3>1 DEF Sound
      <4>5. QED
        BY <1>9, <1>11, <4>3, <4>4 DEF Refused
    <3>2. QED
      BY <3>1
  <2>2. r = t \/ r = SendTo(t, RootAnnouncement(s), {p})
    BY <1>6, <1>17
  <2>3. RootAnnouncement(s) \in Stored
    BY <1>0, RootAnnouncementType
  <2>4. CASE r = t
    BY <1>0, <1>3, <1>8, <1>10, <1>12, <2>1, <2>4, SilenceAnnounces, NeverOlderThanItself
    DEF r
  <2>5. CASE r = SendTo(t, RootAnnouncement(s), {p})
    <3>1. r \in State /\ SameBut(t, r) /\ Tells(r, Mark(s), {p})
      BY <1>3, <1>8, <2>3, <2>5, SendToType, SendToTells DEF Mark
    <3>2. Mark(r) = Mark(t)
      BY <3>1, MarkOfSame DEF SameBut
    <3>3. Mark(r) = Mark(s)
      BY <1>10, <2>1, <3>2
    <3>4. Announces(s, r, up)
      BY <3>1, <3>3 DEF Tells, Announces
    <3>5. QED
      BY <1>0, <1>12, <3>3, <3>4, NeverOlderThanItself DEF r
  <2>6. QED
    BY <2>2, <2>4, <2>5
<1>18. do \in {"AcceptUpdate", "AcceptNewParent", "SelectNewParent",
               "SelectNewParentWithWait", "InformPeerOfStrongerRoot", "DropFrame", "Saved"}
  BY <1>9, <1>11 DEF do, last, AnnouncementAction, DetermineAnnouncementAction
<1>19. QED
  BY <1>12, <1>13, <1>14, <1>15, <1>16, <1>17, <1>18 DEF r

----------------------------------------------------------------------------
(* Between two tasks everything that was pushed has been drained, and every *)
(* peer that is up has been told the root and the sequence we go by.        *)
UpKnowRoot == \A p \in Up : told[p] = Mark(node)

ToldIInv == IInv /\ Steady(node) /\ UpKnowRoot

(* The actor's next state has the mark its task ended with.                 *)
LEMMA BecomeMark ==
  ASSUME NEW s \in State, Become(s)
  PROVE  Mark(node') = Mark(s) /\ Drained(node') /\ node'.announcements = s.announcements
<1>1. /\ node'.parent = s.parent /\ node'.announcements = s.announcements
      /\ node'.sequence = s.sequence
      /\ node'.proto = [p \in Peer |-> <<>>]
  BY DEF Become, State
<1>2. Drained(node')
  BY <1>1 DEF Drained
<1>3. Mark(node') = Mark(s)
  BY <1>1 DEF Mark, MarkOf, RootAnnouncement, SelfAnnouncement
<1>4. QED
  BY <1>1, <1>2, <1>3

LEMMA BecomeTells ==
  ASSUME ToldIInv, NEW r, Announces(node, r, Up), Become(r), NEW p \in Peer,
         p \in Up \/ r.proto[p] # <<>>
  PROVE  told'[p] = Mark(node')
<1>1. r \in State
  BY DEF Announces
<1>2. Mark(node') = Mark(r)
  BY <1>1, BecomeMark
<1>3. CASE r.proto[p] = <<>>
  <2>1. told'[p] = told[p]
    BY <1>3 DEF Become
  <2>2. told[p] = Mark(node) /\ Mark(r) = Mark(node)
    BY <1>3 DEF ToldIInv, UpKnowRoot, Announces
  <2>3. QED
    BY <1>2, <2>1, <2>2
<1>4. CASE r.proto[p] # <<>>
  <2>1. told'[p] = LastMark(r, p)
    BY <1>4 DEF Become, LastMark, MarkOf
  <2>2. QED
    BY <1>2, <1>4, <2>1 DEF Announces
<1>5. QED
  BY <1>3, <1>4

(* What every step does: the peers that are up afterwards, and those that   *)
(* were before, have been told the mark it ends with, and that is an older  *)
(* one of the same root on the clean-up of the parent only.                 *)
StepTells ==
  /\ Drained(node') /\ SignedByRoot(node')
  /\ \A p \in Up \cup Up' : told'[p] = Mark(node')
  /\ \/ ~Older(Mark(node'), Mark(node))
     \/ Up = {}
     \/ Running("cleanup") /\ Head(inbox).peer = node.parent

LEMMA AnnouncedStep ==
  ASSUME ToldIInv, NEW r, Announces(node, r, Up), Become(r), SignedByRoot(r), Up' \subseteq Up,
         \/ ~Older(Mark(r), Mark(node))
         \/ Up = {}
         \/ Running("cleanup") /\ Head(inbox).peer = node.parent
  PROVE  StepTells
<1>1. r \in State
  BY DEF Announces
<1>2. Mark(node') = Mark(r) /\ Drained(node') /\ node'.announcements = r.announcements
  BY <1>1, BecomeMark
<1>3. SignedByRoot(node')
  BY <1>2 DEF SignedByRoot
<1>4. \A p \in Up : told'[p] = Mark(node')
  BY BecomeTells DEF Up
<1>5. QED
  BY <1>2, <1>3, <1>4 DEF StepTells

LEMMA SilentStep ==
  ASSUME ToldIInv, Mark(node') = Mark(node), node'.proto = node.proto,
         SignedByRoot(node'), told' = told, Up' \subseteq Up
  PROVE  StepTells
<1>1. node \in State
  BY DEF ToldIInv, Steady, Sound
<1>2. Drained(node')
  BY DEF ToldIInv, Steady, Drained
<1>3. ~Older(Mark(node'), Mark(node))
  BY <1>1, NeverOlderThanItself
<1>4. \A p \in Up : told'[p] = Mark(node')
  BY DEF ToldIInv, UpKnowRoot
<1>5. QED
  BY <1>2, <1>3, <1>4 DEF StepTells

(* A task leaves the signatures of the entries it keeps alone.              *)
LEMMA FewerSigned ==
  ASSUME NEW s, SignedByRoot(s), NEW t,
         \A p \in Peer : t.announcements[p] # NoAnn =>
           /\ s.announcements[p] # NoAnn
           /\ t.announcements[p].sigs = s.announcements[p].sigs
           /\ t.announcements[p].root = s.announcements[p].root
  PROVE  SignedByRoot(t)
BY DEF SignedByRoot, HasSigned, Elements

LEMMA NextTells == ASSUME ToldIInv, [Next]_vars PROVE StepTells
<1>1. /\ node \in State /\ Up \in SUBSET Peer /\ Sound(node) /\ Drained(node)
      /\ SignedByRoot(node) /\ Steady(node) /\ IInv /\ TypeOK
  BY DEF ToldIInv, Steady, Sound, Up, IInv
<1>2. ASSUME HandleUpdate PROVE StepTells
  <2> DEFINE p == Head(inbox).peer
             a == Head(inbox).ann
             r == HandleTreeAnnouncement(node, p, a, Up)
  <2>1. p \in Peer /\ a \in Update
    BY <1>1, <1>2, HeadTask DEF HandleUpdate
  <2>2. ~Refused(node, p, a) /\ Become(r) /\ Up' = Up
    BY <1>2 DEF HandleUpdate, Up
  <2> HIDE DEF p, a
  <2>3. Announces(node, r, Up) /\ ~Older(Mark(r), Mark(node)) /\ SignedByRoot(r)
    BY <1>1, <2>1, <2>2, HandleTreeAnnouncementAnnounces
  <2> HIDE DEF r
  <2>4. QED
    BY <2>2, <2>3, AnnouncedStep
<1>3. ASSUME HandleCleanup PROVE StepTells
  <2> DEFINE p == Head(inbox).peer
             r == PortDisconnected(node, p, Up)
  <2>1. p \in Peer /\ Running("cleanup")
    BY <1>1, <1>3, HeadTask DEF HandleCleanup
  <2>2. Become(r) /\ life' = [life EXCEPT ![p] = "gone"]
    BY <1>3 DEF HandleCleanup
  <2>3. Up' \subseteq Up
    BY <1>1, <2>1, <2>2 DEF Up, TypeOK
  <2>4. p = node.parent <=> Head(inbox).peer = node.parent
    OBVIOUS
  <2> HIDE DEF p
  <2>5. Announces(node, r, Up) /\ (Up # {} /\ node.parent # p => Mark(r) = Mark(node))
    BY <1>1, <2>1, PortDisconnectedAnnounces
  <2>6. SignedByRoot(r)
    <3>1. \A q \in Peer : r.announcements[q] # NoAnn => r.announcements[q] = node.announcements[q]
      <4>1. \/ \A q \in Peer : r.announcements[q] = NoAnn
            \/ r.announcements = [node.announcements EXCEPT ![p] = NoAnn]
        BY <1>1, <2>1, PortDisconnectedTable
      <4> HIDE DEF r
      <4>2. QED
        BY <1>1, <4>1 DEF State
    <3> HIDE DEF r
    <3>2. QED
      BY <1>1, <3>1, FewerSigned
  <2> HIDE DEF r
  <2>7. \/ ~Older(Mark(r), Mark(node))
        \/ Up = {}
        \/ Running("cleanup") /\ Head(inbox).peer = node.parent
    BY <1>1, <2>1, <2>4, <2>5, NeverOlderThanItself
  <2>8. QED
    BY <2>2, <2>3, <2>5, <2>6, <2>7, AnnouncedStep
<1>4. ASSUME HandleEndOfWait PROVE StepTells
  <2> DEFINE r == EndWait(node, Up)
  <2>1. Become(r) /\ Up' = Up
    BY <1>4 DEF HandleEndOfWait, Up
  <2>2. Announces(node, r, Up) /\ ~Older(Mark(r), Mark(node))
    BY <1>1, EndWaitAnnounces
  <2>3. r.announcements = node.announcements
    BY <1>1, EndWaitTable
  <2> HIDE DEF r
  <2>4. SignedByRoot(r)
    BY <1>1, <2>3 DEF SignedByRoot
  <2>5. QED
    BY <2>1, <2>2, <2>4, AnnouncedStep
<1>5. ASSUME HandleMaintain PROVE StepTells
  <2> DEFINE r == MaintainTree(node, Up)
  <2>1. Become(r) /\ Up' = Up
    BY <1>5 DEF HandleMaintain, Up
  <2>2. r.announcements = node.announcements /\ r \in State
    BY <1>1, MaintainTreeType
  <2>3. Announces(node, r, Up) /\ ~Older(Mark(r), Mark(node))
    <3>1. CASE node.parent = NoPeer
      <4>1. Tells(r, Mark(r), Up) /\ Mark(r) = [root |-> Self, seq |-> node.sequence + 1]
        BY <1>1, <3>1, MaintainTreeTells
      <4> HIDE DEF r
      <4>2. Mark(node) = [root |-> Self, seq |-> node.sequence] /\ node.sequence \in Nat
        BY <1>1, <3>1 DEF Mark, MarkOf, RootAnnouncement, SelfAnnouncement, State
      <4>3. ~Older(Mark(r), Mark(node))
        BY <4>1, <4>2 DEF Older
      <4>4. QED
        BY <1>1, <2>2, <4>1, <4>3, TellsAnnounces
    <3>2. CASE node.parent # NoPeer
      <4>1. r = node
        BY <3>2 DEF MaintainTree
      <4>2. QED
        BY <1>1, <4>1, SilenceAnnounces, NeverOlderThanItself
    <3>3. QED
      BY <3>1, <3>2
  <2> HIDE DEF r
  <2>4. SignedByRoot(r)
    BY <1>1, <2>2 DEF SignedByRoot
  <2>5. QED
    BY <2>1, <2>3, <2>4, AnnouncedStep
<1>6. ASSUME NEW p \in Peer, AddPeer(p) PROVE StepTells
  <2> DEFINE r == SendTo(node, RootAnnouncement(node), {p})
  <2>1. Become(r) /\ Up' = Up \cup {p}
    BY <1>1, <1>6 DEF AddPeer, Up, TypeOK
  <2>2. r \in State /\ SameBut(node, r) /\ Tells(r, Mark(node), {p})
    BY <1>1, RootAnnouncementType, SendToType, SendToTells DEF Mark
  <2> HIDE DEF r
  <2>3. Mark(r) = Mark(node)
    BY <2>2, MarkOfSame DEF SameBut
  <2>4. Announces(node, r, Up)
    BY <2>2, <2>3 DEF Tells, Announces
  <2>5. r.proto[p] # <<>>
    BY <2>2 DEF Tells
  <2>6. \A q \in Up \cup Up' : told'[q] = Mark(node')
    BY <1>1, <2>1, <2>4, <2>5, BecomeTells
  <2>7. Mark(node') = Mark(node) /\ Drained(node') /\ node'.announcements = node.announcements
    BY <2>1, <2>2, <2>3, BecomeMark DEF SameBut
  <2>8. SignedByRoot(node') /\ ~Older(Mark(node'), Mark(node))
    BY <1>1, <2>7, NeverOlderThanItself DEF SignedByRoot
  <2>9. QED
    BY <2>6, <2>7, <2>8 DEF StepTells
<1>7. ASSUME NEW p \in Peer, Expire(p) PROVE StepTells
  <2> DEFINE e == [node.announcements[p] EXCEPT !.expired = TRUE]
  <2>1. /\ e \in Stored /\ e.root = node.announcements[p].root
        /\ e.seq = node.announcements[p].seq /\ e.sigs = node.announcements[p].sigs
    BY <1>1, <1>7 DEF Expire, State, Stored
  <2>2. e # NoAnn /\ node.announcements[p] # NoAnn
    BY <1>7, <2>1, NodeAssumption DEF Expire
  <2>3. node' = [node EXCEPT !.announcements = [node.announcements EXCEPT ![p] = e]]
    BY <1>1, <1>7 DEF Expire, State
  <2> HIDE DEF e
  <2>4. /\ node'.parent = node.parent /\ node'.sequence = node.sequence
        /\ node'.announcements = [node.announcements EXCEPT ![p] = e]
        /\ node'.proto = node.proto
    BY <1>1, <2>3 DEF State
  <2>5. \A q \in Peer :
          node'.announcements[q] = IF q = p THEN e ELSE node.announcements[q]
    BY <1>1, <2>4 DEF State
  <2>6. SignedByRoot(node')
    BY <1>1, <2>1, <2>2, <2>5, FewerSigned
  <2>7. Mark(node') = Mark(node)
    <3>1. CASE node.parent = p
      <4>1. node.parent # NoPeer
        BY <3>1, NodeAssumption
      <4>2. RootAnnouncement(node) = node.announcements[p] /\ RootAnnouncement(node') = e
        BY <2>2, <2>4, <2>5, <3>1, <4>1 DEF RootAnnouncement
      <4>3. QED
        BY <2>1, <4>2 DEF Mark, MarkOf
    <3>2. CASE node.parent # p
      <4>1. node.parent # NoPeer =>
              node'.announcements[node.parent] = node.announcements[node.parent]
        BY <1>1, <2>5, <3>2 DEF State
      <4>2. QED
        BY <2>4, <4>1, MarkOfSame
    <3>3. QED
      BY <3>1, <3>2
  <2>8. told' = told /\ Up' = Up
    BY <1>7 DEF Expire, Up
  <2>9. QED
    BY <2>4, <2>6, <2>7, <2>8, SilentStep
<1>8. ASSUME NEW k \in Remote, LearnCoords(k) \/ CleanCachedCoords(k) PROVE StepTells
  <2>1. /\ node'.parent = node.parent /\ node'.announcements = node.announcements
        /\ node'.sequence = node.sequence /\ node'.proto = node.proto
    BY <1>1, <1>8 DEF LearnCoords, CleanCachedCoords, State
  <2>2. Mark(node') = Mark(node) /\ SignedByRoot(node')
    BY <1>1, <2>1, MarkOfSame DEF SignedByRoot
  <2>3. told' = told /\ Up' = Up
    BY <1>8 DEF LearnCoords, CleanCachedCoords, Up
  <2>4. QED
    BY <2>1, <2>2, <2>3, SilentStep
<1>9. ASSUME node' = node, told' = told, Up' \subseteq Up PROVE StepTells
  BY <1>1, <1>9, SilentStep
<1>10. ASSUME RefuseUpdate PROVE StepTells
  <2> DEFINE p == Head(inbox).peer
  <2>1. p \in Peer
    BY <1>1, <1>10, HeadTask DEF RefuseUpdate
  <2>2. life' = life \/ life' = [life EXCEPT ![p] = "stopped"]
    BY <1>10 DEF RefuseUpdate
  <2> HIDE DEF p
  <2>3. Up' \subseteq Up
    BY <1>1, <2>1, <2>2 DEF Up, TypeOK
  <2>4. QED
    BY <1>9, <1>10, <2>3 DEF RefuseUpdate
<1>11. ASSUME NEW p \in Peer, Stop(p) PROVE StepTells
  <2>1. Up' \subseteq Up
    BY <1>1, <1>11 DEF Stop, Up, TypeOK
  <2>2. QED
    BY <1>9, <1>11, <2>1 DEF Stop
<1>12. ASSUME \/ FireWaitTimer
              \/ FireTreeTimer
              \/ \E p \in Peer : ReadFrame(p) \/ Dispatch(p)
              \/ UNCHANGED vars
       PROVE  StepTells
  <2>1. node' = node /\ told' = told /\ life' = life
    BY <1>12 DEF FireWaitTimer, FireTreeTimer, ReadFrame, Dispatch, vars
  <2>2. QED
    BY <1>9, <2>1 DEF Up
<1>13. QED
  BY <1>2, <1>3, <1>4, <1>5, <1>6, <1>7, <1>8, <1>10, <1>11, <1>12 DEF Next, HandleTask

LEMMA ToldInvariance == Spec => []ToldIInv
<1>1. Init => ToldIInv
  <2> SUFFICES ASSUME Init PROVE ToldIInv
    OBVIOUS
  <2>1. IInv
    BY InitIInv
  <2>2. Drained(node) /\ SignedByRoot(node)
    BY DEF Init, InitialState, Drained, SignedByRoot
  <2>3. Up = {}
    BY DEF Init, Up
  <2>4. QED
    BY <2>1, <2>2, <2>3 DEF ToldIInv, IInv, Steady, UpKnowRoot
<1>2. ToldIInv /\ [Next]_vars => ToldIInv'
  <2> SUFFICES ASSUME ToldIInv, [Next]_vars PROVE ToldIInv'
    OBVIOUS
  <2>1. IInv'
    BY NextIInv DEF ToldIInv
  <2>2. StepTells
    BY NextTells
  <2>3. QED
    BY <2>1, <2>2 DEF ToldIInv, IInv, Steady, UpKnowRoot, StepTells
<1>3. QED
  BY <1>1, <1>2, PTL DEF Spec

(* Whatever order stops, frames and timers come in, every peer that is up   *)
(* was last told the very root and sequence number that we go by now: no    *)
(* path through the state actor changes our announcement and forgets to     *)
(* send it, not even one that leaves it to a later task.                    *)
THEOREM UpPeersKnowOurRoot == Spec => []UpKnowRoot
<1>1. ToldIInv => UpKnowRoot
  BY DEF ToldIInv
<1>2. QED
  BY <1>1, ToldInvariance, PTL

(* A replayed sequence number, on which the neighbour would drop the        *)
(* peering, is sent to a peer that is up by the clean-up of the parent and  *)
(* by nothing else: no update, refused or not, no timer, no new peering.    *)
THEOREM OlderOnlyAfterParent == Spec => TellsOlderOnlyAfterLosingParent
<1> DEFINE A == \A p \in Up : Older(told'[p], told[p]) =>
                  Running("cleanup") /\ Head(inbox).peer = node.parent
<1>1. ToldIInv /\ [Next]_vars => [A]_vars
  <2> SUFFICES ASSUME ToldIInv, [Next]_vars, NEW p \in Up, Older(told'[p], told[p])
               PROVE  Running("cleanup") /\ Head(inbox).peer = node.parent
    OBVIOUS
  <2>1. StepTells
    BY NextTells
  <2>2. told[p] = Mark(node) /\ told'[p] = Mark(node')
    BY <2>1 DEF ToldIInv, UpKnowRoot, StepTells
  <2>3. QED
    BY <2>1, <2>2 DEF StepTells
<1>2. TellsOlderOnlyAfterLosingParent <=> [][A]_vars
  BY DEF TellsOlderOnlyAfterLosingParent
<1>3. QED
  BY <1>1, <1>2, ToldInvariance, PTL DEF Spec
=============================================================================
