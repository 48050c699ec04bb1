------------------------------- MODULE Friends -------------------------------
(***************************************************************************)
(* The friend list and the commands that change it.  One console goroutine *)
(* runs the commands one after the other; the list is guarded by a         *)
(* read-write lock that its holder cannot take a second time.              *)
(***************************************************************************)
EXTENDS FiniteSets

CONSTANTS Name,  \* what `friend add` and `friend delete` are given
          Known  \* the names friends.json holds from the start

VARIABLES friends,  \* List.friends, by name
          file,     \* friends/friends.json
          locked,   \* the writer's half of List.mutex
          console   \* idle, or saving: in saveFriends, called by a command

friendsVars == <<friends, file, locked, console>>

(* NewList: what the file holds *)
FriendsInit == friends = Known /\ file = Known /\ locked = FALSE /\ console = "idle"

Lock == ~locked /\ locked' = TRUE
RLock == ~locked

(* the name is known: an error, and the lock is released *)
AddKnown(n) ==
  /\ console = "idle" /\ RLock /\ n \in friends
  /\ UNCHANGED friendsVars

(* a new name; saveFriends is called with the lock held *)
AddFriend(n) ==
  /\ console = "idle" /\ n \notin friends
  /\ Lock
  /\ friends' = friends \cup {n}
  /\ console' = "saving"
  /\ UNCHANGED file

RemoveUnknown(n) ==
  /\ console = "idle" /\ RLock /\ n \notin friends
  /\ UNCHANGED friendsVars

RemoveFriend(n) ==
  /\ console = "idle" /\ n \in friends
  /\ Lock
  /\ friends' = friends \ {n}
  /\ console' = "saving"
  /\ UNCHANGED file

(* `friend list`, `friend search` and the status commands only read *)
ListFriends == console = "idle" /\ RLock /\ UNCHANGED friendsVars

(* GetAllFriends takes the lock for reading; then the file is written, and
   the command's deferred Unlock runs *)
SaveFriends ==
  /\ console = "saving" /\ RLock
  /\ file' = friends /\ locked' = FALSE /\ console' = "idle"
  /\ UNCHANGED friends

(* the user ends the program, and starts it again *)
Restart ==
  /\ friends' = file /\ locked' = FALSE /\ console' = "idle"
  /\ UNCHANGED file

FriendsNext ==
  \/ \E n \in Name : AddKnown(n) \/ AddFriend(n) \/ RemoveUnknown(n) \/ RemoveFriend(n)
  \/ ListFriends \/ SaveFriends \/ Restart

(* a goroutine that can take its next step takes it *)
FairFriends == FriendsInit /\ [][FriendsNext]_friendsVars /\ WF_friendsVars(SaveFriends)

-----------------------------------------------------------------------------
(* A command that adds a friend or deletes one comes back, and the console
   takes the next command (AddFriend, RemoveFriend, saveFriends). *)
CommandReturns == console = "saving" ~> console = "idle"
=============================================================================
