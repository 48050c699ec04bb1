------------------------------ MODULE MCFriends ------------------------------
(* One user with one friend and one more name to add.                       *)
EXTENDS Friends
=============================================================================
