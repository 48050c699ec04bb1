-------------------------- MODULE UserConfirmation --------------------------
(***************************************************************************)
(* The question a receiver asks its user before a file is sent to it       *)
(* (internal/network/user_confirmation_handler.go).                        *)
(*                                                                         *)
(* Three goroutines share a request: the one that asked, which waits for   *)
(* an answer or a timeout and then closes the request's channels; the one  *)
(* that runs the user's callback; and a timer that nobody stops.  The last *)
(* two look the request up under the mutex and send on its channel after   *)
(* they have released it, so the channel may have been closed meanwhile.   *)
(* Sending on a closed channel panics, and only the callback's goroutine   *)
(* recovers.                                                               *)
(***************************************************************************)

VARIABLE confirm  \* one request: its channels, its goroutines and its result

Answers == {"accept", "refuse"}

ConfirmInit ==
  confirm = [request |-> "none",    \* "none", "open", "closed"
             response |-> "none",   \* what ResponseCh holds
             timeout |-> FALSE,     \* whether TimeoutCh holds a value
             user |-> "idle",       \* "idle", "asked", "answered", "found", "done"
             answer |-> "none",     \* what the callback returned
             timer |-> "idle",      \* "idle", "armed", "found", "done", "panicked"
             result |-> "none"]     \* what RequestUserConfirmation returned

Open == confirm.request = "open"

(* A request that is cleaned up leaves the table with its channels closed.  *)
Return(r) == confirm' = [confirm EXCEPT !.request = "closed", !.result = r]

RequestUserConfirmation ==
  /\ confirm.request = "none"
  /\ confirm' = [confirm EXCEPT !.request = "open", !.user = "asked", !.timer = "armed"]

(* The callback returns.  A user may take any time, or never answer.        *)
OnFileTransferRequest(a) ==
  /\ confirm.user = "asked"
  /\ confirm' = [confirm EXCEPT !.user = "answered", !.answer = a]

FindForResponse ==
  /\ confirm.user = "answered"
  /\ confirm' = [confirm EXCEPT !.user = IF Open THEN "found" ELSE "done"]

(* If the channel is closed by now the goroutine panics, recovers, and has  *)
(* nothing to answer any more.                                              *)
SendResponse ==
  /\ confirm.user = "found"
  /\ confirm' = [confirm EXCEPT !.user = "done",
                                !.response = IF Open THEN confirm.answer ELSE @]

TimerFires ==
  /\ confirm.timer = "armed"
  /\ confirm' = [confirm EXCEPT !.timer = IF Open THEN "found" ELSE "done"]

(* Mutant: the tick is lost when the timer finds the request.               *)
SendTickNever ==
  /\ confirm.timer = "found"
  /\ confirm' = [confirm EXCEPT !.timer = "done"]

SendTick ==
  /\ confirm.timer = "found"
  /\ confirm' = IF Open THEN [confirm EXCEPT !.timer = "done", !.timeout = TRUE]
                        ELSE [confirm EXCEPT !.timer = "panicked"]

TakeResponse ==
  /\ Open /\ confirm.response # "none"
  /\ Return(confirm.response)

TakeTick ==
  /\ Open /\ confirm.timeout
  /\ Return("refuse")

(* The steps that nobody but the runtime has to make.                       *)
ConfirmStep ==
  \/ FindForResponse \/ SendResponse
  \/ TimerFires \/ SendTick
  \/ TakeResponse \/ TakeTick

ConfirmType ==
  [request : {"none", "open", "closed"},
   response : Answers \cup {"none"},
   timeout : BOOLEAN,
   user : {"idle", "asked", "answered", "found", "done"},
   answer : Answers \cup {"none"},
   timer : {"idle", "armed", "found", "done", "panicked"},
   result : Answers \cup {"none"}]
=============================================================================
