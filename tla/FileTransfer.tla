---------------------------- MODULE FileTransfer ----------------------------
(***************************************************************************)
(* One file sent from a node to another (internal/network/                 *)
(* file_transfer_service.go, transfer_state_manager.go, the sessions of    *)
(* internal/file/session.go and the registered message handlers).          *)
(*                                                                         *)
(* The sender asks, and a goroutine waits for the answer, a cancellation   *)
(* or a timeout before it sends the chunks.  Messages are sent without     *)
(* retransmission; the worker pool of the receiving node drops them when   *)
(* it is full and handles them in any order.                               *)
(***************************************************************************)
EXTENDS Integers, FiniteSets, UserConfirmation

CONSTANTS
  ChunkCount,  \* how many chunks the file has
  RetryCount   \* config.RetryCount: how often a failed transfer is retried

ASSUME TransferAssumption ==
  /\ ChunkCount \in Nat \ {0}
  /\ RetryCount \in Nat

VARIABLES
  sender,    \* pc of the goroutine that waits and sends, and its next chunk
  session,   \* the sender's session: status, accepted, and its two channels
  transfer,  \* the sender's entry of the state manager: state and retries
  net,       \* the messages on their way
  receiver   \* pc of the goroutine that asks the user, pendingTransfers, the
             \* session, the state manager's entry, the chunks that workers
             \* hold, with a session they found, and the chunks stored

vars == <<sender, session, transfer, net, receiver, confirm>>
sending == <<sender, session, transfer>>
receiving == <<receiver, confirm>>

Indices == 0..ChunkCount-1

Message(type, index) == [type |-> type, index |-> index]
Request == Message("file_request", -1)
Accepted == Message("file_ack", -1)
Refusal == Message("file_nack", -1)
Chunk(i) == Message("file_chunk", i)
ChunkAck(i) == Message("file_ack", i)
Complete == Message("file_complete", -1)
Messages == [type : {"file_request", "file_ack", "file_nack", "file_chunk", "file_complete"},
             index : Indices \cup {-1}]

Init ==
  /\ sender = [pc |-> "idle", next |-> 0]
  /\ session = [status |-> "none", accepted |-> FALSE,
                confirmation |-> FALSE, cancel |-> FALSE]
  /\ transfer = [state |-> "none", retries |-> 0]
  /\ net = {}
  /\ receiver = [pc |-> "idle", pending |-> FALSE, session |-> "none",
                 state |-> "none", held |-> {}, chunks |-> {}]
  /\ ConfirmInit

----------------------------------------------------------------------------
(* The state manager.  Mutant: a failed transfer may go on.                 *)
ValidTransitionsForRetry ==
  [idle         |-> {"pending", "failed", "canceled"},
   pending      |-> {"confirmed", "rejected", "transferring", "failed", "canceled"},
   transferring |-> {"completed", "failed", "canceled"},
   failed       |-> {"idle", "transferring", "canceled"},
   canceled     |-> {"idle"}]

ValidTransitions ==
  [idle         |-> {"waiting", "pending", "failed", "canceled"},
   waiting      |-> {"confirmed", "rejected", "failed", "canceled"},
   pending      |-> {"confirmed", "rejected", "transferring", "failed", "canceled"},
   confirmed    |-> {"transferring", "failed", "canceled"},
   rejected     |-> {"idle", "failed", "canceled"},
   transferring |-> {"completed", "failed", "canceled"},
   completed    |-> {"idle"},
   failed       |-> {"idle", "canceled"},
   canceled     |-> {"idle"}]

(* The state after SetTransferState, whose error all its callers ignore.    *)
(* "none" is a transfer that the manager does not know.                     *)
SetState(from, to) ==
  IF from \in DOMAIN ValidTransitions /\ to \in ValidTransitions[from] THEN to ELSE from

SetTransferState(to) == transfer' = [transfer EXCEPT !.state = SetState(@, to)]

----------------------------------------------------------------------------
(* The sender.                                                              *)
At(pc) == sender.pc = pc
GoTo(pc) == sender' = [sender EXCEPT !.pc = pc]
SetStatus(s) == session' = [session EXCEPT !.status = s]

(* The file cannot be read, or it can but the address is malformed, or the  *)
(* request is sent.                                                         *)
SendFile ==
  /\ At("idle")
  /\ \/ /\ GoTo("done") /\ SetStatus("failed")
        /\ UNCHANGED <<transfer, net>>
     \/ /\ GoTo("done") /\ SetStatus("failed")
        /\ transfer' = [transfer EXCEPT !.state = SetState(SetState("idle", "pending"), "failed")]
        /\ UNCHANGED net
     \/ /\ GoTo("waiting") /\ SetStatus("starting")
        /\ transfer' = [transfer EXCEPT !.state = SetState("idle", "pending")]
        /\ net' = net \cup {Request}
  /\ UNCHANGED receiving

(* Mutant: the timeout starts to run when the request is acknowledged.      *)
WaitTimesOutOnceAccepted ==
  /\ At("waiting") /\ session.accepted
  /\ GoTo("decided")
  /\ SetTransferState("failed")
  /\ SetStatus("failed")
  /\ UNCHANGED <<net, receiving>>

(* The three cases of the select of waitForConfirmation.                    *)
WaitTimesOut ==
  /\ At("waiting")
  /\ GoTo("decided")
  /\ SetTransferState("failed")
  /\ SetStatus("failed")
  /\ UNCHANGED <<net, receiving>>

WaitConfirmed ==
  /\ At("waiting") /\ session.confirmation
  /\ GoTo("decided")
  /\ SetTransferState(IF session.accepted THEN "transferring" ELSE "rejected")
  /\ session' = [session EXCEPT !.confirmation = FALSE,
                                !.status = IF session.accepted THEN @ ELSE "failed"]
  /\ UNCHANGED <<net, receiving>>

WaitCancelled ==
  /\ At("waiting") /\ session.cancel
  /\ GoTo("decided")
  /\ SetTransferState("canceled")
  /\ session' = [session EXCEPT !.cancel = FALSE, !.status = "canceled"]
  /\ UNCHANGED <<net, receiving>>

(* Mutant: the chunks follow whatever ended the wait.                       *)
DecideToSend ==
  /\ At("decided")
  /\ GoTo("sending") /\ SetStatus("running")
  /\ UNCHANGED <<transfer, net, receiving>>

(* Whatever ended the wait, the session may have been accepted by now.      *)
Decide ==
  /\ At("decided")
  /\ IF session.accepted THEN GoTo("sending") /\ SetStatus("running")
                         ELSE GoTo("done") /\ UNCHANGED session
  /\ UNCHANGED <<transfer, net, receiving>>

(* Mutant: one chunk too many.                                              *)
SendChunkPastTheEnd ==
  /\ At("sending") /\ sender.next <= ChunkCount
  /\ sender' = [sender EXCEPT !.next = @ + 1]
  /\ net' = net \cup {Chunk(sender.next)}
  /\ UNCHANGED <<session, transfer, receiving>>

SendChunk ==
  /\ At("sending") /\ sender.next < ChunkCount
  /\ sender' = [sender EXCEPT !.next = @ + 1]
  /\ net' = net \cup {Chunk(sender.next)}
  /\ UNCHANGED <<session, transfer, receiving>>

(* Mutant: the end is sent one chunk too early.                             *)
SendCompleteEarly ==
  /\ At("sending") /\ sender.next = ChunkCount - 1
  /\ GoTo("done")
  /\ SetStatus("complete")
  /\ net' = net \cup {Complete}
  /\ UNCHANGED <<transfer, receiving>>

SendComplete ==
  /\ At("sending") /\ sender.next = ChunkCount
  /\ GoTo("done")
  /\ SetStatus("complete")
  /\ net' = net \cup {Complete}
  /\ UNCHANGED <<transfer, receiving>>

(* HandleFileAck of the request and of a chunk, which changes nothing; the  *)
(* adapter makes a success of a failed chunk as well.                       *)
HandleFileAck ==
  \/ /\ Accepted \in net
     /\ net' = net \ {Accepted}
     /\ session' = [session EXCEPT !.status = "accepted", !.accepted = TRUE,
                                   !.confirmation = TRUE]
     /\ SetTransferState("transferring")
     /\ UNCHANGED <<sender, receiving>>
  \/ \E i \in Indices :
     /\ ChunkAck(i) \in net
     /\ net' = net \ {ChunkAck(i)}
     /\ UNCHANGED <<sending, receiving>>

(* The handler registered for a refusal only logs it.                       *)
HandleFileNack ==
  /\ Refusal \in net
  /\ net' = net \ {Refusal}
  /\ UNCHANGED <<sending, receiving>>

(* CancelTransfer; only a receiver has a pending transfer that would make   *)
(* it tell the other side.                                                  *)
CancelTransfer ==
  /\ session.status # "none"
  /\ SetTransferState("canceled")
  /\ session' = [session EXCEPT !.status = "canceled", !.cancel = TRUE]
  /\ UNCHANGED <<sender, net, receiving>>

(* What the integrator calls cancelling, pausing and resuming: the status   *)
(* of the session, at which no step looks.                                  *)
Marks == {"canceled", "paused", "running"}

MarkSession ==
  /\ session.status # "none"
  /\ \E s \in Marks : SetStatus(s)
  /\ UNCHANGED <<sender, transfer, net, receiving>>

(* The monitor.  An entry names no sender, so each failed transfer is       *)
(* retried as if it were being received: the session is reset.              *)
RetryFailedTransfer ==
  /\ transfer.state = "failed" /\ transfer.retries < RetryCount
  /\ transfer' = [state |-> SetState("failed", IF session.status = "none" THEN "failed"
                                                                          ELSE "transferring"),
                  retries |-> transfer.retries + 1]
  /\ SetStatus(IF session.status = "none" THEN "none" ELSE "idle")
  /\ UNCHANGED <<sender, net, receiving>>

----------------------------------------------------------------------------
(* The receiver, unless its process has died of the timer's panic.          *)
Alive == confirm.timer # "panicked"
ReceiverAt(pc) == Alive /\ receiver.pc = pc

HandleFileRequest ==
  /\ ReceiverAt("idle") /\ Request \in net
  /\ net' = net \ {Request}
  /\ receiver' = [receiver EXCEPT !.pc = "asking", !.pending = TRUE]
  /\ UNCHANGED <<sending, confirm>>

(* The goroutine asks the user, or refuses since no callback is set.        *)
AskUser ==
  /\ ReceiverAt("asking")
  /\ receiver' = [receiver EXCEPT !.pc = "waiting"]
  /\ RequestUserConfirmation
  /\ UNCHANGED <<sending, net>>

NoCallback ==
  /\ ReceiverAt("asking")
  /\ receiver' = [receiver EXCEPT !.pc = "answered"]
  /\ net' = net \cup {Refusal}
  /\ UNCHANGED <<sending, confirm>>

Confirm ==
  /\ Alive
  /\ ConfirmStep \/ \E a \in Answers : OnFileTransferRequest(a)
  /\ UNCHANGED <<sending, net, receiver>>

Accept ==
  /\ ReceiverAt("waiting") /\ confirm.result = "accept"
  /\ receiver' = [receiver EXCEPT !.pc = "accepting", !.session = "starting",
                                  !.state = SetState("idle", "confirmed")]
  /\ UNCHANGED <<sending, net, confirm>>

SendAccepted ==
  /\ ReceiverAt("accepting")
  /\ receiver' = [receiver EXCEPT !.pc = "answered"]
  /\ net' = net \cup {Accepted}
  /\ UNCHANGED <<sending, confirm>>

Refuse ==
  /\ ReceiverAt("waiting") /\ confirm.result = "refuse"
  /\ receiver' = [receiver EXCEPT !.pc = "answered"]
  /\ net' = net \cup {Refusal}
  /\ UNCHANGED <<sending, confirm>>

RemovePendingTransfer ==
  /\ ReceiverAt("answered")
  /\ receiver' = [receiver EXCEPT !.pc = "done", !.pending = FALSE]
  /\ UNCHANGED <<sending, net, confirm>>

HasSession == receiver.session \notin {"none", "removed"}

(* HandleFileChunk, on one of the workers: a chunk that finds no session is *)
(* dropped, ...                                                             *)
LookUpSession(i) ==
  /\ Alive /\ Chunk(i) \in net
  /\ net' = net \ {Chunk(i)}
  /\ receiver' = IF HasSession THEN [receiver EXCEPT !.session = "running", !.held = @ \cup {i}]
                               ELSE receiver
  /\ UNCHANGED <<sending, confirm>>

(* What becomes of the session that a worker has found, which others may    *)
(* have removed since.                                                      *)
FoundSession(status) == IF HasSession THEN status ELSE receiver.session

(* ... and one that did is verified, stored and acknowledged later, when    *)
(* the session may be gone.  Without its file it is not acknowledged.       *)
StoreChunk(i) ==
  /\ Alive /\ i \in receiver.held
  /\ \/ /\ receiver' = [receiver EXCEPT !.held = @ \ {i}, !.chunks = @ \cup {i}]
        /\ net' = net \cup {ChunkAck(i)}
     \/ /\ receiver' = [receiver EXCEPT !.held = @ \ {i}, !.session = FoundSession("failed")]
        /\ net' \in {net, net \cup {ChunkAck(i)}}
  /\ UNCHANGED <<sending, confirm>>

(* The session is completed and removed, whatever has arrived.              *)
HandleFileComplete ==
  /\ Alive /\ Complete \in net
  /\ net' = net \ {Complete}
  /\ receiver' = [receiver EXCEPT !.session = IF HasSession THEN "removed" ELSE @]
  /\ UNCHANGED <<sending, confirm>>

(* CancelTransfer of a receiver.  The message it may send names the         *)
(* receiver itself, and no handler is registered for it.                    *)
CancelReception ==
  /\ Alive /\ HasSession
  /\ receiver' = [receiver EXCEPT !.session = "canceled", !.pending = FALSE,
                                  !.state = SetState(@, "canceled")]
  /\ UNCHANGED <<sending, net, confirm>>

MarkReception ==
  /\ Alive /\ HasSession
  /\ \E s \in Marks : receiver' = [receiver EXCEPT !.session = s]
  /\ UNCHANGED <<sending, net, confirm>>

----------------------------------------------------------------------------
(* The pool is full, a queue on the way drops a frame, or the receiver is   *)
(* gone.                                                                    *)
Lose ==
  /\ \E m \in net : net' = net \ {m}
  /\ UNCHANGED <<sending, receiving>>

SenderStep == WaitTimesOut \/ WaitConfirmed \/ WaitCancelled \/ Decide \/ SendChunk \/ SendComplete

ReceiverStep ==
  AskUser \/ NoCallback \/ Accept \/ SendAccepted \/ Refuse \/ RemovePendingTransfer

Next ==
  \/ SendFile
  \/ SenderStep
  \/ HandleFileAck
  \/ HandleFileNack
  \/ CancelTransfer
  \/ MarkSession
  \/ RetryFailedTransfer
  \/ HandleFileRequest
  \/ ReceiverStep
  \/ Confirm
  \/ \E i \in Indices : LookUpSession(i) \/ StoreChunk(i)
  \/ HandleFileComplete
  \/ CancelReception
  \/ MarkReception
  \/ Lose

(* Goroutines that can run do, and timers fire; messages may all be lost    *)
(* and users need not answer.                                               *)
Spec ==
  /\ Init /\ [][Next]_vars
  /\ WF_vars(SenderStep)
  /\ WF_vars(ReceiverStep)
  /\ WF_vars(Alive /\ ConfirmStep /\ UNCHANGED <<sending, net, receiver>>)

----------------------------------------------------------------------------
States == {"none", "idle", "waiting", "pending", "confirmed", "rejected",
           "transferring", "completed", "failed", "canceled"}
SenderType == [pc : {"idle", "waiting", "decided", "sending", "done"}, next : 0..ChunkCount]
SessionType == [status : {"none", "idle", "starting", "accepted", "running",
                          "complete", "failed", "canceled", "paused"},
                accepted : BOOLEAN, confirmation : BOOLEAN, cancel : BOOLEAN]
TransferType == [state : States, retries : 0..RetryCount]
ReceiverType == [pc : {"idle", "asking", "waiting", "accepting", "answered", "done"},
                 pending : BOOLEAN,
                 session : {"none", "starting", "running", "failed", "canceled",
                            "paused", "removed"},
                 state : States, held : SUBSET Indices, chunks : SUBSET Indices]

TypeOK ==
  /\ sender \in SenderType
  /\ session \in SessionType
  /\ transfer \in TransferType
  /\ net \subseteq Messages
  /\ receiver \in ReceiverType
  /\ confirm \in ConfirmType

Consented == confirm.result = "accept" /\ confirm.answer = "accept"

(* Nothing of the file leaves the sender before the receiver's user said    *)
(* yes, whatever timed out, was cancelled or arrived late on either side,   *)
(* and a user whose answer came too late for the timeout gets no file.      *)
ConsentFirst ==
  \/ At("sending")
  \/ \E i \in Indices : Chunk(i) \in net \/ i \in receiver.held \cup receiver.chunks
  => Consented

(* A chunk that arrives finds a session, unless the end of the file         *)
(* overtook it.                                                             *)
SessionBeforeChunks ==
  \A i \in Indices : Chunk(i) \in net => receiver.session # "none"

(* A transfer that was reported failed or cancelled is never reported to be *)
(* under way again, although late acknowledgements and retries say so.      *)
NeverResurrected ==
  [][transfer.state \in {"failed", "canceled"} =>
       transfer'.state \in {transfer.state, "canceled"}]_vars

(* What the users at both ends may rely on: the messages, goroutines,       *)
(* sessions and the state manager together do no more than TransferPromise  *)
(* allows: a file is closed only when all of it was sent, and once, and     *)
(* what is stored, at last by workers that are late, came in before.        *)
Promise == INSTANCE TransferPromise WITH
  Size <- ChunkCount,
  said <- confirm.answer, verdict <- confirm.result,
  sent <- sender.next, taken <- receiver.held, stored <- receiver.chunks,
  closed <- receiver.session = "removed",
  reported <- IF transfer.state \in {"failed", "canceled"} THEN transfer.state ELSE "open"

Promised == Promise!PromiseSpec

(* The goroutine of the sender comes to an end whatever is lost.            *)
SenderEnds == At("waiting") ~> At("done")

(* The receiver forgets a request it has received even if its user never    *)
(* answers, or it has died.                                                 *)
RequestForgotten == receiver.pending ~> (~receiver.pending \/ ~Alive)

(* Only ends of transfers for which every chunk arrived are accepted (those *)
(* that a worker still holds included).                                     *)
CompleteHasAllChunks ==
  receiver.session = "removed" => receiver.held \cup receiver.chunks = Indices

(* A full or closed channel does no harm to the timer.                      *)
TimerSurvives == Alive
=============================================================================
