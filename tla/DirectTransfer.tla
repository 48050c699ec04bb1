-------------------------- MODULE DirectTransfer --------------------------
(***************************************************************************)
(* A file sent over one stream connection, internal/file: SendFile and     *)
(* ReceiveFile of transmission.go, their loops in transfer_helpers.go and  *)
(* the sliding window of window.go.  An attempt is one connection; when it *)
(* has ended at both sides the user may try again.                         *)
(*                                                                         *)
(* The code reads chunks, and the file whose checksum it takes, into a     *)
(* pooled buffer cut to length zero (memory_pool.go:114-142).  So a        *)
(* receiver that needs a chunk fails at the first one, nothing is written  *)
(* and nothing is acknowledged, and every two files have the same          *)
(* checksum: processReceivedChunk and MarkAcked are never reached.         *)
(***************************************************************************)
EXTENDS Integers, Sequences, FiniteSets

CONSTANTS Chunks,     \* the chunks of the file
          WindowSize, \* the sender waits when so many chunks are in the window
          MaxAttempts \* bound: connections

ASSUME DirectTransferAssumption ==
  Chunks \in Nat /\ WindowSize \in Nat \ {0} /\ MaxAttempts \in Nat \ {0}

VARIABLES sender,   \* step, next chunk, and the chunks in its window
          receiver, \* step, and how many chunks it waits for
          response, \* the answer in the connection: where to start
          exists,   \* is there a file at savePath?
          older,    \* the whole chunks this older, different file has
          broken,   \* has the connection failed, or cut a message in two?
          attempts

directVars == <<sender, receiver, response, exists, older, broken, attempts>>

IdleSender == [step |-> "idle", next |-> 0, window |-> {}]
IdleReceiver == [step |-> "idle", need |-> 0]
Ended == {"complete", "failed"}

(* The older file may be shorter than a chunk, or longer than the new file. *)
DirectInit ==
  /\ sender = IdleSender /\ receiver = IdleReceiver /\ response = <<>>
  /\ older \in 0..Chunks + 1 /\ exists \in BOOLEAN /\ (older > 0 => exists)
  /\ broken = FALSE /\ attempts = 1

-----------------------------------------------------------------------------
SendRequest ==
  /\ sender.step = "idle"
  /\ sender' = [sender EXCEPT !.step = "response"]
  /\ UNCHANGED <<receiver, response, exists, older, broken, attempts>>

(* ReceiveFile, handleResumeTransfer: what a file at savePath holds counts as
   received; NewReceiver opens or creates the file, and does not empty it *)
ReceiveRequest ==
  /\ receiver.step = "idle" /\ sender.step # "idle"
  /\ response' = <<older>>
  /\ receiver' = [step |-> "receiving", need |-> Chunks - older]
  /\ exists' = TRUE
  /\ UNCHANGED <<sender, older, broken, attempts>>

ReceiveResponse ==
  /\ sender.step = "response" /\ response # <<>>
  /\ sender' = [sender EXCEPT !.step = "sending", !.next = response[1]]
  /\ response' = <<>>
  /\ UNCHANGED <<receiver, exists, older, broken, attempts>>

WindowFull == Cardinality(sender.window) >= WindowSize
AllSent == sender.next >= Chunks

SendChunk ==
  /\ sender.step = "sending" /\ ~WindowFull /\ ~AllSent
  /\ sender' = [sender EXCEPT !.next = @ + 1, !.window = @ \cup {sender.next}]
  /\ UNCHANGED <<receiver, response, exists, older, broken, attempts>>

(* waitForWindowSpace, finalizeTransfer: no acknowledgement comes before the
   deadline of the read *)
WaitForAck ==
  /\ sender.step = "sending"
  /\ WindowFull \/ (AllSent /\ sender.window # {})
  /\ sender' = [sender EXCEPT !.step = "failed"]
  /\ UNCHANGED <<receiver, response, exists, older, broken, attempts>>

FinalizeTransfer ==
  /\ sender.step = "sending" /\ AllSent /\ sender.window = {}
  /\ sender' = [sender EXCEPT !.step = "complete"]
  /\ UNCHANGED <<receiver, response, exists, older, broken, attempts>>

(* receiveChunk: the empty read is no message *)
ReceiveChunk ==
  /\ receiver.step = "receiving" /\ receiver.need > 0
  /\ receiver' = [receiver EXCEPT !.step = "failed"]
  /\ UNCHANGED <<sender, response, exists, older, broken, attempts>>

(* no chunk is needed; the checksums, if they are compared, agree *)
EndReceive ==
  /\ receiver.step = "receiving" /\ receiver.need <= 0
  /\ receiver' = [receiver EXCEPT !.step = "complete"]
  /\ UNCHANGED <<sender, response, exists, older, broken, attempts>>

(* Environment: from now on a read or a write may fail. *)
Break ==
  /\ ~broken
  /\ broken' = TRUE
  /\ UNCHANGED <<sender, receiver, response, exists, older, attempts>>

SenderFails ==
  /\ broken /\ sender.step \notin Ended
  /\ sender' = [sender EXCEPT !.step = "failed"]
  /\ UNCHANGED <<receiver, response, exists, older, broken, attempts>>

ReceiverFails ==
  /\ broken /\ receiver.step \notin Ended
  /\ receiver' = [receiver EXCEPT !.step = "failed"]
  /\ UNCHANGED <<sender, response, exists, older, broken, attempts>>

Reconnect ==
  /\ sender.step \in Ended /\ receiver.step \in Ended /\ attempts < MaxAttempts
  /\ attempts' = attempts + 1
  /\ sender' = IdleSender /\ receiver' = IdleReceiver
  /\ response' = <<>> /\ broken' = FALSE
  /\ UNCHANGED <<exists, older>>

DirectNext ==
  \/ SendRequest \/ ReceiveRequest \/ ReceiveResponse
  \/ SendChunk \/ WaitForAck \/ FinalizeTransfer
  \/ ReceiveChunk \/ EndReceive
  \/ Break \/ SenderFails \/ ReceiverFails \/ Reconnect

-----------------------------------------------------------------------------
DirectTypeOK ==
  /\ sender \in [step : {"idle", "response", "sending"} \cup Ended,
                 next : 0..Chunks + 1, window : SUBSET (0..Chunks)]
  /\ receiver \in [step : {"idle", "receiving"} \cup Ended, need : -1..Chunks]
  /\ response \in {<<>>} \cup {<<point>> : point \in 0..Chunks + 1}
  /\ exists \in BOOLEAN /\ older \in 0..Chunks + 1
  /\ broken \in BOOLEAN /\ attempts \in 1..MaxAttempts

(* A transfer fails at neither end unless its connection does: what the module
   is for (internal/file/README.md), and what the buffer of 256 KB that
   receiveChunk means to read into would give (transmission.go:420). *)
FailsOnlyWhenBroken ==
  sender.step = "failed" \/ receiver.step = "failed" => broken

(* A transfer that reports success left the file that was sent.  It may not:
   the older content stays, and the checksum does not tell the two apart. *)
ReceivedIsWhole == receiver.step = "complete" => Chunks = 0 /\ older = 0
=============================================================================
