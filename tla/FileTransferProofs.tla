------------------------ MODULE FileTransferProofs --------------------------
(***************************************************************************)
(* What holds of a file transfer for every number of chunks and retries:   *)
(* its types, that nothing is sent without the receiver's consent, that    *)
(* chunks find a session, and that a transfer reported failed or cancelled *)
(* is not reported to be under way again.                                  *)
(***************************************************************************)
EXTENDS FileTransfer, TLAPS

(* An answer in the channel, or returned, is what the user's callback gave, *)
(* which will not change, since the callback has returned; and a request    *)
(* returns once.                                                            *)
AnswerIsTheUsers ==
  /\ confirm.request = "none" => confirm.response = "none" /\ confirm.result = "none"
  /\ confirm.result # "none" => confirm.request = "closed"
  /\ "accept" \in {confirm.response, confirm.result} =>
       confirm.answer = "accept" /\ confirm.user \notin {"idle", "asked"}

(* The chain of causes from the user's consent to the chunks: the           *)
(* receiver's session comes from the consent, ...                           *)
SessionFromConsent == receiver.session # "none" => confirm.result = "accept"

(* ... the acknowledgement, and the sender's session that is accepted by    *)
(* it, from the receiver's session, ...                                     *)
AcceptedFromSession ==
  Accepted \in net \/ session.accepted => receiver.session # "none"

(* ... and whatever follows from the session that is accepted.              *)
ChunksFromAccepted ==
  /\ At("sending") => session.accepted
  /\ \A i \in Indices : Chunk(i) \in net \/ i \in receiver.held \cup receiver.chunks
                         => session.accepted

(* A receiver about to acknowledge has made its session; ...                *)
AcceptingHasSession == receiver.pc = "accepting" => receiver.session # "none"

(* The state manager does not know the transfer before it is sent.          *)
UnknownUntilSent == At("idle") => transfer.state = "none"

IInv ==
  /\ TypeOK
  /\ AnswerIsTheUsers
  /\ SessionFromConsent
  /\ AcceptedFromSession
  /\ ChunksFromAccepted
  /\ AcceptingHasSession
  /\ UnknownUntilSent

USE TransferAssumption

----------------------------------------------------------------------------
(* SetTransferState leads to states.                                        *)
LEMMA SetStateStates ==
  ASSUME NEW from \in States, NEW to \in States
  PROVE  SetState(from, to) \in States
BY DEF SetState

(* A failed or cancelled transfer can only be cancelled.                    *)
LEMMA SetStateFinal ==
  ASSUME NEW from \in {"failed", "canceled"}, NEW to \in States \ {"idle"}
  PROVE  SetState(from, to) \in {from, "canceled"}
BY DEF SetState, ValidTransitions, States

(* The messages are messages, and those with an index of their own differ   *)
(* from the others.                                                         *)
LEMMA MessagesAreMessages ==
  /\ {Request, Accepted, Refusal, Complete} \subseteq Messages
  /\ \A i \in Indices : Chunk(i) \in Messages /\ ChunkAck(i) \in Messages
  /\ \A i \in Indices : /\ Chunk(i) \notin {Request, Accepted, Refusal, Complete}
                        /\ ChunkAck(i) # Accepted
  /\ \A i, j \in Indices : Chunk(i) # ChunkAck(j) /\ (Chunk(i) = Chunk(j) => i = j)
  /\ Accepted \notin {Request, Refusal, Complete}
BY DEF Messages, Message, Request, Accepted, Refusal, Complete, Chunk, ChunkAck, Indices

----------------------------------------------------------------------------
(* The types, action by action.                                             *)
LEMMA TypeStep == TypeOK /\ [Next]_vars => TypeOK'
<1> SUFFICES ASSUME TypeOK, [Next]_vars PROVE TypeOK'
  OBVIOUS
<1> USE DEF TypeOK, sending, receiving
<1>a. \A to \in States : /\ SetState("idle", to) \in States
                         /\ SetState(transfer.state, to) \in States
                         /\ SetState(receiver.state, to) \in States
  BY SetStateStates DEF TransferType, ReceiverType, States
<1>b. \A to \in States : SetTransferState(to) => transfer' \in TransferType
  BY <1>a DEF SetTransferState, TransferType
<1>c. \A pc \in {"decided", "sending", "done", "waiting"} : GoTo(pc) => sender' \in SenderType
  BY DEF GoTo, SenderType
<1>1. CASE SendFile
  <2>1. session' \in SessionType
    BY <1>1 DEF SendFile, SetStatus, SessionType
  <2>2. SetState("idle", "pending") \in States /\ SetState(SetState("idle", "pending"), "failed") \in States
    BY SetStateStates DEF States
  <2>3. transfer' \in TransferType
    BY <1>1, <2>2 DEF SendFile, TransferType
  <2>4. QED BY <1>1, <1>c, <2>1, <2>3, MessagesAreMessages DEF SendFile
<1>2. CASE WaitTimesOut
  <2>1. session' \in SessionType
    BY <1>2 DEF WaitTimesOut, SetStatus, SessionType
  <2>2. QED BY <1>2, <1>b, <1>c, <2>1 DEF WaitTimesOut, States
<1>3. CASE WaitConfirmed
  <2>1. session' \in SessionType
    BY <1>3 DEF WaitConfirmed, SessionType
  <2>2. QED BY <1>3, <1>b, <1>c, <2>1 DEF WaitConfirmed, States
<1>4. CASE WaitCancelled
  <2>1. session' \in SessionType
    BY <1>4 DEF WaitCancelled, SessionType
  <2>2. QED BY <1>4, <1>b, <1>c, <2>1 DEF WaitCancelled, States
<1>5. CASE Decide
  <2>1. session' \in SessionType
    BY <1>5 DEF Decide, SetStatus, SessionType
  <2>2. QED BY <1>5, <1>c, <2>1 DEF Decide
<1>6. CASE SendChunk
  <2>1. sender.next \in Indices /\ sender' \in SenderType
    BY <1>6 DEF SendChunk, Indices, SenderType
  <2>2. QED BY <1>6, <2>1, MessagesAreMessages DEF SendChunk
<1>7. CASE SendComplete
  <2>1. session' \in SessionType
    BY <1>7 DEF SendComplete, SetStatus, SessionType
  <2>2. QED BY <1>7, <1>c, <2>1, MessagesAreMessages DEF SendComplete
<1>8. CASE HandleFileAck
  <2>1. session' \in SessionType
    BY <1>8 DEF HandleFileAck, SessionType
  <2>2. QED BY <1>8, <1>b, <2>1 DEF HandleFileAck, States
<1>9. CASE HandleFileNack
  BY <1>9 DEF HandleFileNack
<1>10. CASE CancelTransfer
  <2>1. session' \in SessionType
    BY <1>10 DEF CancelTransfer, SessionType
  <2>2. QED BY <1>10, <1>b, <2>1 DEF CancelTransfer, States
<1>11. CASE MarkSession
  <2>1. session' \in SessionType
    BY <1>11 DEF MarkSession, Marks, SetStatus, SessionType
  <2>2. QED BY <1>11, <2>1 DEF MarkSession
<1>12. CASE RetryFailedTransfer
  <2>1. session' \in SessionType
    BY <1>12 DEF RetryFailedTransfer, SetStatus, SessionType
  <2>2. /\ SetState("failed", "failed") \in States
        /\ SetState("failed", "transferring") \in States
    BY SetStateStates DEF States
  <2>3. transfer' \in TransferType
    BY <1>12, <2>2 DEF RetryFailedTransfer, TransferType
  <2>4. QED BY <1>12, <2>1, <2>3 DEF RetryFailedTransfer
<1>13. CASE HandleFileRequest
  <2>1. receiver' \in ReceiverType
    BY <1>13 DEF HandleFileRequest, ReceiverType
  <2>2. QED BY <1>13, <2>1 DEF HandleFileRequest
<1>14. CASE AskUser
  <2>1. receiver' \in ReceiverType
    BY <1>14 DEF AskUser, ReceiverType
  <2>2. confirm' \in ConfirmType
    BY <1>14 DEF AskUser, RequestUserConfirmation, ConfirmType
  <2>3. QED BY <1>14, <2>1, <2>2 DEF AskUser
<1>15. CASE NoCallback
  <2>1. receiver' \in ReceiverType
    BY <1>15 DEF NoCallback, ReceiverType
  <2>2. QED BY <1>15, <2>1, MessagesAreMessages DEF NoCallback
<1>16. CASE Accept
  <2>1. SetState("idle", "confirmed") \in States
    BY SetStateStates DEF States
  <2>2. receiver' \in ReceiverType
    BY <1>16, <2>1 DEF Accept, ReceiverType
  <2>3. QED BY <1>16, <2>2 DEF Accept
<1>17. CASE SendAccepted \/ Refuse
  <2>1. receiver' \in ReceiverType
    BY <1>17 DEF SendAccepted, Refuse, ReceiverType
  <2>2. QED BY <1>17, <2>1, MessagesAreMessages DEF SendAccepted, Refuse
<1>18. CASE RemovePendingTransfer
  <2>1. receiver' \in ReceiverType
    BY <1>18 DEF RemovePendingTransfer, ReceiverType
  <2>2. QED BY <1>18, <2>1 DEF RemovePendingTransfer
<1>19. CASE Confirm
  <2>1. confirm' \in ConfirmType
    BY ZenonT(60), <1>19 DEF Confirm, ConfirmStep, FindForResponse, SendResponse, TimerFires, SendTick,
       TakeResponse, TakeTick, Return, OnFileTransferRequest, ConfirmType, Answers
  <2>2. QED BY <1>19, <2>1 DEF Confirm
<1>20. ASSUME NEW i \in Indices, LookUpSession(i) \/ StoreChunk(i) PROVE TypeOK'
  <2>1. /\ receiver.chunks \cup {i} \in SUBSET Indices /\ receiver.held \cup {i} \in SUBSET Indices
        /\ receiver.held \ {i} \in SUBSET Indices
    BY DEF ReceiverType
  <2>2. receiver' \in ReceiverType
    BY <1>20, <2>1 DEF LookUpSession, StoreChunk, FoundSession, ReceiverType
  <2>3. QED BY <1>20, <2>2, MessagesAreMessages DEF LookUpSession, StoreChunk
<1>21. CASE HandleFileComplete
  <2>1. receiver' \in ReceiverType
    BY <1>21 DEF HandleFileComplete, ReceiverType
  <2>2. QED BY <1>21, <2>1 DEF HandleFileComplete
<1>22. CASE CancelReception
  <2>1. receiver' \in ReceiverType
    BY <1>22, <1>a DEF CancelReception, ReceiverType, States
  <2>2. QED BY <1>22, <2>1 DEF CancelReception
<1>23. CASE MarkReception
  <2>1. receiver' \in ReceiverType
    BY <1>23 DEF MarkReception, Marks, ReceiverType
  <2>2. QED BY <1>23, <2>1 DEF MarkReception
<1>24. CASE Lose
  BY <1>24 DEF Lose
<1>25. CASE UNCHANGED vars
  BY <1>25 DEF vars
<1>26. QED
  BY <1>1, <1>2, <1>3, <1>4, <1>5, <1>6, <1>7, <1>8, <1>9, <1>10, <1>11, <1>12, <1>13, <1>14,
     <1>15, <1>16, <1>17, <1>18, <1>19, <1>20, <1>21, <1>22, <1>23, <1>24, <1>25
  DEF Next, SenderStep, ReceiverStep

----------------------------------------------------------------------------
(* What the steps keep, ...                                                 *)
Kept ==
  /\ session.accepted => session'.accepted
  /\ receiver.session # "none" => receiver'.session # "none"

(* ... and what they make only out of what was there before.                *)
Made ==
  /\ receiver'.session # "none" => receiver.session # "none" \/ confirm.result = "accept"
  /\ receiver'.pc = "accepting" => receiver.pc = "accepting" \/ receiver'.session # "none"
  /\ Accepted \in net' => Accepted \in net \/ receiver'.session # "none"
  /\ session'.accepted => session.accepted \/ Accepted \in net
  /\ sender'.pc = "sending" => sender.pc = "sending" \/ session.accepted
  /\ \A i \in Indices : /\ Chunk(i) \in net' => Chunk(i) \in net \/ sender.pc = "sending"
                        /\ i \in receiver'.held => i \in receiver.held \/ Chunk(i) \in net
                        /\ i \in receiver'.chunks => i \in receiver.chunks \cup receiver.held

LEMMA KeptAndMade == TypeOK /\ AcceptingHasSession /\ [Next]_vars => Kept /\ Made
<1> SUFFICES ASSUME TypeOK, AcceptingHasSession, [Next]_vars PROVE Kept /\ Made
  OBVIOUS
<1> USE MessagesAreMessages DEF Kept, Made, TypeOK, sending, receiving
<1>1. CASE SendFile
  <2>1. session'.accepted = session.accepted /\ sender'.pc # "sending"
    BY <1>1 DEF SendFile, SetStatus, GoTo, SessionType, SenderType
  <2>2. net' \subseteq net \cup {Request} /\ receiver' = receiver
    BY <1>1 DEF SendFile
  <2>3. QED BY <2>1, <2>2
<1>2. CASE WaitTimesOut \/ WaitConfirmed \/ WaitCancelled \/ Decide
  <2>1. session'.accepted = session.accepted
    BY <1>2 DEF WaitTimesOut, WaitConfirmed, WaitCancelled, Decide, SetStatus, SessionType
  <2>2. sender'.pc = "sending" => session.accepted
    BY <1>2 DEF WaitTimesOut, WaitConfirmed, WaitCancelled, Decide, GoTo, SenderType
  <2>3. net' = net /\ receiver' = receiver
    BY <1>2 DEF WaitTimesOut, WaitConfirmed, WaitCancelled, Decide
  <2>4. QED BY <2>1, <2>2, <2>3
<1>3. CASE SendChunk
  <2>1. sender.pc = "sending" /\ sender.next \in Indices
    BY <1>3 DEF SendChunk, At, SenderType, Indices
  <2>2. QED BY <1>3, <2>1 DEF SendChunk
<1>4. CASE SendComplete
  <2>1. session'.accepted = session.accepted /\ sender.pc = "sending"
    BY <1>4 DEF SendComplete, At, SetStatus, SessionType
  <2>2. QED BY <1>4, <2>1 DEF SendComplete
<1>5. CASE HandleFileAck
  <2>1. session'.accepted => session.accepted \/ Accepted \in net
    BY <1>5 DEF HandleFileAck
  <2>2. session.accepted => session'.accepted
    BY <1>5 DEF HandleFileAck, SessionType
  <2>3. net' \subseteq net /\ sender' = sender /\ receiver' = receiver
    BY <1>5 DEF HandleFileAck
  <2>4. QED BY <2>1, <2>2, <2>3
<1>6. CASE HandleFileNack \/ Lose
  BY <1>6 DEF HandleFileNack, Lose
<1>7. CASE CancelTransfer \/ MarkSession \/ RetryFailedTransfer
  <2>1. session'.accepted = session.accepted
    BY <1>7 DEF CancelTransfer, MarkSession, RetryFailedTransfer, SetStatus, SessionType
  <2>2. net' = net /\ sender' = sender /\ receiver' = receiver
    BY <1>7 DEF CancelTransfer, MarkSession, RetryFailedTransfer
  <2>3. QED BY <2>1, <2>2
<1>8. CASE HandleFileRequest \/ AskUser \/ NoCallback \/ Refuse \/ RemovePendingTransfer
  <2>1. /\ receiver'.chunks = receiver.chunks /\ receiver'.held = receiver.held
        /\ receiver'.session = receiver.session
    BY <1>8 DEF HandleFileRequest, AskUser, NoCallback, Refuse, RemovePendingTransfer, ReceiverType
  <2>2. receiver'.pc # "accepting"
    BY <1>8 DEF HandleFileRequest, AskUser, NoCallback, Refuse, RemovePendingTransfer, ReceiverType
  <2>3. sender' = sender /\ session' = session /\ net' \subseteq net \cup {Refusal}
    BY <1>8 DEF HandleFileRequest, AskUser, NoCallback, Refuse, RemovePendingTransfer
  <2>4. QED BY <2>1, <2>2, <2>3
<1>9. CASE Accept
  <2>1. /\ receiver'.chunks = receiver.chunks /\ receiver'.held = receiver.held
        /\ receiver'.session = "starting"
    BY <1>9 DEF Accept, ReceiverType
  <2>2. QED BY <1>9, <2>1 DEF Accept
<1>10. CASE SendAccepted
  <2>1. /\ receiver'.chunks = receiver.chunks /\ receiver'.held = receiver.held
        /\ receiver'.session = receiver.session /\ receiver'.pc = "answered"
    BY <1>10 DEF SendAccepted, ReceiverType
  <2>2. receiver.pc = "accepting"
    BY <1>10 DEF SendAccepted, ReceiverAt
  <2>3. QED BY <1>10, <2>1, <2>2 DEF SendAccepted, AcceptingHasSession
<1>11. CASE Confirm
  BY <1>11 DEF Confirm
<1>12. ASSUME NEW i \in Indices, LookUpSession(i) \/ StoreChunk(i) PROVE Kept /\ Made
  <2>1. /\ receiver'.chunks \subseteq receiver.chunks \cup receiver.held
        /\ \A j \in receiver'.held : j \in receiver.held \/ Chunk(j) \in net
        /\ receiver'.pc = receiver.pc
    <3>1. CASE LookUpSession(i)
      <4>1. /\ receiver'.held \subseteq receiver.held \cup {i} /\ Chunk(i) \in net
            /\ receiver'.chunks = receiver.chunks /\ receiver'.pc = receiver.pc
        BY <3>1 DEF LookUpSession, ReceiverType
      <4>2. QED BY <4>1
    <3>2. CASE StoreChunk(i)
      <4>1. /\ receiver'.held = receiver.held \ {i} /\ i \in receiver.held
            /\ receiver'.chunks \subseteq receiver.chunks \cup {i} /\ receiver'.pc = receiver.pc
        BY <3>2 DEF StoreChunk, ReceiverType
      <4>2. QED BY <4>1
    <3>3. QED BY <1>12, <3>1, <3>2
  <2>2. (receiver.session # "none") <=> (receiver'.session # "none")
    BY <1>12 DEF LookUpSession, StoreChunk, FoundSession, HasSession, ReceiverType
  <2>3. net' \subseteq net \cup {ChunkAck(i)} /\ sender' = sender /\ session' = session
    BY <1>12 DEF LookUpSession, StoreChunk
  <2>4. QED BY <2>1, <2>2, <2>3
<1>13. CASE HandleFileComplete \/ CancelReception \/ MarkReception
  <2>1. /\ receiver'.chunks = receiver.chunks /\ receiver'.held = receiver.held
        /\ receiver'.pc = receiver.pc
    BY <1>13 DEF HandleFileComplete, CancelReception, MarkReception, ReceiverType
  <2>2. (receiver.session # "none") <=> (receiver'.session # "none")
    BY <1>13 DEF HandleFileComplete, CancelReception, MarkReception, Marks, HasSession, ReceiverType
  <2>3. net' \subseteq net /\ sender' = sender /\ session' = session
    BY <1>13 DEF HandleFileComplete, CancelReception, MarkReception
  <2>4. QED BY <2>1, <2>2, <2>3
<1>14. CASE UNCHANGED vars
  BY <1>14 DEF vars
<1>15. QED
  BY <1>1, <1>2, <1>3, <1>4, <1>5, <1>6, <1>7, <1>8, <1>9, <1>10, <1>11, <1>12, <1>13,
     <1>14
  DEF Next, SenderStep, ReceiverStep

(* A result that was returned stays, and only a user's answer is returned.  *)
LEMMA ConfirmKept ==
  TypeOK /\ AnswerIsTheUsers /\ [Next]_vars =>
    /\ AnswerIsTheUsers'
    /\ confirm.result = "accept" => confirm'.result = "accept"
<1> SUFFICES ASSUME TypeOK, AnswerIsTheUsers, [Next]_vars
             PROVE  /\ AnswerIsTheUsers'
                    /\ confirm.result = "accept" => confirm'.result = "accept"
  OBVIOUS
<1> USE DEF TypeOK, AnswerIsTheUsers, ConfirmType, Answers
<1>1. CASE RequestUserConfirmation
  BY <1>1 DEF RequestUserConfirmation
<1>2. ASSUME NEW a \in Answers, OnFileTransferRequest(a)
      PROVE  /\ AnswerIsTheUsers'
             /\ confirm.result = "accept" => confirm'.result = "accept"
  BY <1>2 DEF OnFileTransferRequest
<1>3. CASE FindForResponse
  BY <1>3 DEF FindForResponse, Open
<1>4. CASE SendResponse
  BY <1>4 DEF SendResponse, Open
<1>5. CASE TimerFires \/ SendTick
  BY <1>5 DEF TimerFires, SendTick
<1>6. CASE TakeResponse \/ TakeTick
  BY <1>6 DEF TakeResponse, TakeTick, Return, Open
<1>7. CASE UNCHANGED confirm
  BY <1>7
<1>8. CASE Confirm
  BY <1>2, <1>3, <1>4, <1>5, <1>6, <1>8 DEF Confirm, ConfirmStep
<1>9. CASE ReceiverStep
  BY <1>1, <1>7, <1>9 DEF ReceiverStep, AskUser, NoCallback, Accept, SendAccepted, Refuse, RemovePendingTransfer
<1>10. CASE SendFile \/ SenderStep \/ HandleFileAck \/ HandleFileNack \/ CancelTransfer
  BY <1>7, <1>10 DEF SendFile, SenderStep, WaitTimesOut, WaitConfirmed, WaitCancelled, Decide,
     SendChunk, SendComplete, HandleFileAck, HandleFileNack, CancelTransfer, receiving
<1>11. CASE \/ MarkSession \/ RetryFailedTransfer \/ HandleFileRequest
            \/ \E i \in Indices : LookUpSession(i) \/ StoreChunk(i)
  BY <1>7, <1>11 DEF MarkSession, RetryFailedTransfer, HandleFileRequest, LookUpSession, StoreChunk, receiving
<1>12. CASE HandleFileComplete \/ CancelReception \/ MarkReception \/ Lose \/ UNCHANGED vars
  BY <1>7, <1>12 DEF HandleFileComplete, CancelReception, MarkReception, Lose, vars, receiving
<1>13. QED BY <1>8, <1>9, <1>10, <1>11, <1>12 DEF Next

(* Nothing but SendFile makes the state manager know a transfer.            *)
LEMMA UnknownKept == TypeOK /\ UnknownUntilSent /\ [Next]_vars => UnknownUntilSent'
<1> SUFFICES ASSUME TypeOK, At("idle"), transfer.state = "none", [Next]_vars, ~SendFile,
                    sender'.pc = "idle"
             PROVE  transfer'.state = "none"
  <2>1. ASSUME TypeOK, [Next]_vars, sender'.pc = "idle" PROVE sender.pc = "idle" /\ ~SendFile
    <3>1. \A pc \in {"waiting", "decided", "sending", "done"} : ~GoTo(pc)
      BY <2>1 DEF GoTo, TypeOK, SenderType
    <3>2. ~SendFile
      BY <3>1 DEF SendFile
    <3>3. CASE SenderStep
      <4>1. SendChunk
        BY <3>1, <3>3 DEF SenderStep, WaitTimesOut, WaitConfirmed, WaitCancelled, Decide, SendComplete
      <4>2. QED BY <2>1, <4>1 DEF SendChunk, At, TypeOK, SenderType
    <3>4. CASE sender' = sender
      BY <2>1, <3>4, <3>2
    <3>5. QED
      BY <2>1, <3>2, <3>3, <3>4 DEF Next, HandleFileAck, HandleFileNack, CancelTransfer, MarkSession,
         RetryFailedTransfer, HandleFileRequest, ReceiverStep, AskUser, NoCallback, Accept, SendAccepted, Refuse,
         RemovePendingTransfer, Confirm, LookUpSession, StoreChunk, HandleFileComplete, CancelReception,
         MarkReception, Lose, sending, vars
  <2>2. QED BY <2>1 DEF UnknownUntilSent, At
<1>1. SetTransferState("transferring") \/ SetTransferState("canceled") => transfer'.state = "none"
  BY DEF SetTransferState, SetState, ValidTransitions, TypeOK, TransferType
<1>2. QED
  BY <1>1 DEF At, Next, SenderStep, WaitTimesOut, WaitConfirmed, WaitCancelled, Decide, SendChunk,
     SendComplete, HandleFileAck, HandleFileNack, CancelTransfer, MarkSession, RetryFailedTransfer,
     HandleFileRequest, ReceiverStep, AskUser, NoCallback, Accept, SendAccepted, Refuse, RemovePendingTransfer, Confirm,
     LookUpSession, StoreChunk, HandleFileComplete, CancelReception, MarkReception, Lose, sending, vars

----------------------------------------------------------------------------
LEMMA InitIInv == Init => IInv
<1> SUFFICES ASSUME Init PROVE IInv
  OBVIOUS
<1>1. TypeOK
  BY DEF Init, ConfirmInit, TypeOK, SenderType, SessionType, TransferType, ReceiverType,
     ConfirmType, States
<1>2. AnswerIsTheUsers /\ SessionFromConsent /\ AcceptedFromSession /\ ChunksFromAccepted
      /\ AcceptingHasSession /\ UnknownUntilSent
  BY DEF Init, ConfirmInit, AnswerIsTheUsers, SessionFromConsent, AcceptedFromSession,
     ChunksFromAccepted, AcceptingHasSession, UnknownUntilSent, At
<1>3. QED BY <1>1, <1>2 DEF IInv

LEMMA NextIInv == IInv /\ [Next]_vars => IInv'
<1> SUFFICES ASSUME IInv, [Next]_vars PROVE IInv'
  OBVIOUS
<1>1. TypeOK' /\ Kept /\ Made
  BY TypeStep, KeptAndMade DEF IInv
<1>2. AnswerIsTheUsers' /\ (confirm.result = "accept" => confirm'.result = "accept")
  BY ConfirmKept DEF IInv
<1>3. SessionFromConsent'
  BY <1>1, <1>2 DEF IInv, SessionFromConsent, Made
<1>4. AcceptedFromSession'
  BY <1>1 DEF IInv, AcceptedFromSession, Kept, Made
<1>5. ChunksFromAccepted'
  BY <1>1 DEF IInv, ChunksFromAccepted, Kept, Made, At
<1>6. AcceptingHasSession'
  BY <1>1 DEF IInv, AcceptingHasSession, Kept, Made
<1>7. UnknownUntilSent'
  BY UnknownKept DEF IInv
<1>8. QED BY <1>1, <1>2, <1>3, <1>4, <1>5, <1>6, <1>7 DEF IInv

(* The inductive invariant holds of every reachable state.                  *)
THEOREM TransferInvariance == Spec => []IInv
BY InitIInv, NextIInv, PTL DEF Spec

(* Every reachable state of a transfer is well typed.                       *)
THEOREM TransferTypeCorrect == Spec => []TypeOK
<1>1. IInv => TypeOK
  BY DEF IInv
<1>2. QED BY <1>1, TransferInvariance, PTL

(* Nothing of a file is on its way, or stored, unless the receiver's user   *)
(* has consented.                                                           *)
THEOREM NothingWithoutConsent == Spec => []ConsentFirst
<1>1. IInv => ConsentFirst
  BY DEF IInv, ConsentFirst, Consented, AnswerIsTheUsers, SessionFromConsent,
     AcceptedFromSession, ChunksFromAccepted
<1>2. QED BY <1>1, TransferInvariance, PTL

(* No chunk arrives before the receiver has a session for it.               *)
THEOREM SessionAwaitsChunks == Spec => []SessionBeforeChunks
<1>1. IInv => SessionBeforeChunks
  BY DEF IInv, SessionBeforeChunks, AcceptedFromSession, ChunksFromAccepted
<1>2. QED BY <1>1, TransferInvariance, PTL

(* A bad report gets no better by any step.                                 *)
LEMMA FinalStays ==
  TypeOK /\ UnknownUntilSent /\ [Next]_vars =>
    (transfer.state \in {"failed", "canceled"} => transfer'.state \in {transfer.state, "canceled"})
<1> SUFFICES ASSUME TypeOK, UnknownUntilSent, [Next]_vars,
                    transfer.state \in {"failed", "canceled"}
             PROVE  transfer'.state \in {transfer.state, "canceled"}
  OBVIOUS
<1> USE DEF TypeOK, sending
<1>a. \A to \in States \ {"idle"} :
        SetTransferState(to) => transfer'.state \in {transfer.state, "canceled"}
  BY SetStateFinal DEF SetTransferState, TransferType
<1>1. CASE SenderStep
  BY <1>1, <1>a DEF SenderStep, WaitTimesOut, WaitConfirmed, WaitCancelled, Decide,
     SendChunk, SendComplete, States
<1>2. CASE HandleFileAck \/ CancelTransfer
  BY <1>2, <1>a DEF HandleFileAck, CancelTransfer, States
<1>3. CASE RetryFailedTransfer
  <2>1. /\ SetState("failed", "failed") \in {"failed", "canceled"}
        /\ SetState("failed", "transferring") \in {"failed", "canceled"}
    BY SetStateFinal DEF States
  <2>2. QED BY <1>3, <2>1 DEF RetryFailedTransfer
<1>4. ~SendFile
  BY DEF SendFile, UnknownUntilSent
<1>5. QED
  BY <1>1, <1>2, <1>3, <1>4 DEF Next, HandleFileNack, MarkSession, HandleFileRequest, ReceiverStep,
     AskUser, NoCallback, Accept, SendAccepted, Refuse, RemovePendingTransfer, Confirm, LookUpSession, StoreChunk,
     HandleFileComplete, CancelReception, MarkReception, Lose, vars

(* A transfer that failed or was cancelled never gets under way again.      *)
THEOREM FinalStaysFinal == Spec => NeverResurrected
<1>1. IInv => TypeOK /\ UnknownUntilSent
  BY DEF IInv
<1>2. QED BY <1>1, FinalStays, TransferInvariance, PTL DEF Spec, NeverResurrected

----------------------------------------------------------------------------
(* The refinement of TransferPromise.  A chunk that is known has been sent, *)
(* the end follows the last of them, ...                                    *)
SentInOrder ==
  /\ \A i \in Indices : Chunk(i) \in net \/ i \in receiver.held \cup receiver.chunks
                         => i < sender.next
  /\ Complete \in net \/ receiver.session = "removed" => sender.next = ChunkCount

(* ... and the session is made only once, before any chunk can meet it.     *)
NoSessionYet == receiver.pc \in {"idle", "asking", "waiting"} => receiver.session = "none"

(* Chunks are counted up while they are sent, ...                           *)
LEMMA SenderAdvances ==
  TypeOK /\ [Next]_vars =>
    \/ sender'.next = sender.next
    \/ SendChunk /\ sender.next < ChunkCount /\ sender'.next = sender.next + 1
<1> SUFFICES ASSUME TypeOK, [Next]_vars, ~SendChunk PROVE sender'.next = sender.next
  <2>1. TypeOK /\ SendChunk => sender.next < ChunkCount /\ sender'.next = sender.next + 1
    BY DEF SendChunk, TypeOK, SenderType
  <2>2. QED BY <2>1
<1>1. \A pc : GoTo(pc) => sender'.next = sender.next
  BY DEF GoTo, TypeOK, SenderType
<1>2. CASE SendFile \/ SenderStep
  BY <1>1, <1>2 DEF SendFile, SenderStep, WaitTimesOut, WaitConfirmed, WaitCancelled, Decide,
     SendComplete
<1>3. sender' = sender \/ SendFile \/ SenderStep
  BY DEF Next, HandleFileAck, HandleFileNack, CancelTransfer, MarkSession, RetryFailedTransfer,
     HandleFileRequest, ReceiverStep, AskUser, NoCallback, Accept, SendAccepted, Refuse,
     RemovePendingTransfer, Confirm, LookUpSession, StoreChunk, HandleFileComplete, CancelReception,
     MarkReception, Lose, sending, vars
<1>4. QED BY <1>2, <1>3

(* ... and an end is made only after the last, ...                          *)
LEMMA SentOnlyInOrder ==
  TypeOK /\ [Next]_vars =>
    /\ \A i \in Indices : Chunk(i) \in net' => Chunk(i) \in net \/ (SendChunk /\ i = sender.next)
    /\ Complete \in net' => Complete \in net \/ sender.next = ChunkCount
<1> SUFFICES ASSUME TypeOK, [Next]_vars
             PROVE  /\ \A i \in Indices :
                          Chunk(i) \in net' => Chunk(i) \in net \/ (SendChunk /\ i = sender.next)
                    /\ Complete \in net' => Complete \in net \/ sender.next = ChunkCount
  OBVIOUS
<1> USE MessagesAreMessages
<1>1. /\ Complete \notin {Request, Accepted, Refusal}
      /\ \A i \in Indices : ChunkAck(i) # Complete
  BY DEF Message, Request, Accepted, Refusal, Complete, ChunkAck
<1>2. CASE SendChunk
  <2>1. sender.next \in Indices /\ net' = net \cup {Chunk(sender.next)}
    BY <1>2 DEF SendChunk, TypeOK, SenderType, Indices
  <2>2. QED BY <1>2, <2>1
<1>3. CASE SendComplete
  BY <1>3 DEF SendComplete
<1>4. CASE SendFile \/ SendAccepted \/ Refuse \/ NoCallback
  BY <1>1, <1>4 DEF SendFile, SendAccepted, Refuse, NoCallback
<1>5. ASSUME NEW j \in Indices, LookUpSession(j) \/ StoreChunk(j)
      PROVE  /\ \A i \in Indices : Chunk(i) \in net' => Chunk(i) \in net
             /\ Complete \in net' => Complete \in net
  BY <1>1, <1>5 DEF LookUpSession, StoreChunk
<1>6. CASE net' \subseteq net
  BY <1>6
<1>7. QED
  BY <1>2, <1>3, <1>4, <1>5, <1>6 DEF Next, SenderStep, WaitTimesOut, WaitConfirmed, WaitCancelled,
     Decide, HandleFileAck, HandleFileNack, CancelTransfer, MarkSession, RetryFailedTransfer,
     HandleFileRequest, ReceiverStep, AskUser, Accept, RemovePendingTransfer, Confirm,
     HandleFileComplete, CancelReception, MarkReception, Lose, vars

(* ... while the receiver takes in what arrives, stores what it has taken   *)
(* in, and closes at an end.                                                *)
LEMMA ReceiverFollows ==
  TypeOK /\ NoSessionYet /\ [Next]_vars =>
    /\ NoSessionYet'
    /\ receiver.session = "removed" => receiver'.session = "removed"
    /\ receiver'.session = "removed" =>
         receiver.session = "removed" \/ (HandleFileComplete /\ Complete \in net)
    /\ \/ UNCHANGED <<receiver.held, receiver.chunks>>
       \/ \E i \in Indices :
            \/ /\ LookUpSession(i) /\ Chunk(i) \in net /\ receiver.session # "removed"
               /\ receiver'.held = receiver.held \cup {i} /\ receiver'.chunks = receiver.chunks
            \/ /\ StoreChunk(i) /\ i \in receiver.held /\ receiver'.held = receiver.held \ {i}
               /\ receiver'.chunks \in {receiver.chunks, receiver.chunks \cup {i}}
<1> DEFINE Follows ==
      /\ NoSessionYet'
      /\ receiver.session = "removed" => receiver'.session = "removed"
      /\ receiver'.session = "removed" =>
         receiver.session = "removed" \/ (HandleFileComplete /\ Complete \in net)
      /\ \/ UNCHANGED <<receiver.held, receiver.chunks>>
         \/ \E i \in Indices :
              \/ /\ LookUpSession(i) /\ Chunk(i) \in net /\ receiver.session # "removed"
                 /\ receiver'.held = receiver.held \cup {i} /\ receiver'.chunks = receiver.chunks
              \/ /\ StoreChunk(i) /\ i \in receiver.held /\ receiver'.held = receiver.held \ {i}
                 /\ receiver'.chunks \in {receiver.chunks, receiver.chunks \cup {i}}
<1> SUFFICES ASSUME TypeOK, NoSessionYet, [Next]_vars PROVE Follows
  OBVIOUS
<1>0. receiver \in ReceiverType
  BY DEF TypeOK
<1>1. CASE receiver' = receiver
  BY <1>1 DEF NoSessionYet
<1>2. CASE HandleFileRequest \/ AskUser \/ NoCallback \/ Refuse \/ SendAccepted \/ RemovePendingTransfer
  <2>1. /\ receiver'.session = receiver.session
        /\ receiver'.held = receiver.held /\ receiver'.chunks = receiver.chunks
    BY <1>0, <1>2 DEF HandleFileRequest, AskUser, NoCallback, Refuse, SendAccepted,
       RemovePendingTransfer, ReceiverType
  <2>2. receiver'.pc \in {"idle", "asking", "waiting"} => receiver.pc \in {"idle", "asking", "waiting"}
    BY <1>0, <1>2 DEF HandleFileRequest, AskUser, NoCallback, Refuse, SendAccepted,
       RemovePendingTransfer, ReceiverAt, ReceiverType
  <2>3. QED BY <2>1, <2>2 DEF NoSessionYet
<1>3. CASE Accept
  <2>1. /\ receiver.session = "none" /\ receiver'.session = "starting"
        /\ receiver'.pc = "accepting"
        /\ receiver'.held = receiver.held /\ receiver'.chunks = receiver.chunks
    BY <1>0, <1>3 DEF Accept, ReceiverAt, NoSessionYet, ReceiverType
  <2>2. QED BY <2>1 DEF NoSessionYet
<1>4. ASSUME NEW i \in Indices, LookUpSession(i) PROVE Follows
  <2>1. CASE HasSession
    <3>1. /\ receiver.session \notin {"none", "removed"} /\ receiver'.pc = receiver.pc
          /\ receiver'.session = "running" /\ Chunk(i) \in net
          /\ receiver'.held = receiver.held \cup {i} /\ receiver'.chunks = receiver.chunks
      BY <1>0, <1>4, <2>1 DEF LookUpSession, HasSession, ReceiverType
    <3>2. QED BY <1>4, <3>1 DEF NoSessionYet
  <2>2. CASE ~HasSession
    BY <1>1, <1>4, <2>2 DEF LookUpSession
  <2>3. QED BY <2>1, <2>2
<1>4a. ASSUME NEW i \in Indices, StoreChunk(i) PROVE Follows
  <2>1. /\ i \in receiver.held /\ receiver'.held = receiver.held \ {i}
        /\ receiver'.chunks \in {receiver.chunks, receiver.chunks \cup {i}}
        /\ receiver'.pc = receiver.pc
    BY <1>0, <1>4a DEF StoreChunk, ReceiverType
  <2>2. /\ receiver'.session = "removed" <=> receiver.session = "removed"
        /\ receiver.session = "none" => receiver'.session = "none"
    BY <1>0, <1>4a DEF StoreChunk, FoundSession, HasSession, ReceiverType
  <2>3. QED BY <1>4a, <2>1, <2>2 DEF NoSessionYet
<1>5. CASE HandleFileComplete
  <2>1. /\ receiver'.pc = receiver.pc /\ Complete \in net
        /\ receiver'.held = receiver.held /\ receiver'.chunks = receiver.chunks
        /\ receiver'.session = IF HasSession THEN "removed" ELSE receiver.session
    BY <1>0, <1>5 DEF HandleFileComplete, ReceiverType
  <2>2. QED BY <1>5, <2>1 DEF NoSessionYet, HasSession
<1>6. CASE CancelReception \/ MarkReception
  <2>1. /\ receiver'.pc = receiver.pc
        /\ receiver'.held = receiver.held /\ receiver'.chunks = receiver.chunks
        /\ receiver.session \notin {"none", "removed"}
        /\ receiver'.session \in {"canceled", "paused", "running"}
    BY <1>0, <1>6 DEF CancelReception, MarkReception, Marks, HasSession, ReceiverType
  <2>2. QED BY <2>1 DEF NoSessionYet
<1>7. QED
  BY <1>1, <1>2, <1>3, <1>4, <1>4a, <1>5, <1>6 DEF Next, SendFile, SenderStep, WaitTimesOut,
     WaitConfirmed, WaitCancelled, Decide, SendChunk, SendComplete, HandleFileAck, HandleFileNack,
     CancelTransfer, MarkSession, RetryFailedTransfer, ReceiverStep, Confirm, Lose, receiving, vars

(* The order is kept: what is sent is in order, and the receiver adds       *)
(* nothing of its own.                                                      *)
LEMMA OrderKept ==
  TypeOK /\ NoSessionYet /\ SentInOrder /\ [Next]_vars => (NoSessionYet /\ SentInOrder)'
<1> SUFFICES ASSUME TypeOK, NoSessionYet, SentInOrder, [Next]_vars
             PROVE  NoSessionYet' /\ SentInOrder'
  OBVIOUS
<1>1. NoSessionYet'
  BY ReceiverFollows
<1>2. sender.next \in Nat /\ sender'.next \in Nat /\ sender.next <= sender'.next
  BY SenderAdvances DEF TypeOK, SenderType
<1>3. ASSUME NEW i \in Indices, Chunk(i) \in net' \/ i \in receiver'.held \cup receiver'.chunks
      PROVE  i < sender'.next
  <2>1. CASE Chunk(i) \in net \/ i \in receiver.held \cup receiver.chunks
    BY <1>2, <2>1 DEF SentInOrder, Indices
  <2>2. CASE SendChunk /\ i = sender.next
    BY <1>2, <2>2 DEF SendChunk, TypeOK, SenderType
  <2>3. i \in receiver'.held \cup receiver'.chunks
          => Chunk(i) \in net \/ i \in receiver.held \cup receiver.chunks
    BY ReceiverFollows, MessagesAreMessages
  <2>4. QED BY <1>3, <2>1, <2>2, <2>3, SentOnlyInOrder
<1>4. ASSUME Complete \in net' \/ receiver'.session = "removed"
      PROVE  sender'.next = ChunkCount
  <2>1. sender.next = ChunkCount
    BY <1>4, SentOnlyInOrder, ReceiverFollows DEF SentInOrder
  <2>2. QED BY <2>1, SenderAdvances
<1>5. QED BY <1>1, <1>3, <1>4 DEF SentInOrder

(* The user is asked once and answers once.                                 *)
AskedOnce ==
  /\ confirm.request = "none" => confirm.user = "idle"
  /\ confirm.user \in {"idle", "asked"} => confirm.answer = "none"

(* What a step does to the user's answer and the confirmation's result.     *)
Question ==
  \/ confirm'.answer = confirm.answer /\ confirm'.result = confirm.result
  \/ /\ Confirm
     /\ confirm.answer = "none" /\ confirm'.answer \in Answers
     /\ confirm'.result = confirm.result
  \/ /\ Confirm
     /\ confirm.result = "none" /\ confirm'.answer = confirm.answer
     /\ \/ confirm'.result = "refuse"
        \/ confirm'.result = "accept" /\ confirm.answer = "accept"

LEMMA QuestionRefines ==
  TypeOK /\ AnswerIsTheUsers /\ AskedOnce /\ [Next]_vars => AskedOnce' /\ Question
<1> SUFFICES ASSUME TypeOK, AnswerIsTheUsers, AskedOnce, [Next]_vars PROVE AskedOnce' /\ Question
  OBVIOUS
<1>0. confirm \in ConfirmType
  BY DEF TypeOK
<1> USE DEF AnswerIsTheUsers, AskedOnce, Question, ConfirmType, Answers
<1>1. CASE UNCHANGED confirm
  BY <1>1
<1>2. CASE AskUser
  BY <1>0, <1>2 DEF AskUser, RequestUserConfirmation
<1>3. ASSUME NEW a \in Answers, OnFileTransferRequest(a), Confirm PROVE AskedOnce' /\ Question
  BY <1>0, <1>3 DEF OnFileTransferRequest
<1>4. CASE FindForResponse \/ SendResponse
  BY <1>0, <1>4 DEF FindForResponse, SendResponse, Open
<1>5. CASE TimerFires \/ SendTick
  BY <1>0, <1>5 DEF TimerFires, SendTick, Open
<1>6. CASE (TakeResponse \/ TakeTick) /\ Confirm
  BY <1>0, <1>6 DEF TakeResponse, TakeTick, Return, Open
<1>7. CASE Confirm
  BY <1>3, <1>4, <1>5, <1>6, <1>7 DEF Confirm, ConfirmStep
<1>8. UNCHANGED confirm \/ AskUser \/ Confirm
  BY DEF Next, SendFile, SenderStep, WaitTimesOut, WaitConfirmed, WaitCancelled, Decide, SendChunk,
     SendComplete, HandleFileAck, HandleFileNack, CancelTransfer, MarkSession, RetryFailedTransfer,
     HandleFileRequest, ReceiverStep, NoCallback, Accept, SendAccepted, Refuse,
     RemovePendingTransfer, LookUpSession, StoreChunk, HandleFileComplete, CancelReception, MarkReception,
     Lose, receiving, vars
<1>9. QED BY <1>1, <1>2, <1>7, <1>8

(* The refinement's invariant.                                              *)
RefinementInv == IInv /\ NoSessionYet /\ SentInOrder /\ AskedOnce

LEMMA RefinementInvariance == Spec => []RefinementInv
<1>1. Init => RefinementInv
  <2> SUFFICES ASSUME Init PROVE NoSessionYet /\ SentInOrder /\ AskedOnce
    BY InitIInv DEF RefinementInv
  <2>1. QED BY DEF Init, ConfirmInit, NoSessionYet, SentInOrder, AskedOnce
<1>2. RefinementInv /\ [Next]_vars => RefinementInv'
  BY NextIInv, OrderKept, QuestionRefines DEF RefinementInv, IInv
<1>3. QED BY <1>1, <1>2, PTL DEF Spec

(* Every step is one that the promise allows, or none of its concern.       *)
LEMMA StepRefines ==
  RefinementInv /\ [Next]_vars => [Promise!PromiseNext]_(Promise!promiseVars)
<1> DEFINE reported == IF transfer.state \in {"failed", "canceled"} THEN transfer.state ELSE "open"
           closed == receiver.session = "removed"
<1> SUFFICES ASSUME RefinementInv, [Next]_vars
             PROVE  Promise!PromiseNext \/ UNCHANGED Promise!promiseVars
  OBVIOUS
<1> USE DEF Promise!PromiseNext, Promise!promiseVars
<1>1. TypeOK /\ Question /\ SentInOrder /\ NoSessionYet
  BY QuestionRefines DEF RefinementInv, IInv
<1>2. CASE Confirm
  <2>1. UNCHANGED <<sender, transfer, receiver>>
    BY <1>2 DEF Confirm, sending
  <2>2. QED BY <1>1, <2>1 DEF Question, Answers, Promise!Say, Promise!Settle
<1>3. CASE SendChunk
  <2>1. UNCHANGED <<transfer, receiver, confirm>>
    BY <1>3 DEF SendChunk, receiving
  <2>2. sender.next < ChunkCount /\ sender'.next = sender.next + 1
    BY <1>1, <1>3 DEF SendChunk, TypeOK, SenderType
  <2>3. confirm.result = "accept"
    BY <1>3 DEF SendChunk, RefinementInv, IInv, ChunksFromAccepted, AcceptedFromSession,
       SessionFromConsent
  <2>4. QED BY <2>1, <2>2, <2>3 DEF Promise!SendNext
<1>4. ASSUME NEW i \in Indices, LookUpSession(i)
      PROVE  Promise!PromiseNext \/ UNCHANGED Promise!promiseVars
  <2>1. UNCHANGED <<sender, transfer, confirm>> /\ Chunk(i) \in net
    BY <1>4 DEF LookUpSession, sending
  <2>2. i \in 0..sender.next-1
    BY <1>1, <2>1 DEF SentInOrder, TypeOK, SenderType, Indices
  <2>3. \/ /\ ~closed /\ ~closed' /\ receiver'.chunks = receiver.chunks
           /\ receiver'.held = receiver.held \cup {i}
        \/ receiver' = receiver
    BY <1>1, <1>4 DEF LookUpSession, HasSession, TypeOK, ReceiverType
  <2>4. QED BY <2>1, <2>2, <2>3 DEF Promise!TakeIn
<1>4a. ASSUME NEW i \in Indices, StoreChunk(i)
      PROVE  Promise!PromiseNext \/ UNCHANGED Promise!promiseVars
  <2>1. UNCHANGED <<sender, transfer, confirm>> /\ i \in receiver.held
    BY <1>4a DEF StoreChunk, sending
  <2>2. /\ closed' = closed /\ receiver'.held = receiver.held \ {i}
        /\ receiver'.chunks \in {receiver.chunks, receiver.chunks \cup {i}}
    BY <1>1, <1>4a DEF StoreChunk, FoundSession, HasSession, TypeOK, ReceiverType
  <2>3. QED BY <2>1, <2>2 DEF Promise!Store
<1>5. CASE HandleFileComplete
  <2>1. /\ UNCHANGED <<sender, transfer, confirm>>
        /\ receiver'.held = receiver.held /\ receiver'.chunks = receiver.chunks
    BY <1>1, <1>5 DEF HandleFileComplete, sending, TypeOK, ReceiverType
  <2>2. closed => closed'
    BY <1>1, ReceiverFollows
  <2>3. sender.next = ChunkCount
    BY <1>1, <1>5 DEF HandleFileComplete, SentInOrder
  <2>4. QED BY <2>1, <2>2, <2>3 DEF Promise!Close
<1>6. ASSUME ~Confirm, ~SendChunk, ~HandleFileComplete,
             \A i \in Indices : ~LookUpSession(i) /\ ~StoreChunk(i)
      PROVE  Promise!PromiseNext \/ UNCHANGED Promise!promiseVars
  <2>1. sender'.next = sender.next
    BY <1>1, <1>6, SenderAdvances
  <2>2. receiver'.held = receiver.held /\ receiver'.chunks = receiver.chunks /\ closed' = closed
    BY <1>1, <1>6, ReceiverFollows
  <2>3. confirm'.answer = confirm.answer /\ confirm'.result = confirm.result
    BY <1>1, <1>6 DEF Question
  <2>4. reported' = reported \/ (reported # "canceled" /\ reported' \in {"failed", "canceled"})
    BY FinalStays DEF RefinementInv, IInv
  <2>5. QED BY <2>1, <2>2, <2>3, <2>4 DEF Promise!Report
<1>7. QED BY <1>2, <1>3, <1>4, <1>4a, <1>5, <1>6

(* Messages that are lost and overtake each other, timers, late answers,    *)
(* cancellations and retries show the users at both ends nothing that the   *)
(* promise does not allow.                                                  *)
THEOREM PromiseIsKept == Spec => Promised
<1>1. Init => Promise!PromiseInit
  BY DEF Init, ConfirmInit, Promise!PromiseInit
<1>2. QED
  BY <1>1, StepRefines, RefinementInvariance, PTL DEF Spec, Promised, Promise!PromiseSpec
=============================================================================
