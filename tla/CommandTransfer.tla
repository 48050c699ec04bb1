--------------------------- MODULE CommandTransfer ---------------------------
(***************************************************************************)
(* `file send` of cmd/file.go, several times in one session: the loop that *)
(* sends the chunks of a file and waits, and the goroutine each send       *)
(* starts to pick its acknowledgements out of the one message channel of   *)
(* the Pinecone service.  That goroutine is never stopped.                 *)
(*                                                                         *)
(* The other node acknowledges what it likes of what was sent, as often as *)
(* it likes: chunks are lost, sent again and acknowledged twice.  `file    *)
(* resume` is left out: nothing writes the progress file it needs.         *)
(***************************************************************************)
EXTENDS Integers, Sequences, FiniteSets

CONSTANTS TotalChunks,         \* totalChunks
          MaxSends,            \* bound: files sent in the session
          maxConcurrentChunks, \* the const of the source
          InboxSize            \* capacity of messageChannel

ASSUME CommandAssumption ==
  /\ TotalChunks \in Nat /\ MaxSends \in Nat
  /\ maxConcurrentChunks \in Nat /\ InboxSize \in Nat

Sends == 1..MaxSends
Index == 0..(TotalChunks - 1)
Request == -1                  \* the index that acknowledges a request
Ack == [send : Sends, index : Index \cup {Request}]
other == [send |-> 0, index |-> Request] \* a message that is no file_ack

VARIABLES sends,       \* sends begun; the last one is the one under way
          stage,       \* its place: idle, sending, waiting
          currentIdx, inflight, pendingChunks, ackMap, \* its locals
          onTheWire,   \* chunks handed to the network, of every send
          inbox,       \* PineconeService.messageChannel
          listening,   \* the sends whose goroutine waits for a message
          handing,     \* of each send: what its goroutine is putting in ackCh
          ackCh,       \* of each send
          completed    \* the sends that said they were complete

commandVars == <<sends, stage, currentIdx, inflight, pendingChunks, ackMap, onTheWire, inbox,
                 listening, handing, ackCh, completed>>
loopVars == <<sends, stage, currentIdx, inflight, pendingChunks, ackMap, onTheWire, completed>>
listenerVars == <<inbox, listening, handing, ackCh>>

CommandInit ==
  /\ sends = 0 /\ stage = "idle" /\ currentIdx = 0 /\ inflight = 0
  /\ pendingChunks = {} /\ ackMap = {} /\ onTheWire = {} /\ completed = {}
  /\ inbox = <<>> /\ listening = {}
  /\ handing = [s \in Sends |-> <<>>] /\ ackCh = [s \in Sends |-> <<>>]

(* the request goes out, the goroutine starts, the locals are fresh *)
SendFile ==
  /\ stage = "idle" /\ sends < MaxSends
  /\ sends' = sends + 1 /\ stage' = "sending"
  /\ currentIdx' = 0 /\ inflight' = 0 /\ pendingChunks' = {} /\ ackMap' = {}
  /\ listening' = listening \cup {sends + 1}
  /\ UNCHANGED <<onTheWire, completed, inbox, handing, ackCh>>

(* one turn of the inner loop *)
SendNext ==
  /\ stage = "sending" /\ currentIdx < TotalChunks /\ inflight < maxConcurrentChunks
  /\ IF currentIdx \in pendingChunks
       THEN UNCHANGED <<inflight, pendingChunks, onTheWire>>
       ELSE /\ pendingChunks' = pendingChunks \cup {currentIdx}
            /\ inflight' = inflight + 1
            /\ onTheWire' = onTheWire \cup {[send |-> sends, index |-> currentIdx]}
  /\ currentIdx' = currentIdx + 1
  /\ UNCHANGED <<sends, stage, ackMap, completed>> /\ UNCHANGED listenerVars

WindowIsFull ==
  /\ stage = "sending" /\ (currentIdx = TotalChunks \/ inflight >= maxConcurrentChunks)
  /\ stage' = "waiting"
  /\ UNCHANGED <<sends, currentIdx, inflight, pendingChunks, ackMap, onTheWire, completed>>
  /\ UNCHANGED listenerVars

(* after a wait: the outer loop once more, or the completion *)
GoesOn ==
  IF currentIdx < TotalChunks THEN stage' = "sending" /\ UNCHANGED completed
                         ELSE stage' = "idle" /\ completed' = completed \cup {sends}

CountAck(index) ==
  IF index \in pendingChunks
    THEN /\ inflight' = inflight - 1
         /\ pendingChunks' = pendingChunks \ {index} /\ ackMap' = ackMap \cup {index}
    ELSE UNCHANGED <<inflight, pendingChunks, ackMap>>

ReceiveAck ==
  /\ stage = "waiting" /\ ackCh[sends] # <<>>
  /\ CountAck(Head(ackCh[sends]))
  /\ ackCh' = [ackCh EXCEPT ![sends] = Tail(@)]
  /\ GoesOn
  /\ UNCHANGED <<sends, currentIdx, onTheWire, inbox, listening, handing>>

(* five seconds: every pending chunk goes out again *)
TimeOut ==
  /\ stage = "waiting"
  /\ onTheWire' = onTheWire \cup {[send |-> sends, index |-> i] : i \in pendingChunks}
  /\ GoesOn
  /\ UNCHANGED <<sends, currentIdx, inflight, pendingChunks, ackMap>> /\ UNCHANGED listenerVars

(* handleFileTransferPacket, handleMessagePacket: a message too many is dropped *)
MessageArrives(m) ==
  /\ m = other \/ m \in onTheWire \/ m \in [send : 1..sends, index : {Request}]
  /\ Len(inbox) < InboxSize
  /\ inbox' = Append(inbox, m)
  /\ UNCHANGED <<listening, handing, ackCh>> /\ UNCHANGED loopVars

(* the goroutine of a send takes the next message, whatever it is *)
Listen(s) ==
  LET m == Head(inbox) IN
  /\ s \in listening /\ inbox # <<>>
  /\ inbox' = Tail(inbox)
  /\ IF m.send = s
       THEN /\ listening' = listening \ {s}
            /\ handing' = [handing EXCEPT ![s] = <<m.index>>]
       ELSE UNCHANGED <<listening, handing>>
  /\ UNCHANGED ackCh /\ UNCHANGED loopVars

(* ackCh has room for one; the goroutine waits until there is room *)
HandAck(s) ==
  /\ handing[s] # <<>> /\ ackCh[s] = <<>>
  /\ ackCh' = [ackCh EXCEPT ![s] = handing[s]]
  /\ handing' = [handing EXCEPT ![s] = <<>>]
  /\ listening' = listening \cup {s}
  /\ UNCHANGED inbox /\ UNCHANGED loopVars

CommandNext ==
  \/ SendFile \/ SendNext \/ WindowIsFull \/ ReceiveAck \/ TimeOut
  \/ \E m \in Ack \cup {other} : MessageArrives(m)
  \/ \E s \in Sends : Listen(s) \/ HandAck(s)

CommandSpec == CommandInit /\ [][CommandNext]_commandVars

-----------------------------------------------------------------------------
CommandTypeOK ==
  /\ sends \in 0..MaxSends /\ stage \in {"idle", "sending", "waiting"}
  /\ currentIdx \in 0..TotalChunks /\ inflight \in 0..TotalChunks
  /\ pendingChunks \subseteq Index /\ ackMap \subseteq Index /\ onTheWire \subseteq Ack
  /\ inbox \in Seq(Ack \cup {other}) /\ listening \subseteq Sends
  /\ handing \in [Sends -> Seq(Int)] /\ ackCh \in [Sends -> Seq(Int)]
  /\ completed \subseteq Sends

(* No chunk is passed over and the window holds: what the loop is past is
   pending or acknowledged, never both, and no more than maxConcurrentChunks
   chunks wait, however often a chunk or the request is acknowledged and
   whichever goroutine takes the message (sendFileCmd). *)
WindowHolds ==
  stage # "idle" => /\ pendingChunks \cup ackMap = 0..(currentIdx - 1)
                 /\ pendingChunks \cap ackMap = {}
                 /\ Cardinality(pendingChunks) = inflight
                 /\ inflight <= maxConcurrentChunks

(* The command sends the chunks one by one and waits for the acknowledgement
   of each before it reports the file as sent (sendFileCmd). *)
CompletesAcknowledged == [][completed' # completed => ackMap' = Index]_commandVars
=============================================================================
