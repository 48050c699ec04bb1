----------------------------- MODULE PeerQueues -----------------------------
(***************************************************************************)
(* The two queues of a peer (internal/pinecone/router/queuefifo.go and     *)
(* queuefairfifo.go) between the state actor, which pushes frames and      *)
(* resets the queues of a peer that has stopped, and the writer actor      *)
(* (peer.go, _write), which takes them.                                    *)
(*                                                                         *)
(* Both queues are made of Go channels under a mutex, but the writer holds *)
(* no mutex while it waits: pop() only tells it which channel to receive   *)
(* from, and what that channel was then is not what the queue is later.    *)
(* So channels have an identity here.  Those of the traffic queue are the  *)
(* pairs of a generation, which reset() makes new, and an index; those of  *)
(* the protocol queue are numbered as they are made.                       *)
(***************************************************************************)
EXTENDS Integers, Sequences, FiniteSets, SequencesExt

CONSTANTS
  Flow,        \* what a traffic frame is hashed by: its addresses
  Hash,        \* Hash[f] in 0..Num-1, for the offset of this queue
  Num,         \* how many queues the traffic is spread over
  QueueSize,   \* fairFIFOQueueSize
  MaxTraffic,  \* bound: traffic frames pushed per flow
  MaxProto     \* bound: protocol frames pushed

(* The code has 16.  A queue of one frame could be drained by the writer    *)
(* while push() is about to drop its only frame, which would block.         *)
ASSUME QueueAssumption ==
  /\ Num \in Nat \ {0} /\ QueueSize \in Nat \ {0, 1}
  /\ Hash \in [Flow -> 0..Num-1]
  /\ IsFiniteSet(Flow) /\ "proto" \notin Flow /\ MaxTraffic \in Nat /\ MaxProto \in Nat

VARIABLES
  life,     \* of the peer: "up", "stopped", "cancelled", "resetting", "gone"
  proto,    \* entries: the channels in the queue, made, and what each made yields
  traffic,  \* gen, chan: the frames per channel, count, n
  pushing,  \* the frame whose push is between the head drop and the send, or <<>>
  writer,   \* pc, the channels selected on, and the frame received
  pushed,   \* per flow, and for the protocol, how many frames were pushed
  wrote     \* per flow, and for the protocol, the last frame written

vars == <<life, proto, traffic, pushing, writer, pushed, wrote>>

Proto == "proto"

(* What a protocol channel yields before and after its frame is there: the  *)
(* receiver waits, or, since push() closes the channel, gets nil.           *)
Open == [of |-> "open", number |-> 0]
Nil == [of |-> "nil", number |-> 0]

TrafficFrames == [of : Flow, number : 1..MaxTraffic]
ProtoFrames == [of : {Proto}, number : 1..MaxProto]
Channels == (0..1) \X (0..Num)
Boxes == 1..(MaxProto + 3)

Unlocked == pushing = <<>>
Queue(i) == traffic.chan[<<traffic.gen, i>>]

Init ==
  /\ life = "up"
  /\ proto = [entries |-> <<1>>, box |-> [b \in Boxes |-> Open], made |-> 1]
  /\ traffic = [gen |-> 0, chan |-> [c \in Channels |-> <<>>], count |-> 0, n |-> 0]
  /\ pushing = <<>>
  /\ writer = [pc |-> "start", proto |-> 1, traffic |-> <<0, 0>>, frame |-> Nil]
  /\ pushed = [f \in Flow \cup {Proto} |-> 0]
  /\ wrote = [f \in Flow \cup {Proto} |-> 0]

----------------------------------------------------------------------------
(* The state actor.  It checks that the peer is started before it sends, so *)
(* it may push until it has cleaned up itself.                              *)
MayPush == life \in {"up", "stopped", "cancelled"} /\ Unlocked

PushProto ==
  /\ MayPush
  /\ pushed[Proto] < MaxProto
  /\ LET k == pushed[Proto] + 1
         new == proto.made + 1
     IN  /\ pushed' = [pushed EXCEPT ![Proto] = k]
         /\ proto' = [entries |-> Append(proto.entries, new),
                      box |-> [proto.box EXCEPT ![Last(proto.entries)] =
                                 [of |-> Proto, number |-> k]],
                      made |-> new]
  /\ UNCHANGED <<life, traffic, pushing, writer, wrote>>

(* Mutants: queue 0 is chosen whenever it is empty; it is never chosen.     *)
QueueForWhenEmpty(f) == IF Queue(0) = <<>> THEN 0 ELSE Hash[f] + 1
QueueForByHash(f) == Hash[f] + 1

(* The queue a frame of flow f goes to: 0 if nothing at all is queued.      *)
QueueFor(f) == IF traffic.count > 0 THEN Hash[f] + 1 ELSE 0

PushTraffic(f) ==
  /\ MayPush
  /\ pushed[f] < MaxTraffic
  /\ pushed' = [pushed EXCEPT ![f] = @ + 1]
  /\ LET frame == [of |-> f, number |-> pushed[f] + 1]
         i == QueueFor(f)
         c == <<traffic.gen, i>>
     IN  IF Len(Queue(i)) < QueueSize
         THEN /\ traffic' = [traffic EXCEPT !.chan[c] = Append(@, frame),
                                            !.count = @ + 1]
              /\ UNCHANGED pushing
         ELSE /\ pushing' = <<frame, i>>
              /\ UNCHANGED traffic
  /\ UNCHANGED <<life, proto, writer, wrote>>

(* The head drop, under the mutex; the writer may have received meanwhile.  *)
HeadDrop ==
  /\ ~Unlocked
  /\ LET c == <<traffic.gen, pushing[2]>>
         d == IF traffic.count - 1 = 0 THEN <<traffic.gen, 0>> ELSE c
         dropped == [traffic.chan EXCEPT ![c] = Tail(@)]
     IN  /\ traffic.chan[c] # <<>>
         /\ traffic' = [traffic EXCEPT !.chan = [dropped EXCEPT ![d] = Append(@, pushing[1])]]
  /\ pushing' = <<>>
  /\ UNCHANGED <<life, proto, writer, pushed, wrote>>

(* stop(): the started flag, then the context, then a task that resets one  *)
(* queue after the other.                                                   *)
Stop ==
  /\ life = "up"
  /\ life' = "stopped"
  /\ UNCHANGED <<proto, traffic, pushing, writer, pushed, wrote>>

Cancel ==
  /\ life = "stopped"
  /\ life' = "cancelled"
  /\ UNCHANGED <<proto, traffic, pushing, writer, pushed, wrote>>

(* The protocol queue with one new channel and no other.                    *)
Initialise(p) == [p EXCEPT !.entries = <<p.made + 1>>, !.made = p.made + 1]

ResetProto ==
  /\ life = "cancelled" /\ Unlocked
  /\ life' = "resetting"
  /\ proto' = Initialise([proto EXCEPT !.box = [b \in Boxes |->
       IF b \in Range(proto.entries) /\ proto.box[b] # Open THEN Nil
                                                            ELSE proto.box[b]]])
  /\ UNCHANGED <<traffic, pushing, writer, pushed, wrote>>

ResetTraffic ==
  /\ life = "resetting"
  /\ life' = "gone"
  /\ traffic' = [traffic EXCEPT !.gen = 1]
  /\ UNCHANGED <<proto, pushing, writer, pushed, wrote>>

----------------------------------------------------------------------------
(* The writer actor.                                                        *)
Started == life = "up"
ContextDone == life \in {"cancelled", "resetting", "gone"}

At(pc) == writer.pc = pc
GoTo(pc) == writer' = [writer EXCEPT !.pc = pc]

StartWrite ==
  /\ At("start")
  /\ GoTo(IF Started THEN "first" ELSE "done")
  /\ UNCHANGED <<life, proto, traffic, pushing, pushed, wrote>>

(* proto.pop(), for the first select and for the second.                    *)
PopProto ==
  /\ At("first") \/ At("second")
  /\ writer' = [writer EXCEPT !.proto = Head(proto.entries),
                              !.pc = IF At("first") THEN "poll" ELSE "third"]
  /\ UNCHANGED <<life, proto, traffic, pushing, pushed, wrote>>

(* traffic.pop().  The next queue after n that holds a frame, if any does.  *)
Waiting == { d \in 1..Num+1 : LET i == (traffic.n + d) % (Num + 1)
                              IN  i # 0 /\ Queue(i) # <<>> }
NextQueue == (traffic.n + Min(Waiting)) % (Num + 1)

PopDefined == traffic.count = 0 \/ Queue(0) # <<>> \/ Waiting # {}

PopTraffic ==
  /\ At("third") /\ Unlocked
  /\ IF traffic.count = 0 \/ Queue(0) # <<>>
     THEN /\ writer' = [writer EXCEPT !.pc = "wait", !.traffic = <<traffic.gen, 0>>]
          /\ UNCHANGED traffic
     ELSE /\ PopDefined
          /\ writer' = [writer EXCEPT !.pc = "wait", !.traffic = <<traffic.gen, NextQueue>>]
          /\ traffic' = [traffic EXCEPT !.n = NextQueue]
  /\ UNCHANGED <<life, proto, pushing, pushed, wrote>>

(* The panic of pop(), which ends the program.                              *)
Panic ==
  /\ At("third") /\ Unlocked
  /\ ~PopDefined
  /\ GoTo("panicked")
  /\ UNCHANGED <<life, proto, traffic, pushing, pushed, wrote>>

ProtoReady == proto.box[writer.proto] # Open
TrafficReady == traffic.chan[writer.traffic] # <<>>

(* Mutant: the selects do not look at the context.                          *)
GiveUpNever == FALSE /\ UNCHANGED vars

(* The cases of the selects.                                                *)
GiveUp ==
  /\ At("poll") \/ At("wait")
  /\ ContextDone
  /\ GoTo("done")
  /\ UNCHANGED <<life, proto, traffic, pushing, pushed, wrote>>

ReceiveProto ==
  /\ At("poll") \/ At("wait")
  /\ ProtoReady
  /\ writer' = [writer EXCEPT !.pc = "ackproto", !.frame = proto.box[writer.proto]]
  /\ proto' = [proto EXCEPT !.box[writer.proto] = Nil]
  /\ UNCHANGED <<life, traffic, pushing, pushed, wrote>>

PollDefault ==
  /\ At("poll")
  /\ ~ContextDone /\ ~ProtoReady
  /\ GoTo("second")
  /\ UNCHANGED <<life, proto, traffic, pushing, pushed, wrote>>

ReceiveTraffic ==
  /\ At("wait")
  /\ TrafficReady
  /\ writer' = [writer EXCEPT !.pc = "acktraffic", !.frame = Head(traffic.chan[writer.traffic])]
  /\ traffic' = [traffic EXCEPT !.chan[writer.traffic] = Tail(@)]
  /\ UNCHANGED <<life, proto, pushing, pushed, wrote>>

(* A keepalive after an interval in which no case was ready.                *)
Keepalive ==
  /\ At("wait")
  /\ ~ContextDone /\ ~ProtoReady /\ ~TrafficReady
  /\ GoTo("start")
  /\ UNCHANGED <<life, proto, traffic, pushing, pushed, wrote>>

(* Mutant: no new channel when the last one goes.                           *)
AfterAckLeavesNone(p) == [p EXCEPT !.entries = Tail(p.entries)]

(* The protocol queue without its first entry.                              *)
AfterAck(p) ==
  IF Len(p.entries) = 1 THEN Initialise(p) ELSE [p EXCEPT !.entries = Tail(p.entries)]

AckProto ==
  /\ At("ackproto")
  /\ proto' = AfterAck(proto)
  /\ GoTo("check")
  /\ UNCHANGED <<life, traffic, pushing, pushed, wrote>>

(* Mutant: the frame is not counted down.                                   *)
AckTrafficUncounted ==
  /\ At("acktraffic") /\ Unlocked
  /\ GoTo("check")
  /\ UNCHANGED <<life, proto, traffic, pushing, pushed, wrote>>

AckTraffic ==
  /\ At("acktraffic") /\ Unlocked
  /\ traffic' = [traffic EXCEPT !.count = @ - 1]
  /\ GoTo("check")
  /\ UNCHANGED <<life, proto, pushing, pushed, wrote>>

(* The frame is nil, or the peer has stopped, or writing fails ...          *)
WriteFails ==
  /\ At("check")
  /\ GoTo("done")
  /\ life' = IF Started THEN "stopped" ELSE life
  /\ UNCHANGED <<proto, traffic, pushing, pushed, wrote>>

(* ... or it succeeds, and the writer goes on if the peer is still up.      *)
Write ==
  /\ At("check")
  /\ Started /\ writer.frame # Nil
  /\ GoTo("start")
  /\ wrote' = [wrote EXCEPT ![writer.frame.of] = writer.frame.number]
  /\ UNCHANGED <<life, proto, traffic, pushing, pushed>>

WriterStep ==
  \/ StartWrite \/ PopProto \/ PollDefault \/ PopTraffic \/ Panic
  \/ GiveUp \/ ReceiveProto \/ ReceiveTraffic
  \/ AckProto \/ AckTraffic \/ WriteFails \/ Write

StateStep == HeadDrop \/ Cancel \/ ResetProto \/ ResetTraffic

Next ==
  \/ PushProto
  \/ \E f \in Flow : PushTraffic(f)
  \/ Stop
  \/ Keepalive
  \/ WriterStep
  \/ StateStep

(* The writer goes on while it can, whoever called stop() sees it through,  *)
(* and the state actor gets to the clean-up.                                *)
Spec == Init /\ [][Next]_vars /\ WF_vars(WriterStep) /\ WF_vars(StateStep)

----------------------------------------------------------------------------
TypeOK ==
  /\ life \in {"up", "stopped", "cancelled", "resetting", "gone"}
  /\ proto.box \in [Boxes -> ProtoFrames \cup {Open, Nil}]
  /\ proto.entries \in Seq(Boxes) \ {<<>>} /\ proto.made \in Boxes
  /\ traffic.gen \in 0..1 /\ traffic.n \in 0..Num
  /\ traffic.chan \in [Channels -> Seq(TrafficFrames)]
  /\ traffic.count \in 0..(MaxTraffic * Cardinality(Flow))
  /\ pushing = <<>> \/ pushing \in TrafficFrames \X (0..Num)
  /\ writer.pc \in {"start", "first", "poll", "second", "third", "wait",
                    "ackproto", "acktraffic", "check", "done", "panicked"}
  /\ writer.proto \in Boxes /\ writer.traffic \in Channels
  /\ writer.frame \in TrafficFrames \cup ProtoFrames \cup {Nil}
  /\ pushed \in [Flow \cup {Proto} -> Nat] /\ wrote \in [Flow \cup {Proto} -> Nat]

(* The places of the queues that hold a frame, and how many there are.      *)
Slots(gen) == UNION {{i} \X DOMAIN traffic.chan[<<gen, i>>] : i \in 0..Num}
Queued(gen) == Cardinality(Slots(gen))

(* count, which decides where the next frame goes, is the number of frames  *)
(* queued and of the one the writer has not acknowledged, head drops and    *)
(* receptions without the mutex included, as long as there was no reset.    *)
CountIsQueued ==
  traffic.gen = 0 =>
    traffic.count = Queued(0) + (IF At("acktraffic") THEN 1 ELSE 0)

(* The writer never sleeps on work: when it has chosen its channels and the *)
(* peer is up, any frame queued is on a channel it waits for.               *)
NeverSleepsOnWork ==
  At("wait") /\ Started =>
    /\ Len(proto.entries) > 1 => ProtoReady
    /\ Queued(traffic.gen) > 0 => TrafficReady

(* Protocol frames, whose order the tree relies on, are written in the      *)
(* order they were pushed and none is left out; the frames of one flow may  *)
(* be dropped when their queue is full but never overtake one another,      *)
(* although they pass through queue 0 or their own.                         *)
InOrder ==
  [][/\ wrote'[Proto] \in {wrote[Proto], wrote[Proto] + 1}
     /\ \A f \in Flow : wrote'[f] >= wrote[f]]_vars

(* "We shouldn't ever arrive here."                                         *)
NeverInvalidQueueState == ~At("panicked")

(* A stopped peer's writer comes to an end, even if by the panic.           *)
WriterEnds == ~Started ~> (At("done") \/ At("panicked"))

(* A frame in a queue gets out of it, unless the peer stops.                *)
QueuesDrain == (Queued(0) > 0 /\ Started) ~> (Queued(0) = 0 \/ ~Started)
=============================================================================
