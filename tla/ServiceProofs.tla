---------------------------- MODULE ServiceProofs ----------------------------
(* Theorems about the message service and what a node keeps on record: the    *)
(* types of Messaging and the honesty of its double tick, then handlers,      *)
(* stored messages, accounts and stored files, for any nodes, workers, names, *)
(* messages, processes and sessions.                                          *)
EXTENDS Messaging, Handlers, ChatHistory, Accounts, FileStore, FiniteSetTheorems,
        SequenceTheorems, NaturalsInduction, TLAPS

Place == {"lock", "send", "save", "await", "answered", "end"}
Command == [kind : Kinds, by : Node, to : Node, at : Place]
Service == [running : BOOLEAN, cancelled : BOOLEAN, closed : BOOLEAN,
            stop : {"no", "locking", "cancelled", "stuck", "draining", "done"},
            receiver : {"none", "reading", "crashed"},
            queue : Seq(Frame), current : Int]
WorkerState == {Idle, Absent} \cup [at : {"handle", "reply"}, frame : Frame]

Types ==
  /\ wire \subseteq Frame
  /\ op \in Seq(Command) /\ Len(op) <= MaxOps
  /\ callbacks \subseteq OpId /\ pending \subseteq OpId
  /\ told \subseteq OpId /\ handled \subseteq OpId
  /\ stored \in [OpId -> {"none", "sent", "delivered"}]
  /\ svc \in [Node -> Service]
  /\ worker \in [Worker -> WorkerState]

-----------------------------------------------------------------------------
(* Types *)

LEMMA Assumptions ==
  /\ IsFiniteSet(Worker) /\ Hired \subseteq Worker /\ MaxOps \in Nat
  /\ \A w \in Worker : Home[w] \in Node
  /\ Kinds \subseteq {"text", "blank", "mixed", "user_info", "search", "ping"}
BY MessagingAssumption

LEMMA OpIds == Types => DOMAIN op \subseteq OpId
BY Assumptions DEF Types, OpId

(* A command that moves on stays the command it was.                         *)
LEMMA MoveCommand ==
  ASSUME op \in Seq(Command), NEW i \in DOMAIN op, NEW x \in Place,
         op' = [op EXCEPT ![i].at = x]
  PROVE  /\ op' \in Seq(Command) /\ Len(op') = Len(op) /\ DOMAIN op' = DOMAIN op
         /\ \A j \in DOMAIN op : op'[j].kind = op[j].kind
<1> DEFINE c == [op[i] EXCEPT !.at = x]
<1>1. op[i] \in Command
  BY ElementOfSeq
<1>2. c \in Command /\ c.kind = op[i].kind
  BY <1>1 DEF Command
<1>3. op' = [op EXCEPT ![i] = c]
  OBVIOUS
<1> HIDE DEF c
<1>4. op' \in Seq(Command) /\ Len(op') = Len(op) /\ DOMAIN op' = DOMAIN op
  BY <1>2, <1>3, ExceptSeq
<1>5. \A j \in DOMAIN op : op'[j] = IF j = i THEN c ELSE op[j]
  BY <1>3
<1> QED
  BY <1>2, <1>4, <1>5

LEMMA FrameOfCommand ==
  ASSUME Types, NEW i \in DOMAIN op
  PROVE  FrameOf(i) \in Frame
<1>1. op[i] \in Command
  BY ElementOfSeq DEF Types
<1>2. i \in OpId
  BY OpIds
<1> QED
  BY <1>1, <1>2, Assumptions DEF FrameOf, Frame, Command

LEMMA ReplyIsFrame == ASSUME NEW f \in Frame PROVE ReplyTo(f) \in Frame
BY DEF ReplyTo, Frame

LEMMA InitTypes == MessagingInit => Types
<1> SUFFICES ASSUME MessagingInit PROVE Types
  OBVIOUS
<1>1. \A n \in Node : Cardinality({w \in Hired : Home[w] = n}) \in Int
  <2>1. ASSUME NEW n \in Node PROVE Cardinality({w \in Hired : Home[w] = n}) \in Nat
    <3>1. {w \in Hired : Home[w] = n} \subseteq Worker
      BY Assumptions
    <3>2. IsFiniteSet({w \in Hired : Home[w] = n})
      BY <3>1, Assumptions, FS_Subset
    <3> QED
      BY <3>2, FS_CardinalityType
  <2> QED
    BY <2>1
<1>2. svc \in [Node -> Service]
  BY <1>1 DEF MessagingInit, Service
<1>3. op \in Seq(Command) /\ Len(op) <= MaxOps
  BY Assumptions DEF MessagingInit
<1>4. worker \in [Worker -> WorkerState]
  BY DEF MessagingInit, WorkerState
<1> QED
  BY <1>2, <1>3, <1>4 DEF MessagingInit, Types

LEMMA CommandTypes ==
  ASSUME Types, NEW i \in DOMAIN op,
         LockSearch(i) \/ Send(i) \/ SendFails(i) \/ Save(i) \/ PingReturns(i)
  PROVE  Types'
<1>1. PICK x \in Place : op' = [op EXCEPT ![i].at = x]
  BY DEF LockSearch, Send, SendFails, Save, PingReturns, Place
<1>2. op' \in Seq(Command) /\ Len(op') = Len(op)
  BY <1>1, MoveCommand DEF Types
<1>3. wire' \subseteq Frame
  BY FrameOfCommand DEF Types, LockSearch, Send, SendFails, Save, PingReturns, Transmit
<1>4. pending' \subseteq OpId /\ stored' \in [OpId -> {"none", "sent", "delivered"}]
  BY DEF Types, LockSearch, Send, SendFails, Save, PingReturns
<1>5. UNCHANGED <<callbacks, told, handled, svc, worker>>
  BY DEF LockSearch, Send, SendFails, Save, PingReturns
<1> QED
  BY <1>2, <1>3, <1>4, <1>5 DEF Types

LEMMA GiveTypes ==
  ASSUME Types, NEW n \in Node, NEW m \in Node, NEW k \in Kinds, Give(n, m, k)
  PROVE  Types'
<1> DEFINE c == [kind |-> k, by |-> n, to |-> m,
                 at |-> IF k = "search" THEN "lock" ELSE "send"]
<1>1. c \in Command
  BY DEF Command, Place
<1>2. op' = Append(op, c) /\ Len(op) < MaxOps
  BY DEF Give
<1> HIDE DEF c
<1>3. op' \in Seq(Command) /\ Len(op') <= MaxOps /\ Len(op) + 1 \in OpId
  BY <1>1, <1>2, Assumptions DEF Types, OpId
<1>4. callbacks' \subseteq OpId /\ pending' \subseteq OpId
  BY <1>3 DEF Give, Types
<1> QED
  BY <1>3, <1>4 DEF Give, Types

(* What a step may do to the queue and to the switches of a node.            *)
LEMMA ServiceTypes ==
  ASSUME Types, NEW n \in Node, NEW s \in Service, svc' = [svc EXCEPT ![n] = s],
         wire' \subseteq wire, UNCHANGED <<op, callbacks, pending, told, stored, handled>>,
         worker' \in [Worker -> WorkerState]
  PROVE  Types'
BY DEF Types

LEMMA WorkerTypes ==
  ASSUME Types, NEW w \in Worker, Handle(w) \/ Reply(w)
  PROVE  Types'
<1>1. worker[w] \in [at : {"handle", "reply"}, frame : Frame]
  BY DEF Handle, Reply, Types, WorkerState, Idle, Absent
<1>2. worker[w].frame \in Frame /\ worker[w].frame.id \in OpId
  BY <1>1 DEF Frame
<1>3. CASE Handle(w)
  <2> DEFINE f == worker[w].frame
  <2>1. /\ told' \subseteq OpId /\ callbacks' \subseteq OpId /\ handled' \subseteq OpId
        /\ stored' \in [OpId -> {"none", "sent", "delivered"}]
    BY <1>2, <1>3 DEF Handle, HandleAck, Types
  <2>2. worker' \in [Worker -> WorkerState]
    BY <1>2, <1>3 DEF Handle, Types, WorkerState
  <2>3. op' \in Seq(Command) /\ Len(op') = Len(op)
    <3>1. CASE op' = op
      BY <3>1 DEF Types
    <3>2. CASE op[f.id].at = "await" /\ op' = [op EXCEPT ![f.id].at = "answered"]
      <4>1. CASE f.id \in DOMAIN op
        BY <3>2, <4>1, MoveCommand DEF Types, Place
      <4>2. CASE f.id \notin DOMAIN op
        <5>1. op' = op
          BY <3>2, <4>2 DEF Types
        <5> QED
          BY <5>1 DEF Types
      <4> QED
        BY <4>1, <4>2
    <3> QED
      BY <1>3, <3>1, <3>2 DEF Handle, HandlePong
  <2> QED
    BY <1>3, <2>1, <2>2, <2>3 DEF Handle, Types
<1>4. CASE Reply(w)
  <2>1. wire' \subseteq Frame
    BY <1>2, <1>4, ReplyIsFrame DEF Reply, Transmit, Types
  <2>2. worker' \in [Worker -> WorkerState]
    BY <1>4 DEF Reply, Types, WorkerState
  <2> QED
    BY <1>4, <2>1, <2>2 DEF Reply, Types
<1> QED
  BY <1>3, <1>4

LEMMA ReceiveTypes == ASSUME Types, NEW f \in wire, Receive(f) PROVE Types'
<1> DEFINE n == f.to
           s == [svc[n] EXCEPT
                   !.receiver = IF svc[n].closed THEN "crashed"
                                ELSE IF svc[n].cancelled THEN "none" ELSE "reading",
                   !.queue = IF ~svc[n].closed /\ Len(svc[n].queue) < QueueSize
                             THEN Append(svc[n].queue, f) ELSE svc[n].queue]
<1>1. f \in Frame /\ n \in Node /\ svc[n] \in Service
  BY DEF Types, Frame
<1>2. svc[n].queue \in Seq(Frame) /\ Append(svc[n].queue, f) \in Seq(Frame)
  BY <1>1 DEF Service
<1>3. s \in Service
  BY <1>1, <1>2 DEF Service
<1>4. svc' = [svc EXCEPT ![n] = s]
  BY <1>1 DEF Receive, Types, Service
<1> HIDE DEF s
<1>5. wire' \subseteq wire /\ UNCHANGED <<op, callbacks, pending, told, stored, handled, worker>>
  BY DEF Receive
<1> QED
  BY <1>1, <1>3, <1>4, <1>5, ServiceTypes DEF Types

LEMMA WorkTypes == ASSUME Types, NEW w \in Worker, Work(w) PROVE Types'
<1> DEFINE n == Home[w]
           s == [svc[n] EXCEPT !.queue = Tail(svc[n].queue)]
<1>1. n \in Node /\ svc[n] \in Service
  BY Assumptions DEF Types
<1>2. svc[n].queue \in Seq(Frame) /\ svc[n].queue # <<>>
  BY <1>1 DEF Service, Work
<1>3. Tail(svc[n].queue) \in Seq(Frame) /\ Head(svc[n].queue) \in Frame
  BY <1>2
<1>4. s \in Service
  BY <1>1, <1>3 DEF Service
<1>5. svc' = [svc EXCEPT ![n] = s]
  BY DEF Work
<1>6. worker' \in [Worker -> WorkerState]
  BY <1>3 DEF Work, Types, WorkerState
<1> HIDE DEF s
<1> QED
  BY <1>1, <1>4, <1>5, <1>6, ServiceTypes DEF Work

(* The calls of a node change its switches and leave its queue.               *)
LEMMA NodeService ==
  ASSUME Types, NEW n \in Node,
         \/ ReceiverEnds(n) \/ Adjust(n) \/ Start(n) \/ RequestStop(n)
         \/ BeginStop(n) \/ ClosePool(n) \/ EndStop(n)
  PROVE  \E s \in Service : svc' = [svc EXCEPT ![n] = s] /\ s.queue = svc[n].queue
<1>0. svc[n] \in Service
  BY DEF Types
<1>1. CASE ReceiverEnds(n)
  <2> DEFINE s == [svc[n] EXCEPT !.receiver = "none"]
  <2>1. s \in Service /\ s.queue = svc[n].queue
    BY <1>0 DEF Service
  <2>2. svc' = [svc EXCEPT ![n] = s]
    BY <1>1 DEF ReceiverEnds, Types, Service
  <2> QED
    BY <2>1, <2>2
<1>2. CASE Adjust(n)
  <2> DEFINE s == [svc[n] EXCEPT !.current = svc[n].current + 1]
  <2>1. s \in Service /\ s.queue = svc[n].queue
    BY <1>0 DEF Service
  <2>2. svc' = [svc EXCEPT ![n] = s]
    BY <1>2 DEF Adjust
  <2> QED
    BY <2>1, <2>2
<1>3. CASE Start(n)
  <2> DEFINE s == [svc[n] EXCEPT !.running = TRUE,
                                 !.receiver = IF svc[n].cancelled THEN svc[n].receiver
                                              ELSE "reading"]
  <2>1. s \in Service /\ s.queue = svc[n].queue
    BY <1>0 DEF Service
  <2>2. svc' = [svc EXCEPT ![n] = s]
    BY <1>3 DEF Start, Types, Service
  <2> QED
    BY <2>1, <2>2
<1>4. CASE RequestStop(n)
  <2> DEFINE s == [svc[n] EXCEPT !.stop = "locking"]
  <2>1. s \in Service /\ s.queue = svc[n].queue
    BY <1>0 DEF Service
  <2>2. svc' = [svc EXCEPT ![n] = s]
    BY <1>4 DEF RequestStop, Types, Service
  <2> QED
    BY <2>1, <2>2
<1>5. CASE BeginStop(n)
  <2>1. PICK next \in {"cancelled", "stuck"} :
          svc' = [svc EXCEPT ![n].stop = next, ![n].cancelled = TRUE]
    BY <1>5 DEF BeginStop
  <2> DEFINE s == [svc[n] EXCEPT !.stop = next, !.cancelled = TRUE]
  <2>2. s \in Service /\ s.queue = svc[n].queue
    BY <1>0 DEF Service
  <2>3. svc' = [svc EXCEPT ![n] = s]
    BY <2>1 DEF Types, Service
  <2> QED
    BY <2>2, <2>3
<1>6. CASE ClosePool(n)
  <2> DEFINE s == [svc[n] EXCEPT !.stop = "draining", !.closed = TRUE,
                                 !.receiver = IF svc[n].closed THEN "crashed"
                                              ELSE svc[n].receiver]
  <2>1. s \in Service /\ s.queue = svc[n].queue
    BY <1>0 DEF Service
  <2>2. svc' = [svc EXCEPT ![n] = s]
    BY <1>6 DEF ClosePool, Types, Service
  <2> QED
    BY <2>1, <2>2
<1>7. CASE EndStop(n)
  <2> DEFINE s == [svc[n] EXCEPT !.stop = "done", !.running = FALSE]
  <2>1. s \in Service /\ s.queue = svc[n].queue
    BY <1>0 DEF Service
  <2>2. svc' = [svc EXCEPT ![n] = s]
    BY <1>7 DEF EndStop, Types, Service
  <2> QED
    BY <2>1, <2>2
<1> QED
  BY <1>1, <1>2, <1>3, <1>4, <1>5, <1>6, <1>7

LEMMA NodeTypes ==
  ASSUME Types, NEW n \in Node,
         \/ ReceiverEnds(n) \/ Adjust(n) \/ Start(n) \/ RequestStop(n)
         \/ BeginStop(n) \/ ClosePool(n) \/ EndStop(n)
  PROVE  Types'
<1>1. worker' \in [Worker -> WorkerState]
  BY DEF ReceiverEnds, Adjust, Start, RequestStop, BeginStop, ClosePool, EndStop, Types,
         WorkerState
<1>2. wire' \subseteq wire /\ UNCHANGED <<op, callbacks, pending, told, stored, handled>>
  BY DEF ReceiverEnds, Adjust, Start, RequestStop, BeginStop, ClosePool, EndStop
<1> QED
  BY <1>1, <1>2, NodeService, ServiceTypes

LEMMA ExitTypes == ASSUME Types, NEW w \in Worker, WorkerExits(w) PROVE Types'
<1>1. Home[w] \in Node /\ svc[Home[w]] \in Service
  BY Assumptions DEF Types
<1>2. [svc[Home[w]] EXCEPT !.current = @ - 1] \in Service
  BY <1>1 DEF Service
<1>3. worker' \in [Worker -> WorkerState]
  BY DEF WorkerExits, Types, WorkerState
<1> QED
  BY <1>1, <1>2, <1>3, ServiceTypes DEF WorkerExits

LEMMA NextTypes == Types /\ [MessagingNext]_messagingVars => Types'
<1> SUFFICES ASSUME Types, [MessagingNext]_messagingVars PROVE Types'
  OBVIOUS
<1>1. ASSUME NEW n \in Node, NEW m \in Node, NEW k \in Kinds, Give(n, m, k) PROVE Types'
  BY <1>1, GiveTypes
<1>2. ASSUME NEW i \in DOMAIN op,
             LockSearch(i) \/ Send(i) \/ SendFails(i) \/ Save(i) \/ PingReturns(i)
      PROVE  Types'
  BY <1>2, CommandTypes
<1>3. ASSUME NEW f \in wire, Lose(f) PROVE Types'
  BY <1>3 DEF Lose, Types
<1>4. ASSUME NEW f \in wire, Receive(f) PROVE Types'
  BY <1>4, ReceiveTypes
<1>5. ASSUME NEW w \in Worker, Work(w) \/ WorkerExits(w) \/ Handle(w) \/ Reply(w) PROVE Types'
  BY <1>5, WorkTypes, ExitTypes, WorkerTypes
<1>6. ASSUME NEW n \in Node,
             \/ ReceiverEnds(n) \/ Adjust(n) \/ Start(n) \/ RequestStop(n)
             \/ BeginStop(n) \/ ClosePool(n) \/ EndStop(n)
      PROVE  Types'
  BY <1>6, NodeTypes
<1>7. CASE UNCHANGED messagingVars
  BY <1>7 DEF messagingVars, Types
<1> QED
  BY <1>1, <1>2, <1>3, <1>4, <1>5, <1>6, <1>7 DEF MessagingNext

-----------------------------------------------------------------------------
(* Honesty *)

Carries(n, f) == \E k \in DOMAIN svc[n].queue : svc[n].queue[k] = f
Holds(w, f) == worker[w].at \in {"handle", "reply"} /\ worker[w].frame = f

(* Every frame there is: in flight, in a queue, or in the hands of a worker.  *)
InFlight == {f \in Frame : \/ f \in wire
                           \/ \E n \in Node : Carries(n, f)
                           \/ \E w \in Worker : Holds(w, f)}

(* An acknowledgement is of a text that its receiver accepted or of user      *)
(* information, which has no callback.                                       *)
Sound(f) ==
  /\ f.id \in DOMAIN op
  /\ f.kind = "user_info" => op[f.id].kind = "user_info"
  /\ f.kind = "ack" => f.id \in handled \/ op[f.id].kind = "user_info"

FramesSound == \A f \in InFlight : Sound(f)

(* A worker answers an accepted text, user information or a ping.            *)
RepliesSound ==
  \A w \in Worker : worker[w].at = "reply" =>
    /\ worker[w].frame.kind \in {"text", "user_info", "ping"}
    /\ worker[w].frame.kind = "text" => worker[w].frame.id \in handled

(* Only the commands that send a text wait for an acknowledgement.           *)
CallbacksSound ==
  \A i \in callbacks : i \in DOMAIN op /\ op[i].kind \in {"text", "blank", "mixed"}

Honest == FramesSound /\ RepliesSound /\ CallbacksSound /\ ToldMeansHandled

(* Commands stay what they are, and what was accepted stays accepted.        *)
Kept == /\ DOMAIN op \subseteq DOMAIN op'
        /\ \A i \in DOMAIN op : op'[i].kind = op[i].kind
        /\ handled \subseteq handled'

LEMMA InitHonest == MessagingInit => Honest
<1> SUFFICES ASSUME MessagingInit PROVE Honest
  OBVIOUS
<1>1. \A n \in Node : svc[n].queue = <<>>
  BY DEF MessagingInit
<1>2. \A n \in Node : \A f : ~Carries(n, f)
  BY <1>1 DEF Carries
<1>3. \A w \in Worker : worker[w].at = "absent"
  BY DEF MessagingInit, Absent
<1>4. InFlight = {}
  BY <1>2, <1>3 DEF MessagingInit, InFlight, Holds
<1> QED
  BY <1>3, <1>4 DEF MessagingInit, Honest, FramesSound, RepliesSound, CallbacksSound, ToldMeansHandled

(* A step that adds no frame but sound ones keeps all frames sound.          *)
LEMMA FramesStaySound ==
  ASSUME FramesSound, Kept, \A f \in InFlight' : f \in InFlight \/ Sound(f)'
  PROVE  FramesSound'
<1> SUFFICES ASSUME NEW f \in InFlight', f \in InFlight PROVE Sound(f)'
  BY DEF FramesSound
<1>1. Sound(f)
  BY DEF FramesSound
<1> QED
  BY <1>1 DEF Sound, Kept

(* A step that makes no callback keeps all of it, if the frames and answers   *)
(* that it adds are sound.                                                   *)
LEMMA StepHonest ==
  ASSUME Honest, Kept, callbacks' \subseteq callbacks, told' \subseteq handled',
         \A f \in InFlight' : f \in InFlight \/ Sound(f)',
         \A w \in Worker : worker'[w].at = "reply" =>
           \/ worker'[w] = worker[w]
           \/ /\ worker'[w].frame.kind \in {"text", "user_info", "ping"}
              /\ worker'[w].frame.kind = "text" => worker'[w].frame.id \in handled'
  PROVE  Honest'
<1>1. FramesSound'
  BY FramesStaySound DEF Honest
<1>2. RepliesSound'
  BY DEF Honest, RepliesSound, Kept
<1>3. CallbacksSound'
  BY DEF Honest, CallbacksSound, Kept
<1> QED
  BY <1>1, <1>2, <1>3 DEF Honest, ToldMeansHandled

(* The frames in queues and hands, when neither changes.                     *)
LEMMA OnlyTheWire ==
  ASSUME UNCHANGED <<svc, worker>>
  PROVE  \A f \in InFlight' : f \in InFlight \/ f \in wire'
BY DEF InFlight, Carries, Holds

LEMMA CommandHonest ==
  ASSUME Types, Honest, NEW i \in DOMAIN op,
         LockSearch(i) \/ Send(i) \/ SendFails(i) \/ Save(i) \/ PingReturns(i)
  PROVE  Honest'
<1>1. PICK x \in Place : op' = [op EXCEPT ![i].at = x]
  BY DEF LockSearch, Send, SendFails, Save, PingReturns, Place
<1>2. UNCHANGED <<callbacks, told, handled, svc, worker>>
  BY DEF LockSearch, Send, SendFails, Save, PingReturns
<1>3. Kept /\ DOMAIN op' = DOMAIN op
  BY <1>1, <1>2, MoveCommand DEF Types, Kept
<1>4. PICK f \in Frame : f = FrameOf(i)
  BY FrameOfCommand
<1>5. wire' \subseteq wire \cup {f}
  BY <1>4 DEF LockSearch, Send, SendFails, Save, PingReturns, Transmit
<1>6. Sound(f)'
  <2>1. op[i] \in Command
    BY ElementOfSeq DEF Types
  <2>2. f.id = i /\ f.kind = op[i].kind /\ op'[i].kind = op[i].kind
    BY <1>3, <1>4 DEF FrameOf, Kept
  <2>3. op[i].kind # "ack"
    BY <2>1, Assumptions DEF Command
  <2> QED
    BY <1>3, <2>2, <2>3 DEF Sound
<1>7. \A g \in InFlight' : g \in InFlight \/ Sound(g)'
  BY <1>2, <1>5, <1>6, OnlyTheWire DEF InFlight
<1> QED
  BY <1>2, <1>3, <1>7, StepHonest DEF Honest, ToldMeansHandled

LEMMA GiveHonest ==
  ASSUME Types, Honest, NEW n \in Node, NEW m \in Node, NEW k \in Kinds, Give(n, m, k)
  PROVE  Honest'
<1> DEFINE c == [kind |-> k, by |-> n, to |-> m,
                 at |-> IF k = "search" THEN "lock" ELSE "send"]
<1>1. op' = Append(op, c) /\ op \in Seq(Command) /\ c.kind = k
  BY DEF Give, Types
<1> HIDE DEF c
<1>2. /\ DOMAIN op' = DOMAIN op \cup {Len(op) + 1}
      /\ \A i \in DOMAIN op : op'[i] = op[i]
      /\ op'[Len(op) + 1] = c
  BY <1>1
<1>3. UNCHANGED <<wire, told, handled, svc, worker>>
  BY DEF Give
<1>4. Kept
  BY <1>2, <1>3 DEF Kept
<1>5. FramesSound'
  BY <1>3, <1>4, FramesStaySound DEF InFlight, Carries, Holds, Honest
<1>6. RepliesSound'
  BY <1>3 DEF Honest, RepliesSound
<1>7. CallbacksSound'
  BY <1>1, <1>2 DEF Give, Honest, CallbacksSound
<1> QED
  BY <1>3, <1>5, <1>6, <1>7 DEF Honest, ToldMeansHandled

LEMMA ReceiveHonest == ASSUME Types, Honest, NEW f \in wire, Receive(f) PROVE Honest'
<1> DEFINE n == f.to
<1>1. f \in Frame /\ n \in Node /\ svc[n] \in Service
  BY DEF Types, Frame
<1>2. svc[n].queue \in Seq(Frame)
  BY <1>1 DEF Service
<1>3. wire' \subseteq wire /\ UNCHANGED <<op, callbacks, told, handled, worker>>
  BY DEF Receive
<1>4. /\ svc'[n].queue \in {svc[n].queue, Append(svc[n].queue, f)}
      /\ \A m \in Node \ {n} : svc'[m].queue = svc[m].queue
  BY <1>1 DEF Receive, Types, Service
<1>5. \A m \in Node : \A g : Carries(m, g)' => Carries(m, g) \/ g = f
  <2> SUFFICES ASSUME NEW m \in Node, NEW g, Carries(m, g)' PROVE Carries(m, g) \/ g = f
    OBVIOUS
  <2>1. CASE svc'[m].queue = svc[m].queue
    BY <2>1 DEF Carries
  <2>2. CASE m = n /\ svc'[n].queue = Append(svc[n].queue, f)
    BY <1>2, <2>2 DEF Carries
  <2> QED
    BY <1>4, <2>1, <2>2
<1>6. \A g \in InFlight' : g \in InFlight
  BY <1>1, <1>3, <1>5 DEF InFlight, Holds
<1> QED
  BY <1>3, <1>6, StepHonest DEF Honest, ToldMeansHandled, Kept

LEMMA WorkHonest == ASSUME Types, Honest, NEW w \in Worker, Work(w) PROVE Honest'
<1> DEFINE n == Home[w]
<1>1. n \in Node /\ svc[n] \in Service
  BY Assumptions DEF Types
<1>2. svc[n].queue \in Seq(Frame) /\ svc[n].queue # <<>>
  BY <1>1 DEF Service, Work
<1>3. UNCHANGED <<wire, op, callbacks, told, handled>>
  BY DEF Work
<1>4. /\ svc'[n].queue = Tail(svc[n].queue)
      /\ \A m \in Node \ {n} : svc'[m].queue = svc[m].queue
  BY <1>1 DEF Work, Types, Service
<1>5. \A m \in Node : \A g : Carries(m, g)' => Carries(m, g)
  <2> SUFFICES ASSUME NEW m \in Node, NEW g, Carries(m, g)' PROVE Carries(m, g)
    OBVIOUS
  <2>1. CASE m # n
    BY <1>4, <2>1 DEF Carries
  <2>2. CASE m = n
    <3>1. PICK k \in DOMAIN Tail(svc[n].queue) : Tail(svc[n].queue)[k] = g
      BY <1>4, <2>2 DEF Carries
    <3>2. k + 1 \in DOMAIN svc[n].queue /\ svc[n].queue[k + 1] = g
      BY <1>2, <3>1
    <3> QED
      BY <2>2, <3>2 DEF Carries
  <2> QED
    BY <2>1, <2>2
<1>6. /\ worker'[w] = [at |-> "handle", frame |-> Head(svc[n].queue)]
      /\ \A v \in Worker \ {w} : worker'[v] = worker[v]
  BY DEF Work, Types
<1>7. \A v \in Worker : \A g : Holds(v, g)' => Holds(v, g) \/ Carries(n, g)
  <2>1. 1 \in DOMAIN svc[n].queue /\ Head(svc[n].queue) = svc[n].queue[1]
    BY <1>2
  <2> QED
    BY <1>6, <2>1 DEF Holds, Carries
<1>8. \A g \in InFlight' : g \in InFlight
  BY <1>1, <1>3, <1>5, <1>7 DEF InFlight
<1>9. \A v \in Worker : worker'[v].at = "reply" => worker'[v] = worker[v]
  BY <1>6
<1> QED
  BY <1>3, <1>8, <1>9, StepHonest DEF Honest, ToldMeansHandled, Kept

LEMMA ExitHonest == ASSUME Types, Honest, NEW w \in Worker, WorkerExits(w) PROVE Honest'
<1>1. UNCHANGED <<wire, op, callbacks, told, handled>>
  BY DEF WorkerExits
<1>2. \A n \in Node : svc'[n].queue = svc[n].queue
  BY DEF WorkerExits, Types, Service
<1>3. \A v \in Worker : worker'[v] = worker[v] \/ worker'[v].at = "absent"
  BY DEF WorkerExits, Types, Absent
<1>4. \A g \in InFlight' : g \in InFlight
  BY <1>1, <1>2, <1>3 DEF InFlight, Carries, Holds
<1> QED
  BY <1>1, <1>3, <1>4, StepHonest DEF Honest, ToldMeansHandled, Kept

LEMMA NodeHonest ==
  ASSUME Types, Honest, NEW n \in Node,
         \/ ReceiverEnds(n) \/ Adjust(n) \/ Start(n) \/ RequestStop(n)
         \/ BeginStop(n) \/ ClosePool(n) \/ EndStop(n)
  PROVE  Honest'
<1>1. UNCHANGED <<wire, op, callbacks, told, handled>>
  BY DEF ReceiverEnds, Adjust, Start, RequestStop, BeginStop, ClosePool, EndStop
<1>2. \A m \in Node : svc'[m].queue = svc[m].queue
  BY NodeService DEF Types
<1>3. \A v \in Worker : worker'[v] = worker[v] \/ worker'[v].at = "idle"
  BY DEF ReceiverEnds, Adjust, Start, RequestStop, BeginStop, ClosePool, EndStop, Types, Idle
<1>4. \A g \in InFlight' : g \in InFlight
  BY <1>1, <1>2, <1>3 DEF InFlight, Carries, Holds
<1> QED
  BY <1>1, <1>3, <1>4, StepHonest DEF Honest, ToldMeansHandled, Kept

LEMMA HandleHonest == ASSUME Types, Honest, NEW w \in Worker, Handle(w) PROVE Honest'
<1>1. PICK f \in Frame : f = worker[w].frame
  BY DEF Handle, Types, WorkerState, Idle, Absent
<1>2. f \in InFlight
  BY <1>1 DEF InFlight, Holds, Handle
<1>3. Sound(f)
  BY <1>2 DEF Honest, FramesSound
<1>4. handled' = IF Consistent(f) /\ AcceptsText(f) THEN handled \cup {f.id} ELSE handled
  BY <1>1 DEF Handle
<1>5. Kept
  <2>1. CASE op' = op
    BY <1>4, <2>1 DEF Kept
  <2>2. CASE op' = [op EXCEPT ![f.id].at = "answered"]
    BY <1>3, <1>4, <2>2, MoveCommand DEF Types, Kept, Place, Sound
  <2> QED
    BY <1>1, <2>1, <2>2 DEF Handle, HandlePong
<1>6. /\ worker'[w] = IF Answers(f) THEN [at |-> "reply", frame |-> f] ELSE Idle
      /\ \A v \in Worker \ {w} : worker'[v] = worker[v]
  BY <1>1 DEF Handle, Types
<1>7. worker'[w].at = "reply" =>
        /\ worker'[w].frame = f /\ f.kind \in {"text", "user_info", "ping"}
        /\ f.kind = "text" => f.id \in handled'
  BY <1>4, <1>6 DEF Answers, Consistent, AcceptsText, Idle
<1>8. \A g \in InFlight' : g \in InFlight
  <2>1. \A v \in Worker : \A g : Holds(v, g)' => Holds(v, g)
    BY <1>1, <1>6 DEF Holds, Handle, Idle
  <2>2. \A n \in Node : \A g : Carries(n, g)' => Carries(n, g)
    BY DEF Carries, Handle
  <2> QED
    BY <2>1, <2>2 DEF InFlight, Handle
<1>9. callbacks' \subseteq callbacks /\ told' \subseteq handled'
  <2>1. CASE f.kind = "ack" /\ f.id \in callbacks
    <3>1. f.id \in handled
      BY <1>3, <2>1 DEF Sound, Honest, CallbacksSound
    <3>2. told' = told \cup {f.id} /\ callbacks' = callbacks \ {f.id}
      BY <1>1, <2>1 DEF Handle, HandleAck
    <3> QED
      BY <1>4, <3>1, <3>2 DEF Honest, ToldMeansHandled
  <2>2. CASE ~(f.kind = "ack" /\ f.id \in callbacks)
    <3>1. UNCHANGED <<told, callbacks>>
      BY <1>1, <2>2 DEF Handle, HandleAck
    <3> QED
      BY <1>4, <3>1 DEF Honest, ToldMeansHandled
  <2> QED
    BY <2>1, <2>2
<1> QED
  BY <1>5, <1>6, <1>7, <1>8, <1>9, StepHonest

LEMMA ReplyHonest == ASSUME Types, Honest, NEW w \in Worker, Reply(w) PROVE Honest'
<1>1. PICK f \in Frame : f = worker[w].frame
  BY DEF Reply, Types, WorkerState, Idle, Absent
<1>2. f \in InFlight
  BY <1>1 DEF InFlight, Holds, Reply
<1>3. Sound(f)
  BY <1>2 DEF Honest, FramesSound
<1>4. f.kind \in {"text", "user_info", "ping"} /\ (f.kind = "text" => f.id \in handled)
  BY <1>1 DEF Honest, RepliesSound, Reply
<1>5. UNCHANGED <<op, callbacks, told, handled, svc>> /\ wire' \subseteq wire \cup {ReplyTo(f)}
  BY <1>1 DEF Reply, Transmit
<1>6. Sound(ReplyTo(f))'
  BY <1>3, <1>4, <1>5 DEF Sound, ReplyTo
<1>7. \A v \in Worker : worker'[v] = worker[v] \/ worker'[v].at = "idle"
  BY DEF Reply, Types, Idle
<1>8. \A g \in InFlight' : g \in InFlight \/ Sound(g)'
  <2>1. \A g \in InFlight' : g \in InFlight \/ g = ReplyTo(f)
    BY <1>5, <1>7 DEF InFlight, Carries, Holds
  <2> QED
    BY <1>6, <2>1
<1> QED
  BY <1>5, <1>7, <1>8, StepHonest DEF Honest, ToldMeansHandled, Kept

LEMMA NextHonest == Types /\ Honest /\ [MessagingNext]_messagingVars => Honest'
<1> SUFFICES ASSUME Types, Honest, [MessagingNext]_messagingVars PROVE Honest'
  OBVIOUS
<1>1. ASSUME NEW n \in Node, NEW m \in Node, NEW k \in Kinds, Give(n, m, k) PROVE Honest'
  BY <1>1, GiveHonest
<1>2. ASSUME NEW i \in DOMAIN op,
             LockSearch(i) \/ Send(i) \/ SendFails(i) \/ Save(i) \/ PingReturns(i)
      PROVE  Honest'
  BY <1>2, CommandHonest
<1>3. ASSUME NEW f \in wire, Lose(f) PROVE Honest'
  <2>1. InFlight' \subseteq InFlight /\ Kept
    BY <1>3 DEF Lose, InFlight, Carries, Holds, Kept
  <2> QED
    BY <1>3, <2>1, StepHonest DEF Lose, Honest, ToldMeansHandled
<1>4. ASSUME NEW f \in wire, Receive(f) PROVE Honest'
  BY <1>4, ReceiveHonest
<1>5. ASSUME NEW w \in Worker, Work(w) \/ WorkerExits(w) PROVE Honest'
  BY <1>5, WorkHonest, ExitHonest
<1>6. ASSUME NEW w \in Worker, Handle(w) \/ Reply(w) PROVE Honest'
  BY <1>6, HandleHonest, ReplyHonest
<1>7. ASSUME NEW n \in Node,
             \/ ReceiverEnds(n) \/ Adjust(n) \/ Start(n) \/ RequestStop(n)
             \/ BeginStop(n) \/ ClosePool(n) \/ EndStop(n)
      PROVE  Honest'
  BY <1>7, NodeHonest
<1>8. CASE UNCHANGED messagingVars
  <2>1. InFlight' = InFlight /\ Kept
    BY <1>8 DEF messagingVars, InFlight, Carries, Holds, Kept
  <2> QED
    BY <1>8, <2>1, StepHonest DEF messagingVars, Honest, ToldMeansHandled
<1> QED
  BY <1>1, <1>2, <1>3, <1>4, <1>5, <1>6, <1>7, <1>8 DEF MessagingNext

-----------------------------------------------------------------------------
(* Pings *)

(* An entry of pendingPings is kept for a ping, and a ping is never saved:    *)
(* only what drops its entry ends it.                                         *)
PingsWait ==
  \A i \in pending :
    i \in DOMAIN op /\ op[i].kind = "ping" /\ op[i].at \in {"send", "await", "answered"}

LEMMA PingsOpen == PingsWait => PendingPingIsOpen
BY DEF PingsWait, PendingPingIsOpen

LEMMA InitPings == MessagingInit => PingsWait
BY DEF MessagingInit, PingsWait

(* A command that goes to another place that a ping may have.                 *)
LEMMA PingMoves ==
  ASSUME Types, PingsWait, NEW i \in DOMAIN op, NEW x \in Place,
         op' = [op EXCEPT ![i].at = x], pending' \subseteq pending,
         i \in pending' => x \in {"send", "await", "answered"}
  PROVE  PingsWait'
<1>1. DOMAIN op' = DOMAIN op /\ \A j \in DOMAIN op : op'[j].kind = op[j].kind
  BY MoveCommand DEF Types
<1>2. op'[i].at = x /\ \A j \in DOMAIN op : j # i => op'[j] = op[j]
  <2>1. op[i] \in Command
    BY ElementOfSeq DEF Types
  <2>2. [op[i] EXCEPT !.at = x].at = x
    BY <2>1 DEF Command
  <2> QED
    BY <2>2
<1> QED
  BY <1>1, <1>2 DEF PingsWait

LEMMA NextPings == Types /\ PingsWait /\ [MessagingNext]_messagingVars => PingsWait'
<1> SUFFICES ASSUME Types, PingsWait, [MessagingNext]_messagingVars PROVE PingsWait'
  OBVIOUS
<1>1. ASSUME NEW n \in Node, NEW m \in Node, NEW k \in Kinds, Give(n, m, k) PROVE PingsWait'
  <2> DEFINE c == [kind |-> k, by |-> n, to |-> m, at |-> IF k = "search" THEN "lock" ELSE "send"]
  <2>1. op' = Append(op, c) /\ op \in Seq(Command) /\ c \in Command
    BY <1>1, Assumptions DEF Give, Types, Command, Place
  <2>2. k = "ping" => c.kind = "ping" /\ c.at = "send"
    OBVIOUS
  <2> HIDE DEF c
  <2>3. /\ Len(op) + 1 \in DOMAIN op' /\ op'[Len(op) + 1] = c
        /\ \A i \in DOMAIN op : i \in DOMAIN op' /\ op'[i] = op[i]
    BY <2>1
  <2>4. \A i \in pending' : i \in pending \/ (k = "ping" /\ i = Len(op) + 1)
    BY <1>1 DEF Give
  <2> QED
    BY <2>2, <2>3, <2>4 DEF PingsWait
<1>2. ASSUME NEW i \in DOMAIN op,
             LockSearch(i) \/ Send(i) \/ SendFails(i) \/ Save(i) \/ PingReturns(i)
      PROVE  PingsWait'
  <2>1. CASE LockSearch(i)
    <3>1. op' = [op EXCEPT ![i].at = "send"] /\ pending' = pending /\ "send" \in Place
      BY <2>1 DEF LockSearch, Place
    <3> QED
      BY <3>1, PingMoves
  <2>2. CASE Send(i)
    <3>1. PICK x \in Place : op' = [op EXCEPT ![i].at = x] /\ (op[i].kind = "ping" => x = "await")
      BY <2>2 DEF Send, Place
    <3>2. pending' = pending /\ (i \in pending => op[i].kind = "ping")
      BY <2>2 DEF Send, PingsWait
    <3> QED
      BY <3>1, <3>2, PingMoves
  <2>3. CASE SendFails(i) \/ PingReturns(i)
    <3>1. op' = [op EXCEPT ![i].at = "end"] /\ pending' = pending \ {i} /\ "end" \in Place
      BY <2>3 DEF SendFails, PingReturns, Place
    <3> QED
      BY <3>1, PingMoves
  <2>4. CASE Save(i)
    <3>1. op' = [op EXCEPT ![i].at = "end"] /\ pending' = pending /\ "end" \in Place /\ i \notin pending
      BY <2>4 DEF Save, Place, PingsWait
    <3> QED
      BY <3>1, PingMoves
  <2> QED
    BY <1>2, <2>1, <2>2, <2>3, <2>4
<1>3. ASSUME NEW w \in Worker, Handle(w) PROVE PingsWait'
  <2> DEFINE f == worker[w].frame
  <2>1. pending' = pending /\ (UNCHANGED op \/ HandlePong(f))
    BY <1>3 DEF Handle
  <2>2. CASE UNCHANGED op
    BY <2>1, <2>2 DEF PingsWait
  <2>3. CASE HandlePong(f) /\ ~UNCHANGED op
    <3>1. f.id \in pending /\ op' = [op EXCEPT ![f.id].at = "answered"] /\ "answered" \in Place
      BY <2>3 DEF HandlePong, Place
    <3> HIDE DEF f
    <3> QED
      BY <2>1, <3>1, PingMoves DEF PingsWait
  <2> QED
    BY <2>1, <2>2, <2>3
<1>4. CASE UNCHANGED <<op, pending>>
  BY <1>4 DEF PingsWait
<1>5. ASSUME NEW f \in wire, Lose(f) \/ Receive(f) PROVE UNCHANGED <<op, pending>>
  BY <1>5 DEF Lose, Receive
<1>6. ASSUME NEW w \in Worker, Work(w) \/ WorkerExits(w) \/ Reply(w)
      PROVE  UNCHANGED <<op, pending>>
  BY <1>6 DEF Work, WorkerExits, Reply
<1>7. ASSUME NEW n \in Node,
             \/ ReceiverEnds(n) \/ Adjust(n) \/ Start(n) \/ RequestStop(n)
             \/ BeginStop(n) \/ ClosePool(n) \/ EndStop(n)
      PROVE  UNCHANGED <<op, pending>>
  BY <1>7 DEF ReceiverEnds, Adjust, Start, RequestStop, BeginStop, ClosePool, EndStop
<1> QED
  BY <1>1, <1>2, <1>3, <1>4, <1>5, <1>6, <1>7 DEF MessagingNext, messagingVars

-----------------------------------------------------------------------------
(* Every reachable state has its type: what commands, handlers, the pool and  *)
(* Stop do to one another's state keeps it in form.                          *)
THEOREM MessagingTypes == MessagingSpec => []MessagingTypeOK
<1>1. Types => MessagingTypeOK
  BY DEF Types, MessagingTypeOK, Command, Place, Service, WorkerState
<1> QED
  BY <1>1, InitTypes, NextTypes, PTL DEF MessagingSpec

(* The double tick is honest: a sender that is told its text was delivered    *)
(* has a receiver whose text handler accepted it (AckMessageHandler,          *)
(* TextMessageHandler, handleMessagePacket), over a network that loses and    *)
(* reorders, with full queues, and through Stop and Start.                    *)
THEOREM DoubleTickIsHonest == MessagingSpec => []ToldMeansHandled
<1>1. MessagingInit => Types /\ Honest
  BY InitTypes, InitHonest
<1>2. Types /\ Honest /\ [MessagingNext]_messagingVars => (Types /\ Honest)'
  BY NextTypes, NextHonest
<1>3. Honest => ToldMeansHandled
  BY DEF Honest
<1> QED
  BY <1>1, <1>2, <1>3, PTL DEF MessagingSpec

-----------------------------------------------------------------------------
(* Handlers *)

(* The default handler can be replaced at any time, so a route that goes     *)
(* through it is not enough for an invariant: the handlers themselves are    *)
(* registered, and they stay so because an initialised integration has an    *)
(* initialised adapter, which passes on what is registered with it.          *)
Installed ==
  integrationUp => adapterUp /\ \A t \in Adapted : registered[t] # none

HandlersIInv == HandlersTypeOK /\ Installed

LEMMA HandlerIsOne ==
  ASSUME NEW t \in Type, NEW who \in {"service", "adapter", "caller"}
  PROVE  HandlerOf(who, t) \in Handler /\ HandlerOf(who, t) # none /\ HandlerOf(who, t).type = t
BY NoneIsNoHandler DEF HandlerOf, Handler

LEMMA InitHandlers == HandlersInit => HandlersIInv
<1> SUFFICES ASSUME HandlersInit PROVE HandlersIInv
  OBVIOUS
<1>1. BuiltIn \subseteq Type /\ FileType \subseteq Type
  BY DEF Type
<1>2. HandlersTypeOK
  BY <1>1, HandlerIsOne DEF HandlersInit, HandlersTypeOK
<1>3. Installed
  BY DEF HandlersInit, Installed
<1> QED
  BY <1>2, <1>3 DEF HandlersIInv

(* What RegisterHandler does with a handler: its type has one afterwards,    *)
(* and every type that had one keeps it.                                     *)
LEMMA RegisterHandlerRegisters ==
  ASSUME HandlersTypeOK, NEW t \in Type, NEW who \in {"service", "adapter", "caller"},
         RegisterHandler(HandlerOf(who, t))
  PROVE  /\ registered' \in [Type -> Handler \cup {none}]
         /\ initialized' \subseteq Handler
         /\ \A u \in Type : registered[u] # none => registered'[u] # none
         /\ registered'[t] # none
<1> DEFINE h == HandlerOf(who, t)
<1>1. h \in Handler /\ h # none /\ h.type = t
  BY HandlerIsOne
<1> HIDE DEF h
<1>2. RegisterHandler(h)
  BY DEF h
<1>3. CASE t \in Taken
  BY <1>1, <1>2, <1>3 DEF RegisterHandler, HandlersTypeOK, Taken
<1>4. CASE t \notin Taken
  BY <1>1, <1>2, <1>4 DEF RegisterHandler, HandlersTypeOK, Taken
<1> QED
  BY <1>3, <1>4

LEMMA InitializeIntegrationKeeps ==
  ASSUME HandlersIInv, InitializeIntegration PROVE HandlersIInv'
<1> USE DEF HandlersIInv, HandlersTypeOK
<1>1. PICK done \in SUBSET (Adapted \ Taken) :
        Registers(done) /\ adapterUp' = (done = Adapted)
  BY DEF InitializeIntegration, InitializeAdapter
<1>2. AdapterHandlers \subseteq Handler
  BY DEF AdapterHandlers, Adapted
<1>3. HandlersTypeOK'
  BY <1>1, <1>2 DEF InitializeIntegration, Registers, Adapted
<1>4. Installed'
  BY <1>1 DEF InitializeIntegration, Registers, Installed, Adapted
<1> QED
  BY <1>3, <1>4

LEMMA NextHandlers == HandlersIInv /\ [HandlersNext]_handlersVars => HandlersIInv'
<1> SUFFICES ASSUME HandlersIInv, [HandlersNext]_handlersVars PROVE HandlersIInv'
  OBVIOUS
<1>1. CASE InitializeIntegration
  BY <1>1, InitializeIntegrationKeeps
<1>2. CASE CleanupIntegration
  BY <1>2 DEF CleanupIntegration, CleanupAdapter, HandlersIInv, HandlersTypeOK, Installed, AdapterHandlers
<1>3. ASSUME NEW t \in Type, SetMessageHandler(t) PROVE HandlersIInv'
  <2>1. /\ registered' \in [Type -> Handler \cup {none}]
        /\ initialized' \subseteq Handler
        /\ \A u \in Type : registered[u] # none => registered'[u] # none
    BY <1>3, RegisterHandlerRegisters DEF SetMessageHandler, HandlersIInv
  <2> QED
    BY <1>3, <2>1 DEF SetMessageHandler, HandlersIInv, HandlersTypeOK, Installed, Adapted
<1>4. ASSUME NEW t \in Type, SetDefaultHandler(HandlerOf("caller", t)) PROVE HandlersIInv'
  BY <1>4, HandlerIsOne DEF SetDefaultHandler, HandlersIInv, HandlersTypeOK, Installed, Adapted
<1>5. ASSUME NEW t \in Type, RegisterWithAdapter(t) PROVE HandlersIInv'
  <2> DEFINE h == HandlerOf("caller", t)
  <2>1. h \in Handler /\ h # none
    BY HandlerIsOne
  <2> HIDE DEF h
  <2>2. /\ handlers' = [handlers EXCEPT ![t] = h]
        /\ IF adapterUp
             THEN /\ registered' = IF t \in Taken THEN registered ELSE [registered EXCEPT ![t] = h]
                  /\ initialized' = initialized \cup {h}
             ELSE UNCHANGED <<registered, initialized>>
        /\ UNCHANGED <<default, adapterUp, integrationUp, serviceUp>>
    BY <1>5 DEF RegisterWithAdapter, h
  <2>3. HandlersTypeOK'
    BY <2>1, <2>2 DEF HandlersIInv, HandlersTypeOK
  <2>4. ASSUME integrationUp', NEW u \in Adapted' PROVE registered'[u] # none
    <3>1. adapterUp /\ \A v \in Adapted : registered[v] # none
      BY <2>2, <2>4 DEF HandlersIInv, Installed
    <3>2. CASE u = t
      BY <1>5, <2>1, <2>2, <3>1, <3>2 DEF HandlersIInv, HandlersTypeOK, Taken
    <3>3. CASE u # t
      BY <1>5, <2>1, <2>2, <2>4, <3>1, <3>3 DEF HandlersIInv, HandlersTypeOK, Adapted
    <3> QED
      BY <3>2, <3>3
  <2> QED
    BY <2>2, <2>3, <2>4 DEF HandlersIInv, Installed
<1>6. ASSUME NEW t \in Type, UnregisterWithAdapter(t) PROVE HandlersIInv'
  BY <1>6 DEF UnregisterWithAdapter, HandlersIInv, HandlersTypeOK, Installed, Adapted
<1>7. CASE UNCHANGED handlersVars
  BY <1>7 DEF handlersVars, HandlersIInv, HandlersTypeOK, Installed, Adapted
<1> QED
  BY <1>1, <1>2, <1>3, <1>4, <1>5, <1>6, <1>7 DEF HandlersNext

(* The inductive invariant: an initialised integration has a handler with    *)
(* the dispatcher for every type of the adapter.                             *)
THEOREM HandlersInvariance == HandlersSpec => []HandlersIInv
BY InitHandlers, NextHandlers, PTL DEF HandlersSpec

(* When the integration says it is initialised, a message of every type of   *)
(* the adapter reaches a handler (FileTransferIntegration.Initialize,        *)
(* DispatchMessage).                                                         *)
THEOREM IntegrationRouted == HandlersSpec => []IntegratedIsRouted
<1>1. HandlersIInv => IntegratedIsRouted
  BY DEF HandlersIInv, Installed, IntegratedIsRouted, Route, Adapted
<1> QED
  BY <1>1, HandlersInvariance, PTL

-----------------------------------------------------------------------------
(* Chat history *)

(* A list of stored messages, each with its status.                          *)
IsStored(f) == f \in [DOMAIN f -> Status] /\ DOMAIN f \subseteq Id

(* Every message of one list is in the other, and delivered if it was.       *)
Within(old, new) ==
  /\ DOMAIN old \subseteq DOMAIN new
  /\ \A m \in DOMAIN old : old[m] = "delivered" => new[m] = "delivered"

ChatCommands == {NoCommand} \cup [at : {"sent", "adding", "confirming"}, id : Id]

ChatTypes ==
  /\ running \in BOOLEAN
  /\ IsStored(memory) /\ IsStored(kept) /\ (file # torn => IsStored(file))
  /\ command \in ChatCommands

(* What a complete file ever held is in memory while the program runs and in  *)
(* the file while it is whole.                                               *)
KeepsAll == /\ running => Within(kept, memory)
            /\ file # torn => Within(kept, file)

(* Storing a message overwrites none: the one the command is about to store   *)
(* is not stored yet.  A program that does not run has no command, and a      *)
(* command that writes the file has just stored its message.                 *)
StoresNew == /\ command.at = "sent" => command.id \notin DOMAIN memory
             /\ ~running => command = NoCommand
             /\ saving = "command" => command.at = "adding"

ChatIInv == ChatTypes /\ KeepsAll /\ StoresNew

(* The merge of two lists, one of which holds all of the other, is that one.  *)
LEMMA LaterOfWithin ==
  ASSUME NEW old, NEW new, IsStored(old), IsStored(new), Within(old, new)
  PROVE  Later(old, new) = new
<1>1. DOMAIN Later(old, new) = DOMAIN new
  BY DEF Later, Within
<1>2. \A m \in DOMAIN new : Later(old, new)[m] = new[m]
  BY DEF Later, Within
<1>3. Later(old, new) = [m \in DOMAIN new |-> Later(old, new)[m]]
  BY <1>1 DEF Later
<1>4. new = [m \in DOMAIN new |-> new[m]]
  BY DEF IsStored
<1> QED
  BY <1>2, <1>3, <1>4

(* The empty list is within every list.                                      *)
LEMMA NothingWithin ==
  /\ IsStored(NoMessages) /\ \A f : Within(NoMessages, f)
BY DEF NoMessages, IsStored, Within, Status

LEMMA InitChat == ChatInit => ChatIInv
<1> SUFFICES ASSUME ChatInit PROVE ChatIInv
  OBVIOUS
<1>1. ChatTypes
  BY NothingWithin DEF ChatInit, ChatTypes, ChatCommands
<1>2. KeepsAll
  BY NothingWithin DEF ChatInit, KeepsAll
<1>3. StoresNew
  BY DEF ChatInit, StoresNew, NoCommand
<1> QED
  BY <1>1, <1>2, <1>3 DEF ChatIInv

LEMMA AddMessageKeeps == ASSUME ChatIInv, AddMessage PROVE ChatIInv'
<1> DEFINE m == command.id
<1>1. m \in Id /\ m \notin DOMAIN memory /\ command'.at = "adding" /\ command' \in ChatCommands
  BY DEF AddMessage, ChatIInv, ChatTypes, ChatCommands, StoresNew, NoCommand
<1>2. /\ DOMAIN memory' = DOMAIN memory \cup {m}
      /\ memory'[m] = "sent" /\ \A n \in DOMAIN memory : memory'[n] = memory[n]
      /\ memory' = [n \in DOMAIN memory \cup {m} |-> memory'[n]]
  BY <1>1 DEF AddMessage, Added
<1>3. IsStored(memory')
  BY <1>1, <1>2 DEF ChatIInv, ChatTypes, IsStored, Status
<1>4. Within(kept, memory')
  BY <1>2 DEF AddMessage, ChatIInv, KeepsAll, Within
<1> QED
  BY <1>1, <1>3, <1>4 DEF AddMessage, BeginSave, ChatIInv, ChatTypes, KeepsAll, StoresNew

LEMMA EndSaveKeeps == ASSUME ChatIInv, EndSave PROVE ChatIInv'
<1>1. Later(kept, memory) = memory
  BY LaterOfWithin DEF EndSave, ChatIInv, ChatTypes, KeepsAll
<1>2. kept' = memory /\ file' = memory /\ memory' = memory /\ running' = running /\ running
  BY <1>1 DEF EndSave
<1>3. Within(memory, memory)
  BY DEF Within
<1>4. command' \in ChatCommands /\ (command'.at = "sent" => command' = command)
  <2>1. CASE saving = "command"
    <3>1. command \in [at : {"sent", "adding", "confirming"}, id : Id]
      BY <2>1 DEF ChatIInv, ChatTypes, ChatCommands, StoresNew, NoCommand
    <3> QED
      BY <2>1, <3>1 DEF EndSave, ChatCommands, NoCommand
  <2>2. CASE saving # "command"
    BY <2>2 DEF EndSave, ChatIInv, ChatTypes
  <2> QED
    BY <2>1, <2>2
<1>5. saving' = "nobody"
  BY DEF EndSave
<1> QED
  BY <1>2, <1>3, <1>4, <1>5 DEF ChatIInv, ChatTypes, KeepsAll, StoresNew

(* Marking a message as delivered keeps the list and what was delivered.     *)
LEMMA MarkKeeps ==
  ASSUME ChatIInv, NEW m \in Id, memory' = [memory EXCEPT ![m] = "delivered"],
         UNCHANGED <<running, kept>>, command' \in {command, NoCommand},
         file' \in {file, torn}, running, saving' # "command"
  PROVE  ChatIInv'
<1>1. IsStored(memory') /\ DOMAIN memory' = DOMAIN memory
  BY DEF ChatIInv, ChatTypes, IsStored, Status
<1>2. Within(kept, memory')
  BY DEF ChatIInv, ChatTypes, KeepsAll, Within, IsStored
<1> QED
  BY <1>1, <1>2 DEF ChatIInv, ChatTypes, KeepsAll, StoresNew, ChatCommands, NoCommand

LEMMA NextChat == ChatIInv /\ [ChatNext]_chatVars => ChatIInv'
<1> SUFFICES ASSUME ChatIInv, [ChatNext]_chatVars PROVE ChatIInv'
  OBVIOUS
<1>1. ASSUME NEW m \in Id, SendMessage(m) PROVE ChatIInv'
  BY <1>1 DEF SendMessage, ChatIInv, ChatTypes, ChatCommands, KeepsAll, StoresNew, NoCommand
<1>2. ASSUME NEW m \in Id, Acknowledged(m) PROVE ChatIInv'
  <2>1. CASE m \in DOMAIN memory
    BY <1>2, <2>1, MarkKeeps DEF Acknowledged, BeginSave
  <2>2. CASE m \notin DOMAIN memory
    BY <1>2, <2>2 DEF Acknowledged, ChatIInv, ChatTypes, KeepsAll, StoresNew
  <2> QED
    BY <2>1, <2>2
<1>3. CASE AddMessage
  BY <1>3, AddMessageKeeps
<1>4. CASE EndSave
  BY <1>4, EndSaveKeeps
<1>5. CASE Confirmed
  <2>1. command.id \in Id /\ saving # "command"
    BY <1>5 DEF Confirmed, ChatIInv, ChatTypes, ChatCommands, StoresNew, NoCommand
  <2> QED
    BY <1>5, <2>1, MarkKeeps DEF Confirmed
<1>6. CASE Unconfirmed
  BY <1>6 DEF Unconfirmed, ChatIInv, ChatTypes, ChatCommands, KeepsAll, StoresNew, NoCommand
<1>7. CASE End
  BY <1>7, NothingWithin DEF End, ChatIInv, ChatTypes, ChatCommands, KeepsAll, StoresNew, NoCommand
<1>8. CASE StartChat
  <2>1. command' = NoCommand
    BY <1>8 DEF StartChat, ChatIInv, StoresNew
  <2>2. CASE file = torn
    BY <1>8, <2>1, <2>2, NothingWithin
    DEF StartChat, ChatIInv, ChatTypes, ChatCommands, KeepsAll, StoresNew, NoCommand
  <2>3. CASE file # torn
    BY <1>8, <2>1, <2>3 DEF StartChat, ChatIInv, ChatTypes, ChatCommands, KeepsAll, StoresNew, NoCommand
  <2> QED
    BY <2>2, <2>3
<1>9. ASSUME UNCHANGED <<running, memory, file, saving, command, kept>> PROVE ChatIInv'
  BY <1>9 DEF ChatIInv, ChatTypes, KeepsAll, StoresNew
<1>10. ASSUME NEW m \in Id, SendMessageFails(m) PROVE ChatIInv'
  BY <1>9, <1>10 DEF SendMessageFails
<1>11. CASE UNCHANGED chatVars
  BY <1>9, <1>11 DEF chatVars
<1> QED
  BY <1>1, <1>2, <1>3, <1>4, <1>5, <1>6, <1>7, <1>8, <1>10, <1>11 DEF ChatNext

(* The history is lost by a torn write and by nothing else: what a complete   *)
(* messages.json ever held is in memory and in every later complete file, and *)
(* a delivered message stays delivered (AddMessage, MarkAsDelivered,          *)
(* saveMessages, loadMessages).                                              *)
THEOREM HistoryStays == ChatSpec => []HistoryIsKept
<1>1. ChatIInv => HistoryIsKept
  BY LaterOfWithin DEF ChatIInv, ChatTypes, KeepsAll, HistoryIsKept
<1> QED
  BY <1>1, InitChat, NextChat, PTL DEF ChatSpec

(* The rest of the types.                                                     *)
ChatSets ==
  /\ saving \in {"nobody", "command", "callback"}
  /\ flying \subseteq Id /\ acked \subseteq Id /\ failed \subseteq Id

LEMMA TypesAndSets == ChatIInv /\ ChatSets => ChatTypeOK
<1> SUFFICES ASSUME ChatIInv, ChatSets PROVE ChatTypeOK
  OBVIOUS
<1>1. \A f : IsStored(f) => f \in Stored
  BY DEF IsStored, Stored
<1>2. memory \in Stored /\ kept \in Stored /\ file \in Stored \cup {torn}
  BY <1>1 DEF ChatIInv, ChatTypes
<1>3. command = NoCommand \/ (command.at \in {"sent", "adding", "confirming"} /\ command.id \in Id)
  BY DEF ChatIInv, ChatTypes, ChatCommands
<1> QED
  BY <1>2, <1>3 DEF ChatTypeOK, ChatIInv, ChatTypes, ChatSets

LEMMA InitChatSets == ChatInit => ChatSets
BY DEF ChatInit, ChatSets

LEMMA NextChatSets == ChatSets /\ [ChatNext]_chatVars => ChatSets'
<1> SUFFICES ASSUME ChatSets, [ChatNext]_chatVars PROVE ChatSets'
  OBVIOUS
<1>1. ASSUME NEW m \in Id, SendMessage(m) \/ SendMessageFails(m) \/ Acknowledged(m)
      PROVE  ChatSets'
  BY <1>1 DEF SendMessage, SendMessageFails, Acknowledged, BeginSave, ChatSets
<1>2. CASE AddMessage \/ EndSave \/ Confirmed \/ Unconfirmed \/ End \/ StartChat
  BY <1>2 DEF AddMessage, BeginSave, EndSave, Confirmed, Unconfirmed, End, StartChat, ChatSets
<1>3. CASE UNCHANGED chatVars
  BY <1>3 DEF chatVars, ChatSets
<1> QED
  BY <1>1, <1>2, <1>3 DEF ChatNext

-----------------------------------------------------------------------------
(* Accounts *)

(* A process that is not running has selected nobody, so that the table it   *)
(* loads when it starts need not know the selection of an earlier one.       *)
OffIsNobody == \A p \in Process : phase[p] = "off" => current[p] = nobody

(* Between the login and the start of the network the decrypted public key   *)
(* of the current account belongs to its key pair: creating, selecting and   *)
(* deleting accounts, which would disturb that, are not possible there.      *)
StartingHasItsKey ==
  \A p \in Process : phase[p] = "starting" =>
    current[p] \in Name /\ plainKey[p][current[p]] = accounts[p][current[p]].key

AccountsIInv == AccountsTypeOK /\ IntroducesAKnownName /\ OffIsNobody /\ StartingHasItsKey

LEMMA NoKey == 0 \in 0..MaxKeys
<1>1. MaxKeys \in Nat
  BY AccountsAssumption
<1> QED
  BY <1>1

LEMMA NoAccountIsFile == NoAccount \in File \ {Unreadable} /\ Unreadable \in File
<1>1. NoAccount.password = nobody /\ Unreadable.password = "cut off"
  BY DEF NoAccount, Unreadable
<1>2. nobody # "cut off"
  BY AccountsAssumption
<1>3. NoAccount # Unreadable
  BY <1>1, <1>2
<1>4. NoAccount \in File /\ Unreadable \in File
  BY DEF File
<1> QED
  BY <1>3, <1>4

LEMMA KeyOfFile == ASSUME NEW f \in File PROVE f.key \in 0..MaxKeys
<1>1. MaxKeys \in Nat
  BY AccountsAssumption
<1>2. CASE f \in [key : 1..MaxKeys, password : Password]
  BY <1>1, <1>2
<1>3. NoAccount.key = 0 /\ Unreadable.key = 0
  BY DEF NoAccount, Unreadable
<1>4. CASE f = NoAccount \/ f = Unreadable
  BY <1>1, <1>3, <1>4
<1> QED
  BY <1>2, <1>4 DEF File

LEMMA NewAccountIsFile ==
  ASSUME keys \in 0..MaxKeys, keys < MaxKeys, NEW pw \in Password
  PROVE  /\ NewAccount(pw) \in File \ {Unreadable}
         /\ NewAccount(pw) # NoAccount
         /\ keys + 1 \in 0..MaxKeys
<1>1. MaxKeys \in Nat
  BY AccountsAssumption
<1>2. keys + 1 \in 1..MaxKeys /\ keys + 1 \in 0..MaxKeys /\ keys + 1 # 0
  BY <1>1
<1>3. NewAccount(pw).key = keys + 1 /\ NoAccount.key = 0 /\ Unreadable.key = 0
  BY DEF NewAccount, NoAccount, Unreadable
<1>4. NewAccount(pw) # NoAccount /\ NewAccount(pw) # Unreadable
  BY <1>2, <1>3
<1>5. NewAccount(pw) \in [key : 1..MaxKeys, password : Password]
  BY <1>2 DEF NewAccount
<1> QED
  BY <1>2, <1>4, <1>5 DEF File

LEMMA InitAccounts == AccountsInit => AccountsIInv
<1> SUFFICES ASSUME AccountsInit PROVE AccountsIInv
  OBVIOUS
<1>1. 0 \in 0..MaxKeys
  BY NoKey
<1>2. [u \in Name |-> NoAccount] \in [Name -> File \ {Unreadable}]
  BY NoAccountIsFile
<1>3. accountFile \in [Name -> File] /\ accounts \in [Process -> [Name -> File \ {Unreadable}]]
  BY <1>2 DEF AccountsInit
<1>4. AccountsTypeOK
  BY <1>1, <1>3 DEF AccountsInit, AccountsTypeOK
<1>5. IntroducesAKnownName /\ OffIsNobody /\ StartingHasItsKey
  BY DEF AccountsInit, IntroducesAKnownName, OffIsNobody, StartingHasItsKey
<1> QED
  BY <1>4, <1>5 DEF AccountsIInv

(* A process that ends holds nothing afterwards.                             *)
LEMMA EndProcessKeeps ==
  ASSUME AccountsIInv, NEW p \in Process, EndProcess(p),
         accountFile' \in [Name -> File], keys' \in 0..MaxKeys
  PROVE  AccountsIInv'
<1>1. AccountsTypeOK'
  <2>1. [u \in Name |-> NoAccount] \in [Name -> File \ {Unreadable}]
    BY NoAccountIsFile
  <2>2. accounts' \in [Process -> [Name -> File \ {Unreadable}]]
    BY <2>1 DEF AccountsIInv, EndProcess, AccountsTypeOK
  <2>3. 0 \in 0..MaxKeys
    BY NoKey
  <2>4. plainKey' \in [Process -> [Name -> 0..MaxKeys]]
    BY <2>3 DEF AccountsIInv, EndProcess, AccountsTypeOK
  <2>5. node' \in [Process -> [public : 0..MaxKeys, private : 0..MaxKeys]]
    BY <2>3 DEF AccountsIInv, EndProcess, AccountsTypeOK
  <2> QED
    BY <2>2, <2>4, <2>5 DEF AccountsIInv, EndProcess, AccountsTypeOK
<1>2. IntroducesAKnownName' /\ OffIsNobody' /\ StartingHasItsKey'
  BY DEF AccountsIInv, EndProcess, AccountsTypeOK, IntroducesAKnownName, OffIsNobody,
         StartingHasItsKey, Known
<1> QED
  BY <1>1, <1>2 DEF AccountsIInv

LEMMA CreateAccountKeeps ==
  ASSUME AccountsIInv, NEW p \in Process, NEW u \in Name, NEW pw \in Password,
         phase[p] \in {"login", "online", "command"}, CreateAccount(p, u, pw)
  PROVE  AccountsIInv'
<1> DEFINE new == NewAccount(pw)
<1>1. keys \in 0..MaxKeys /\ keys < MaxKeys
  BY DEF CreateAccount, AccountsIInv, AccountsTypeOK
<1>2. new \in File \ {Unreadable} /\ new # NoAccount /\ keys + 1 \in 0..MaxKeys
  BY <1>1, NewAccountIsFile
<1> HIDE DEF new
<1>3. CASE /\ accountFile' = [accountFile EXCEPT ![u] = new]
           /\ accounts' = [accounts EXCEPT ![p][u] = new]
           /\ plainKey' = [plainKey EXCEPT ![p][u] = 0]
           /\ current' = [current EXCEPT ![p] = u]
           /\ phase' = [phase EXCEPT ![p] = After(p)]
           /\ UNCHANGED node
  <2>1. keys' = keys + 1
    BY DEF CreateAccount
  <2>2. AccountsTypeOK'
    <3>1. 0 \in 0..MaxKeys
      BY NoKey
    <3>2. accountFile' \in [Name -> File] /\ accounts' \in [Process -> [Name -> File \ {Unreadable}]]
      BY <1>2, <1>3 DEF AccountsIInv, AccountsTypeOK
    <3>3. plainKey' \in [Process -> [Name -> 0..MaxKeys]]
      BY <1>3, <3>1 DEF AccountsIInv, AccountsTypeOK
    <3>4. phase' \in [Process -> {"off", "login", "starting", "online", "command", "done"}]
      BY <1>3 DEF AccountsIInv, AccountsTypeOK, After
    <3> QED
      BY <1>2, <1>3, <2>1, <3>2, <3>3, <3>4 DEF AccountsIInv, AccountsTypeOK
  <2>3. IntroducesAKnownName'
    BY <1>2, <1>3 DEF AccountsIInv, AccountsTypeOK, IntroducesAKnownName, Known
  <2>4. OffIsNobody' /\ StartingHasItsKey'
    BY <1>3 DEF AccountsIInv, AccountsTypeOK, OffIsNobody, StartingHasItsKey, After
  <2> QED
    BY <2>2, <2>3, <2>4 DEF AccountsIInv
<1>4. CASE accountFile' = [accountFile EXCEPT ![u] = Unreadable] /\ EndProcess(p)
  <2>1. accountFile' \in [Name -> File] /\ keys' \in 0..MaxKeys
    BY <1>2, <1>4, NoAccountIsFile DEF AccountsIInv, AccountsTypeOK, CreateAccount
  <2> QED
    BY <1>4, <2>1, EndProcessKeeps
<1> QED
  BY <1>3, <1>4 DEF CreateAccount, new

LEMMA LoginKeeps ==
  ASSUME AccountsIInv, NEW p \in Process, NEW u \in Name, NEW pw \in Password, Login(p, u, pw)
  PROVE  AccountsIInv'
<1>1. CASE Opens(p, u, pw)
  <2>1. /\ plainKey' = [plainKey EXCEPT ![p][u] = accounts[p][u].key]
        /\ current' = [current EXCEPT ![p] = u]
        /\ phase' = [phase EXCEPT ![p] = "starting"]
        /\ UNCHANGED <<accounts, node, accountFile, keys>>
    BY <1>1 DEF Login, LogsIn, SetCurrentAccountWithPassword
  <2>2. accounts[p][u] \in File
    BY DEF AccountsIInv, AccountsTypeOK
  <2>3. accounts[p][u].key \in 0..MaxKeys
    BY <2>2, KeyOfFile
  <2>4. AccountsTypeOK'
    BY <2>1, <2>3 DEF AccountsIInv, AccountsTypeOK
  <2>5. IntroducesAKnownName'
    BY <2>1 DEF AccountsIInv, AccountsTypeOK, IntroducesAKnownName, Known, Login, LogsIn
  <2>6. OffIsNobody' /\ StartingHasItsKey'
    BY <2>1 DEF AccountsIInv, AccountsTypeOK, OffIsNobody, StartingHasItsKey
  <2> QED
    BY <2>4, <2>5, <2>6 DEF AccountsIInv
<1>2. CASE ~Opens(p, u, pw)
  BY <1>2, EndProcessKeeps DEF Login, LogsIn, AccountsIInv, AccountsTypeOK
<1> QED
  BY <1>1, <1>2

LEMMA NextAccounts == AccountsIInv /\ [AccountsNext]_accountsVars => AccountsIInv'
<1> SUFFICES ASSUME AccountsIInv, [AccountsNext]_accountsVars PROVE AccountsIInv'
  OBVIOUS
<1>1. ASSUME NEW p \in Process, NEW as \in {"login", "command"}, Launch(p, as) PROVE AccountsIInv'
  <2>1. current[p] = nobody
    BY <1>1 DEF Launch, LoadedAccounts, AccountsIInv, OffIsNobody
  <2>2. AccountsTypeOK'
    BY <1>1, NoAccountIsFile DEF Launch, LoadedAccounts, AccountsIInv, AccountsTypeOK
  <2>3. IntroducesAKnownName'
    BY <1>1, <2>1 DEF Launch, LoadedAccounts, AccountsIInv, AccountsTypeOK, IntroducesAKnownName, Known
  <2>4. OffIsNobody' /\ StartingHasItsKey'
    BY <1>1 DEF Launch, LoadedAccounts, AccountsIInv, AccountsTypeOK, OffIsNobody, StartingHasItsKey
  <2> QED
    BY <2>2, <2>3, <2>4 DEF AccountsIInv
<1>2. ASSUME NEW p \in Process, Exit(p) PROVE AccountsIInv'
  BY <1>2, EndProcessKeeps DEF Exit, AccountsIInv, AccountsTypeOK
<1>3. ASSUME NEW p \in Process, InitializeNetwork(p) PROVE AccountsIInv'
  <2>1. current[p] \in Name /\ plainKey[p][current[p]] = accounts[p][current[p]].key
    BY <1>3 DEF InitializeNetwork, AccountsIInv, StartingHasItsKey
  <2>2. plainKey[p][current[p]] \in 0..MaxKeys
    BY <2>1 DEF AccountsIInv, AccountsTypeOK
  <2>3. AccountsTypeOK'
    BY <1>3, <2>1, <2>2 DEF InitializeNetwork, AccountsIInv, AccountsTypeOK
  <2>4. IntroducesAKnownName'
    BY <1>3, <2>1 DEF InitializeNetwork, AccountsIInv, AccountsTypeOK, IntroducesAKnownName, Known
  <2>5. OffIsNobody' /\ StartingHasItsKey'
    BY <1>3 DEF InitializeNetwork, AccountsIInv, AccountsTypeOK, OffIsNobody, StartingHasItsKey
  <2> QED
    BY <2>3, <2>4, <2>5 DEF AccountsIInv
<1>4. ASSUME NEW p \in Process, NEW u \in Name, SelectAccount(p, u) PROVE AccountsIInv'
  BY <1>4 DEF SelectAccount, Commanding, After, AccountsIInv, AccountsTypeOK, IntroducesAKnownName,
              OffIsNobody, StartingHasItsKey, Known
<1>5. ASSUME NEW p \in Process, NEW u \in Name, HandleDeleteAccount(p, u) PROVE AccountsIInv'
  <2>1. accountFile' \in [Name -> File]
    BY <1>5, NoAccountIsFile DEF HandleDeleteAccount, DeleteAccount, AccountsIInv, AccountsTypeOK
  <2>2. AccountsTypeOK'
    <3>1. 0 \in 0..MaxKeys
      BY NoKey
    <3>2. accounts' \in [Process -> [Name -> File \ {Unreadable}]]
      BY <1>5, NoAccountIsFile DEF HandleDeleteAccount, DeleteAccount, Forget, AccountsIInv, AccountsTypeOK
    <3>3. plainKey' \in [Process -> [Name -> 0..MaxKeys]]
      BY <1>5, <3>1 DEF HandleDeleteAccount, DeleteAccount, Forget, AccountsIInv, AccountsTypeOK
    <3>4. phase' \in [Process -> {"off", "login", "starting", "online", "command", "done"}]
      BY <1>5 DEF HandleDeleteAccount, DeleteAccount, AccountsIInv, AccountsTypeOK, After
    <3>5. current' \in [Process -> Name \cup {nobody}]
      BY <1>5 DEF HandleDeleteAccount, DeleteAccount, Forget, AccountsIInv, AccountsTypeOK
    <3> QED
      BY <1>5, <2>1, <3>2, <3>3, <3>4, <3>5 DEF HandleDeleteAccount, DeleteAccount, AccountsIInv, AccountsTypeOK
  <2>3. IntroducesAKnownName'
    BY <1>5 DEF HandleDeleteAccount, DeleteAccount, Forget, AccountsIInv, AccountsTypeOK, IntroducesAKnownName, Known
  <2>4. OffIsNobody' /\ StartingHasItsKey'
    BY <1>5 DEF HandleDeleteAccount, DeleteAccount, Forget, Commanding, After, AccountsIInv, AccountsTypeOK, OffIsNobody,
                StartingHasItsKey
  <2> QED
    BY <2>2, <2>3, <2>4 DEF AccountsIInv
<1>6. ASSUME NEW p \in Process, NEW u \in Name, NEW pw \in Password,
             CreateNewAccount(p, u, pw) \/ HandleCreateAccount(p, u, pw)
      PROVE  AccountsIInv'
  BY <1>6, CreateAccountKeeps DEF CreateNewAccount, LogsIn, HandleCreateAccount, Commanding
<1>7. ASSUME NEW p \in Process, NEW u \in Name, NEW pw \in Password, Login(p, u, pw) PROVE AccountsIInv'
  BY <1>7, LoginKeeps
<1>8. CASE UNCHANGED accountsVars
  BY <1>8 DEF accountsVars, AccountsIInv, AccountsTypeOK, IntroducesAKnownName, OffIsNobody,
              StartingHasItsKey, Known
<1> QED
  BY <1>1, <1>2, <1>3, <1>4, <1>5, <1>6, <1>7, <1>8 DEF AccountsNext

(* The inductive invariant: selections are known to the process that made    *)
(* them, and the keys of a node are one pair.                                *)
THEOREM AccountsInvariance == AccountsSpec => []AccountsIInv
BY InitAccounts, NextAccounts, PTL DEF AccountsSpec

(* What a node tells of itself is a name its table still has, or no name,    *)
(* and the public key of the private key it signs with.                      *)
THEOREM KnownNameIntroduced == AccountsSpec => []IntroducesAKnownName
BY AccountsInvariance, PTL DEF AccountsIInv

-----------------------------------------------------------------------------
(* Stored files *)

LEMMA LeastExists ==
  ASSUME NEW S \in SUBSET Nat, S # {} PROVE \E x \in S : \A y \in S : x <= y
<1>1. PICK x \in S : \A y \in S : ~(<<y, x>> \in OpToRel(<, Nat))
  BY NatLessThanWellFounded, WFMin
<1>2. \A y \in S : ~(y < x)
  BY <1>1 DEF OpToRel
<1> QED
  BY <1>2

LEMMA LeastIsMin ==
  ASSUME NEW S \in SUBSET Nat, S # {} PROVE Min(S) \in S /\ \A y \in S : Min(S) <= y
BY LeastExists DEF Min

(* Types, whole files, and a saved table that lists no more than the one in   *)
(* memory, so that a restart lists nothing that was not listed.               *)
StoreIInv ==
  /\ FileStoreTypeOK /\ FilesAreWhole
  /\ \A n \in Names : savedFiles[n] # NoFile => files[n] # NoFile

LEMMA StoreAssumptions ==
  /\ Total \in Nat \ {0} /\ MaxExtra \in Nat /\ MaxCrashes \in Nat /\ NameCount \in Nat \ {0}
  /\ OriginalName \in Names
  /\ "user" \notin Session /\ "nobody" \notin Session
BY FileStoreAssumption DEF OriginalName, Names

LEMMA StoreValues ==
  /\ NoFile \in FileContent /\ NoFile.from \notin Session
  /\ Saved \in FileContent /\ Saved.data = "right" /\ Saved # NoFile
  /\ [Saved EXCEPT !.data = "wrong"] \in FileContent 
  /\ [Saved EXCEPT !.data = "wrong"].from \notin Session
  /\ NoSession \in Table /\ [NoSession EXCEPT !.status = "active"] \in Table
  /\ EmptyCache \in [Session -> [Part -> {"none", "right", "wrong"}]]
BY StoreAssumptions DEF NoFile, Saved, FileContent, NoSession, Table, EmptyCache

LEMMA UniqueNameIsUnlisted == UniqueName \in Names => files[UniqueName] = NoFile
<1> DEFINE S == {n \in Names : files[n] = NoFile} \cup {NameCount + 1}
<1>1. S \in SUBSET Nat /\ S # {} /\ NameCount + 1 \notin Names
  BY StoreAssumptions DEF Names
<1>2. Min(S) \in S
  BY <1>1, LeastIsMin
<1> QED
  BY <1>1, <1>2 DEF UniqueName

LEMMA InitStore == FileStoreInit => StoreIInv
<1> SUFFICES ASSUME FileStoreInit PROVE StoreIInv
  OBVIOUS
<1>1. /\ sessions = [s \in Session |-> NoSession] /\ savedSessions = sessions
      /\ files = [n \in Names |-> NoFile] /\ savedFiles = files /\ onDisk = files
      /\ cache = EmptyCache /\ crashes = 0
  BY DEF FileStoreInit
<1>2. crashes \in 0..MaxCrashes
  BY <1>1, StoreAssumptions
<1> QED
  BY <1>1, <1>2, StoreValues DEF StoreIInv, FileStoreTypeOK, FilesAreWhole

(* One more chunk of a session, and the assembly it may lead to.              *)
LEMMA SaveFileChunkKeeps ==
  ASSUME StoreIInv, NEW s \in Session, NEW i \in Part, NEW d \in {"right", "wrong"},
         SaveFileChunk(s, i, d)
  PROVE  StoreIInv'
<1> DEFINE session == sessions[s]
           seen == session.seen \cup {i}
           data == [cache[s] EXCEPT ![i] = d]
           count == session.received + 1
           full == count >= Total
           status == IF full THEN "completed" ELSE session.status
<1>1. session \in Table
  BY DEF StoreIInv, FileStoreTypeOK
<1>2. /\ session.status # "none" /\ count <= Total + MaxExtra
      /\ sessions' = [sessions EXCEPT ![s] = [status |-> status, seen |-> seen, received |-> count]]
      /\ UNCHANGED <<savedFiles, crashes>>
      /\ savedSessions' \in {savedSessions, sessions'}
  BY DEF SaveFileChunk
<1>3. [status |-> status, seen |-> seen, received |-> count] \in Table
  <2>1. count \in 0..Total + MaxExtra
    BY <1>1, <1>2, StoreAssumptions DEF Table
  <2>2. status \in {"none", "active", "completed"} /\ seen \in SUBSET Part
    BY <1>1 DEF Table
  <2> HIDE DEF status, seen, count
  <2> QED
    BY <2>1, <2>2 DEF Table
<1>4. sessions' \in [Session -> Table] /\ savedSessions' \in [Session -> Table]
  <2> HIDE DEF status, seen, count
  <2> QED
    BY <1>2, <1>3 DEF StoreIInv, FileStoreTypeOK
<1>5. data \in [Part -> {"none", "right", "wrong"}]
  BY DEF StoreIInv, FileStoreTypeOK
<1>6. CASE full /\ Assembles(s, seen, data)
  <2>1. Assembly(s, data) \in FileContent /\ Assembly(s, data).data = "right"
        /\ Assembly(s, data) # NoFile
    <3>1. Assembly(s, data).from = s /\ Assembly(s, data).data = "right"
      BY <1>6 DEF Assembles, Assembly
    <3> QED
      BY <3>1, StoreAssumptions DEF Assembly, FileContent, NoFile
  <2>2. Assemble(s, data)
    BY <1>6 DEF SaveFileChunk
  <2>3. cache' \in [Session -> [Part -> {"none", "right", "wrong"}]]
    BY <2>2 DEF Assemble, StoreIInv, FileStoreTypeOK
  <2> HIDE DEF data
  <2>4. /\ onDisk' = [onDisk EXCEPT ![OriginalName] = Assembly(s, data)]
        /\ files' = [files EXCEPT ![OriginalName] = Assembly(s, data)]
    BY <2>2 DEF Assemble
  <2> QED
    BY <1>2, <1>4, <2>1, <2>3, <2>4, StoreAssumptions
    DEF StoreIInv, FileStoreTypeOK, FilesAreWhole
<1>7. CASE ~(full /\ Assembles(s, seen, data))
  <2>1. cache' = [cache EXCEPT ![s] = data] /\ UNCHANGED <<files, onDisk>>
    BY <1>7 DEF SaveFileChunk
  <2>2. cache' \in [Session -> [Part -> {"none", "right", "wrong"}]]
    BY <1>5, <2>1 DEF StoreIInv, FileStoreTypeOK
  <2> QED
    BY <1>2, <1>4, <2>1, <2>2 DEF StoreIInv, FileStoreTypeOK, FilesAreWhole
<1> QED
  BY <1>6, <1>7

LEMMA NextStore == StoreIInv /\ [FileStoreNext]_fileStoreVars => StoreIInv'
<1> SUFFICES ASSUME StoreIInv, [FileStoreNext]_fileStoreVars PROVE StoreIInv'
  OBVIOUS
<1>1. CASE SaveFile
  <2>1. /\ UniqueName \in Names
        /\ onDisk' = [onDisk EXCEPT ![UniqueName] = Saved]
        /\ files' = [files EXCEPT ![UniqueName] = Saved] /\ savedFiles' = files'
        /\ UNCHANGED <<sessions, cache, savedSessions, crashes>>
    BY <1>1 DEF SaveFile
  <2> QED
    BY <2>1, StoreValues DEF StoreIInv, FileStoreTypeOK, FilesAreWhole
<1>2. CASE Restart
  <2>1. /\ files' = savedFiles /\ sessions' = savedSessions /\ cache' = EmptyCache
        /\ UNCHANGED <<savedSessions, savedFiles>>
    BY <1>2 DEF Restart
  <2>2. crashes' \in 0..MaxCrashes
    BY <1>2, StoreAssumptions DEF Restart, StoreIInv, FileStoreTypeOK
  <2>3. CASE UNCHANGED onDisk
    BY <2>1, <2>2, <2>3, StoreValues DEF StoreIInv, FileStoreTypeOK, FilesAreWhole
  <2>4. CASE /\ UniqueName \in Names
             /\ onDisk' = [onDisk EXCEPT ![UniqueName] = [Saved EXCEPT !.data = "wrong"]]
    <3>1. files[UniqueName] = NoFile
      BY <2>4, UniqueNameIsUnlisted
    <3>2. savedFiles[UniqueName] = NoFile
      BY <2>4, <3>1 DEF StoreIInv
    <3> QED
      BY <2>1, <2>2, <2>4, <3>2, StoreValues DEF StoreIInv, FileStoreTypeOK, FilesAreWhole
  <2> QED
    BY <1>2, <2>3, <2>4 DEF Restart
<1>3. ASSUME NEW s \in Session, CreateSession(s) PROVE StoreIInv'
  <2>1. /\ sessions' = [sessions EXCEPT ![s] = [NoSession EXCEPT !.status = "active"]]
        /\ savedSessions' = sessions'
        /\ UNCHANGED <<cache, files, onDisk, savedFiles, crashes>>
    BY <1>3 DEF CreateSession
  <2> QED
    BY <2>1, StoreValues DEF StoreIInv, FileStoreTypeOK, FilesAreWhole
<1>4. ASSUME NEW s \in Session, NEW i \in Part, NEW d \in {"right", "wrong"},
             SaveFileChunk(s, i, d)
      PROVE  StoreIInv'
  BY <1>4, SaveFileChunkKeeps
<1>5. ASSUME NEW n \in Names, DeleteFile(n) PROVE StoreIInv'
  <2>1. /\ onDisk' = [onDisk EXCEPT ![n] = NoFile]
        /\ files' = [files EXCEPT ![n] = NoFile] /\ savedFiles' = files'
        /\ UNCHANGED <<sessions, cache, savedSessions, crashes>>
    BY <1>5 DEF DeleteFile
  <2> QED
    BY <2>1, StoreValues DEF StoreIInv, FileStoreTypeOK, FilesAreWhole
<1>6. CASE UNCHANGED fileStoreVars
  BY <1>6 DEF fileStoreVars, StoreIInv, FileStoreTypeOK, FilesAreWhole
<1> QED
  BY <1>1, <1>2, <1>3, <1>4, <1>5, <1>6 DEF FileStoreNext

(* Whatever chunks come twice or damaged, however often sessions are replaced *)
(* and wherever the program is killed, every file that is listed or was       *)
(* assembled is whole (SaveFileChunk, assembleFile, SaveFile, loadFileInfo).  *)
THEOREM StoredFilesAreWhole == FileStoreSpec => []FilesAreWhole
<1>1. StoreIInv => FilesAreWhole
  BY DEF StoreIInv
<1> QED
  BY <1>1, InitStore, NextStore, PTL DEF FileStoreSpec
=============================================================================
