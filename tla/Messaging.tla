----------------------------- MODULE Messaging -----------------------------
(***************************************************************************)
(* The message service of pinecone_service.go over a network that loses    *)
(* and reorders: the receive loop, the worker pool, the packet handlers    *)
(* with their acknowledgements and pongs, the commands that send, and      *)
(* Start and Stop under the service's read-write lock.  A frame is what    *)
(* the router carries; its content is abstracted to the kinds that the     *)
(* handlers tell apart:                                                    *)
(*   "text", "blank" (a text without content), "mixed" (a text that holds  *)
(*   user information and is rejected), "user_info", "search", "ping",     *)
(*   "pong" and "ack".                                                     *)
(* The channel of messages is left out: a full one drops silently, and     *)
(* nothing modelled here reads it.                                         *)
(***************************************************************************)
EXTENDS Naturals, Integers, Sequences, FiniteSets

CONSTANTS Node,        \* the nodes that run the service
          Worker,      \* the goroutines a pool may run
          Home,        \* the node each worker belongs to
          Hired,       \* the workers that Start runs
          QueueSize,   \* the capacity of workChan
          Kinds,       \* what the users send
          MaxOps,      \* bound: commands that the users give
          Stopper      \* the nodes whose user stops the service

ASSUME MessagingAssumption ==
  /\ IsFiniteSet(Worker) /\ Home \in [Worker -> Node]
  /\ Hired \subseteq Worker
  /\ QueueSize \in Nat \ {0} /\ MaxOps \in Nat
  /\ Kinds \subseteq {"text", "blank", "mixed", "user_info", "search", "ping"}
  /\ Stopper \subseteq Node

VARIABLES wire,      \* frames in flight
          op,        \* the commands given so far, in order
          callbacks, \* ackCallbacks: texts whose acknowledgement is awaited
          pending,   \* pendingPings
          told,      \* texts whose sender was told they were delivered
          stored,    \* the status of each text in the sender's message store
          handled,   \* texts that the receiver's handler accepted
          svc,       \* per node: lock, running, contexts, receiver, pool
          worker     \* what each worker does

messagingVars == <<wire, op, callbacks, pending, told, stored, handled, svc, worker>>

OpId == 1..MaxOps
Frame == [kind : {"text", "blank", "mixed", "user_info", "search", "ping", "pong", "ack"},
          id : OpId, from : Node, to : Node]

Idle == [at |-> "idle"]
Absent == [at |-> "absent"]

Running(n) == svc[n].running
Crashed(n) == svc[n].receiver = "crashed"

(* mu.RLock succeeds while no writer holds the lock or waits for it *)
Readable(n) == svc[n].stop \in {"no", "done"}

Live(n) == {w \in Worker : Home[w] = n /\ worker[w].at # "absent"}

MessagingInit ==
  /\ wire = {} /\ op = <<>>
  /\ callbacks = {} /\ pending = {} /\ told = {} /\ handled = {}
  /\ stored = [i \in OpId |-> "none"]
  /\ svc = [n \in Node |->
             [running |-> FALSE, cancelled |-> FALSE, closed |-> FALSE, stop |-> "no",
              receiver |-> "none", queue |-> <<>>,
              current |-> Cardinality({w \in Hired : Home[w] = n})]]
  /\ worker = [w \in Worker |-> Absent]

-----------------------------------------------------------------------------
(* The commands of the user: each is a goroutine whose place is op[i].at *)

Give(n, m, kind) ==
  /\ Len(op) < MaxOps /\ n # m /\ Running(n) /\ ~Crashed(n)
  /\ op' = Append(op, [kind |-> kind, by |-> n, to |-> m,
                       at |-> IF kind = "search" THEN "lock" ELSE "send"])
  /\ callbacks' = IF kind \in {"text", "blank", "mixed"} THEN callbacks \cup {Len(op) + 1}
                                                         ELSE callbacks
  /\ pending' = IF kind = "ping" THEN pending \cup {Len(op) + 1} ELSE pending
  /\ UNCHANGED <<wire, told, stored, handled, svc, worker>>

FrameOf(i) == [kind |-> op[i].kind, id |-> i, from |-> op[i].by, to |-> op[i].to]

(* SendMessagePacket: the read lock is held for the whole call; a write that
   the router refuses is reported as a success all the same *)
Transmit(n, f) == Readable(n) /\ ~Crashed(n) /\ (wire' = wire \cup {f} \/ wire' = wire)

(* a search holds the read lock and takes it again for every peer *)
LockSearch(i) ==
  /\ op[i].at = "lock" /\ Readable(op[i].by) /\ ~Crashed(op[i].by)
  /\ op' = [op EXCEPT ![i].at = "send"]
  /\ UNCHANGED <<wire, callbacks, pending, told, stored, handled, svc, worker>>

Searching(n) == \E i \in DOMAIN op : op[i].by = n /\ op[i].kind = "search" /\ op[i].at = "send"

Send(i) ==
  /\ op[i].at = "send"
  /\ Transmit(op[i].by, FrameOf(i))
  /\ op' = [op EXCEPT ![i].at = CASE op[i].kind \in {"text", "blank", "mixed"} -> "save"
                                  [] op[i].kind = "ping" -> "await"
                                  [] OTHER -> "end"]
  /\ UNCHANGED <<callbacks, pending, told, stored, handled, svc, worker>>

(* a malformed address: the command ends with an error.  A ping's entry goes,
   a text is not stored and its callback stays behind *)
SendFails(i) ==
  /\ op[i].at = "send" /\ Readable(op[i].by) /\ ~Crashed(op[i].by)
  /\ op' = [op EXCEPT ![i].at = "end"]
  /\ pending' = pending \ {i}
  /\ UNCHANGED <<wire, callbacks, told, stored, handled, svc, worker>>

(* the text is added to the message store only after it was sent *)
Save(i) ==
  /\ op[i].at = "save" /\ ~Crashed(op[i].by)
  /\ op' = [op EXCEPT ![i].at = "end"]
  /\ stored' = [stored EXCEPT ![i] = "sent"]
  /\ UNCHANGED <<wire, callbacks, pending, told, handled, svc, worker>>

(* SendPing returns with the answer or at its time-out, and drops its entry *)
PingReturns(i) ==
  /\ op[i].at \in {"await", "answered"} /\ ~Crashed(op[i].by)
  /\ op' = [op EXCEPT ![i].at = "end"]
  /\ pending' = pending \ {i}
  /\ UNCHANGED <<wire, callbacks, told, stored, handled, svc, worker>>

-----------------------------------------------------------------------------
(* The receive loop and the worker pool *)

Lose(f) == wire' = wire \ {f}
           /\ UNCHANGED <<op, callbacks, pending, told, stored, handled, svc, worker>>

(* The context is looked at before a read, never between the read and
   Submit: a send on the closed channel panics.  A full queue drops. *)
Receive(f) ==
  LET n == f.to IN
  /\ svc[n].receiver = "reading"
  /\ wire' = wire \ {f}
  /\ svc' = [svc EXCEPT
       ![n].receiver = IF svc[n].closed THEN "crashed"
                       ELSE IF svc[n].cancelled THEN "none" ELSE "reading",
       ![n].queue = IF ~svc[n].closed /\ Len(@) < QueueSize THEN Append(@, f) ELSE @]
  /\ UNCHANGED <<op, callbacks, pending, told, stored, handled, worker>>

(* the closed router ends the read of a cancelled service *)
ReceiverEnds(n) ==
  /\ svc[n].receiver = "reading" /\ svc[n].cancelled /\ svc[n].stop = "done"
  /\ svc' = [svc EXCEPT ![n].receiver = "none"]
  /\ UNCHANGED <<wire, op, callbacks, pending, told, stored, handled, worker>>

Work(w) ==
  LET n == Home[w] IN
  /\ worker[w].at = "idle" /\ svc[n].queue # <<>> /\ ~Crashed(n)
  /\ worker' = [worker EXCEPT ![w] = [at |-> "handle", frame |-> Head(svc[n].queue)]]
  /\ svc' = [svc EXCEPT ![n].queue = Tail(@)]
  /\ UNCHANGED <<wire, op, callbacks, pending, told, stored, handled>>

(* Mutant: only the workers that were added later see the channel closed. *)
WorkerExitsAboveMinimum(w) ==
  LET n == Home[w] IN
  /\ worker[w].at = "idle" /\ svc[n].closed /\ ~Crashed(n)
  /\ w \notin Hired
  /\ worker' = [worker EXCEPT ![w] = Absent]
  /\ svc' = [svc EXCEPT ![n].current = @ - 1]
  /\ UNCHANGED <<wire, op, callbacks, pending, told, stored, handled>>

WorkerExits(w) ==
  LET n == Home[w] IN
  /\ worker[w].at = "idle" /\ svc[n].closed /\ ~Crashed(n)
  /\ worker' = [worker EXCEPT ![w] = Absent]
  /\ svc' = [svc EXCEPT ![n].current = @ - 1]
  /\ UNCHANGED <<wire, op, callbacks, pending, told, stored, handled>>

(* adjustWorkerCount: one more worker when over four fifths of the queue is used *)
Adjust(n) ==
  /\ Running(n) /\ ~svc[n].closed /\ ~Crashed(n)
  /\ 5 * Len(svc[n].queue) > 4 * QueueSize
  /\ svc[n].current < Cardinality({w \in Worker : Home[w] = n})
  /\ \E w \in Worker :
       /\ Home[w] = n /\ worker[w].at = "absent"
       /\ worker' = [worker EXCEPT ![w] = Idle]
  /\ svc' = [svc EXCEPT ![n].current = @ + 1]
  /\ UNCHANGED <<wire, op, callbacks, pending, told, stored, handled>>

-----------------------------------------------------------------------------
(* handleReceivedMessage, handleMessagePacket and the registered handlers: what
   a worker does with a frame before it answers *)

(* a text that holds user information is dropped *)
Consistent(f) == f.kind # "mixed"

(* the text handler refuses a text without content, without an answer *)
AcceptsText(f) == f.kind \in {"text", "mixed"}

(* Mutant: a refused text is acknowledged too. *)
AnswersEveryText(f) ==
  Consistent(f) /\ (AcceptsText(f) \/ f.kind \in {"blank", "user_info", "ping"})

Answers(f) == Consistent(f) /\ (AcceptsText(f) \/ f.kind \in {"user_info", "ping"})

(* AckMessageHandler: the callback runs once; it can mark only a stored text *)
HandleAck(f) ==
  IF f.id \in callbacks
    THEN /\ told' = told \cup {f.id}
         /\ callbacks' = callbacks \ {f.id}
         /\ stored' = [stored EXCEPT ![f.id] = IF @ = "none" THEN @ ELSE "delivered"]
    ELSE UNCHANGED <<told, callbacks, stored>>

(* HandlePongResponse: the answer goes to the waiting SendPing, if there is one *)
HandlePong(f) ==
  op' = IF f.id \in pending /\ op[f.id].at = "await" THEN [op EXCEPT ![f.id].at = "answered"]
                                                   ELSE op

Handle(w) ==
  /\ worker[w].at = "handle" /\ ~Crashed(Home[w])
  /\ LET f == worker[w].frame IN
       /\ IF f.kind = "ack" THEN HandleAck(f) ELSE UNCHANGED <<told, callbacks, stored>>
       /\ IF f.kind = "pong" THEN HandlePong(f) ELSE UNCHANGED op
       /\ handled' = IF Consistent(f) /\ AcceptsText(f) THEN handled \cup {f.id} ELSE handled
       /\ worker' = [worker EXCEPT ![w] = IF Answers(f) THEN [at |-> "reply", frame |-> f]
                                                        ELSE Idle]
  /\ UNCHANGED <<wire, pending, svc>>

ReplyTo(f) == [kind |-> IF f.kind = "ping" THEN "pong" ELSE "ack",
               id |-> f.id, from |-> f.to, to |-> f.from]

Reply(w) ==
  /\ worker[w].at = "reply"
  /\ Transmit(Home[w], ReplyTo(worker[w].frame))
  /\ worker' = [worker EXCEPT ![w] = Idle]
  /\ UNCHANGED <<op, callbacks, pending, told, stored, handled, svc>>

-----------------------------------------------------------------------------
(* Start and Stop *)

(* A service that was stopped starts again with its old, cancelled context
   and its old, closed queue: its receive loop returns at once. *)
Start(n) ==
  /\ ~Running(n) /\ Readable(n) /\ ~Searching(n) /\ ~Crashed(n)
  /\ svc' = [svc EXCEPT ![n].running = TRUE,
                        ![n].receiver = IF svc[n].cancelled THEN @ ELSE "reading"]
  /\ worker' = [w \in Worker |-> IF Home[w] = n /\ w \in Hired THEN Idle ELSE worker[w]]
  /\ UNCHANGED <<wire, op, callbacks, pending, told, stored, handled>>

RequestStop(n) ==
  /\ n \in Stopper /\ Running(n) /\ Readable(n) /\ ~Crashed(n)
  /\ svc' = [svc EXCEPT ![n].stop = "locking"]
  /\ UNCHANGED <<wire, op, callbacks, pending, told, stored, handled, worker>>

(* Once no reader holds the lock the context is cancelled, and then the
   redundancy service is stopped under that service's own lock.  The goroutine
   that Start gave to it takes that lock and then, in initializeRoutes, takes it
   again: if it has run, the lock is never free. *)
BeginStop(n) ==
  /\ svc[n].stop = "locking" /\ ~Searching(n) /\ ~Crashed(n)
  /\ \E next \in {"cancelled", "stuck"} :
       svc' = [svc EXCEPT ![n].stop = next, ![n].cancelled = TRUE]
  /\ UNCHANGED <<wire, op, callbacks, pending, told, stored, handled, worker>>

(* the pool's queue is closed; closing it a second time panics *)
ClosePool(n) ==
  /\ svc[n].stop = "cancelled" /\ ~Crashed(n)
  /\ svc' = [svc EXCEPT ![n].stop = "draining", ![n].closed = TRUE,
                        ![n].receiver = IF svc[n].closed THEN "crashed" ELSE @]
  /\ UNCHANGED <<wire, op, callbacks, pending, told, stored, handled, worker>>

(* the pool's workers are waited for with the lock held; then the router is
   closed *)
EndStop(n) ==
  /\ svc[n].stop = "draining" /\ Live(n) = {} /\ ~Crashed(n)
  /\ svc' = [svc EXCEPT ![n].stop = "done", ![n].running = FALSE]
  /\ UNCHANGED <<wire, op, callbacks, pending, told, stored, handled, worker>>

MessagingNext ==
  \/ \E n, m \in Node, k \in Kinds : Give(n, m, k)
  \/ \E i \in DOMAIN op : LockSearch(i) \/ Send(i) \/ SendFails(i) \/ Save(i) \/ PingReturns(i)
  \/ \E f \in wire : Lose(f) \/ Receive(f)
  \/ \E w \in Worker : Work(w) \/ WorkerExits(w) \/ Handle(w) \/ Reply(w)
  \/ \E n \in Node : ReceiverEnds(n) \/ Adjust(n) \/ Start(n) \/ RequestStop(n)
                     \/ BeginStop(n) \/ ClosePool(n) \/ EndStop(n)

MessagingSpec == MessagingInit /\ [][MessagingNext]_messagingVars

(* The goroutines of a node run: those that end and the stopping call ... *)
StoppingFairness ==
  /\ \A w \in Worker : WF_messagingVars(WorkerExits(w))
  /\ \A n \in Node : WF_messagingVars((BeginStop(n) \/ ClosePool(n) \/ EndStop(n)))

(* ... the workers and the commands.  The receive loop and the network owe
   nothing to these properties. *)
MessagingFairness ==
  /\ StoppingFairness
  /\ \A w \in Worker : WF_messagingVars(Handle(w)) /\ WF_messagingVars(Reply(w))
  /\ \A i \in OpId : WF_messagingVars(i \in DOMAIN op
                                        /\ (LockSearch(i) \/ Send(i) \/ Save(i)))

FairMessagingSpec == MessagingSpec /\ MessagingFairness

-----------------------------------------------------------------------------
MessagingTypeOK ==
  /\ wire \subseteq Frame
  /\ op \in Seq([kind : Kinds, by : Node, to : Node,
                 at : {"lock", "send", "save", "await", "answered", "end"}])
  /\ callbacks \subseteq OpId /\ pending \subseteq OpId
  /\ told \subseteq OpId /\ handled \subseteq OpId
  /\ stored \in [OpId -> {"none", "sent", "delivered"}]
  /\ svc \in [Node -> [running : BOOLEAN, cancelled : BOOLEAN, closed : BOOLEAN,
                       stop : {"no", "locking", "cancelled", "stuck", "draining", "done"},
                       receiver : {"none", "reading", "crashed"},
                       queue : Seq(Frame), current : Int]]
  /\ \A w \in Worker : worker[w] \in {Idle, Absent}
                        \/ worker[w] \in [at : {"handle", "reply"}, frame : Frame]

(* The double tick is honest: a sender that is told its text was delivered has
   a receiver whose text handler accepted it, whatever was lost, overtaken or
   dropped by a full queue in between. *)
ToldMeansHandled == told \subseteq handled

(* Every entry of pendingPings belongs to a SendPing that has not returned, so
   a pong that comes too late finds nothing to answer. *)
PendingPingIsOpen == \A i \in pending : op[i].at # "end"

(* Stop returns unless the lock it holds is what a worker's reply needs:
   when the workers have nothing left to do, the wait for them ends. *)
IdlePoolStops ==
  \A n \in Node :
    (svc[n].stop = "draining" /\ \A w \in Live(n) : worker[w].at = "idle" /\ svc[n].queue = <<>>)
      ~> (svc[n].stop = "done" \/ Crashed(n))

(* "Stop() - Shutdown all services gracefully": a Stop that was asked for
   returns.  It does not.  It waits for the lock that the redundancy service
   never releases; and when that service has not begun to start, it waits for
   the workers with the message service's lock held, which a worker about to
   acknowledge a text waits for. *)
StopReturns ==
  \A n \in Node : svc[n].stop = "locking" ~> (svc[n].stop = "done" \/ Crashed(n))

(* "persist as delivered": a text that was stored, and whose sender was told
   that it was delivered, is stored as delivered.  It is not when the
   acknowledgement overtakes the saving of the text. *)
DeliveredIsPersisted == \A i \in told : stored[i] # "sent"
=============================================================================
