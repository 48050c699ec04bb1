--------------------------- MODULE PriorityQueue ---------------------------
(***************************************************************************)
(* The bounded priority queue of priority_queue.go: a binary heap in an    *)
(* array (container/heap), ordered by priority and then by arrival, and    *)
(* the replacement of a queued message when the queue is full.             *)
(***************************************************************************)
EXTENDS Naturals, Sequences, SequencesExt

CONSTANTS MaxSize,    \* the capacity
          Priorities, \* the levels, a higher number first
          MaxPushes   \* bound: messages pushed, which are also their arrival times

ASSUME PriorityQueueAssumption ==
  MaxSize \in Nat \ {0} /\ MaxPushes \in Nat /\ Priorities \subseteq Nat

VARIABLES heap,  \* the array
          clock  \* the arrival time of the latest push

queueVars == <<heap, clock>>

PriorityQueueInit == heap = <<>> /\ clock = 0

Before(a, b) == a.priority > b.priority \/ (a.priority = b.priority /\ a.time < b.time)

Swap(h, i, j) == [h EXCEPT ![i] = h[j], ![j] = h[i]]

(* Mutant: the children are not compared. *)
LeftChild(h, i) == 2 * i

(* the child that comes first *)
FirstChild(h, i) ==
  IF 2 * i + 1 <= Len(h) /\ Before(h[2 * i + 1], h[2 * i]) THEN 2 * i + 1 ELSE 2 * i

(* heap.up of the last, n: it rises past its parent, and its parent's, as long
   as it comes before them; each of these moves down, to where it came from *)
Passed(h, n) ==
  UNION {S \in SUBSET (1..n - 1) :
           \A a \in S : Before(h[n], h[a]) /\ \E c \in S \cup {n} : a = c \div 2}

Up(h, n) ==
  LET path == {n} \cup Passed(h, n)
      top == Min(path)
  IN  [i \in DOMAIN h |->
         IF i = top THEN h[n] ELSE IF i \in path THEN h[i \div 2] ELSE h[i]]

(* heap.down of the first: the child that comes first, and this one's, rise
   by one place each as long as they come before it *)
Rising(h) ==
  UNION {S \in SUBSET (2..Len(h)) :
           \A c \in S : /\ Before(h[c], h[1])
                       /\ c \div 2 \in S \cup {1} /\ c = FirstChild(h, c \div 2)}

Down(h) ==
  LET bottom == Max({1} \cup Rising(h))
  IN  [i \in DOMAIN h |->
         IF i = bottom THEN h[1]
         ELSE IF FirstChild(h, i) \in Rising(h) THEN h[FirstChild(h, i)] ELSE h[i]]

(* Mutant: the limit is noticed one message late. *)
FullOneLate == Len(heap) > MaxSize

Full == Len(heap) >= MaxSize

(* Push: when the queue is full the last of the array gives way to a message
   of a higher priority *)
Replaces(p) == p > Last(heap).priority

Push(p) ==
  /\ clock < MaxPushes /\ clock' = clock + 1
  /\ LET room == IF Full THEN Front(heap) ELSE heap
         added == Append(room, [priority |-> p, time |-> clock'])
     IN  heap' = IF Full /\ ~Replaces(p) THEN heap ELSE Up(added, Len(added))

(* heap.Pop: the first and the last change places, the last is cut off *)
Pop ==
  /\ heap # <<>>
  /\ heap' = Down(Front(Swap(heap, 1, Len(heap))))
  /\ UNCHANGED clock

PriorityQueueNext == Pop \/ \E p \in Priorities : Push(p)

PriorityQueueSpec == PriorityQueueInit /\ [][PriorityQueueNext]_queueVars

-----------------------------------------------------------------------------
Item == [priority : Priorities, time : 1..MaxPushes]
Queued == {heap[i] : i \in DOMAIN heap}
Gone == Queued \ {heap'[i] : i \in DOMAIN heap'}

PriorityQueueTypeOK ==
  heap \in Seq(Item) /\ Len(heap) <= MaxSize /\ clock \in 0..MaxPushes

(* What Pop takes out comes before everything that stays, in priority and,
   among equals, in arrival, after any pushes, pops and replacements of the
   last of the array, which is not in its order. *)
PopTakesTheFirst ==
  [][clock' = clock => \A gone \in Gone : \A m \in Queued \ {gone} : Before(gone, m)]_queueVars

(* A full queue makes room by removing "the message of the lowest priority".
   It removes the last of the array, which need not be it. *)
DropsTheLowest ==
  [][clock' # clock => \A gone \in Gone, m \in Queued : gone.priority <= m.priority]_queueVars
=============================================================================
