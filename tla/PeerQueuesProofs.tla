-------------------------- MODULE PeerQueuesProofs --------------------------
(* Theorems about the queues of a peer, for any flows, hash, number and size  *)
(* of queues: the writer loses no frame, never sleeps on one, and writes each *)
(* flow and the protocol in order, although it receives without the mutex.    *)
EXTENDS PeerQueues, FiniteSetTheorems, SequenceTheorems,
        NaturalsInduction, TLAPS

-----------------------------------------------------------------------------
(* The inductive invariant *)

Lives == {"up", "stopped", "cancelled", "resetting", "gone"}
Places == {"start", "first", "poll", "second", "third", "wait",
           "ackproto", "acktraffic", "check", "done", "panicked"}

QueueTypes ==
  /\ life \in Lives
  /\ proto \in [entries : Seq(Boxes), box : [Boxes -> ProtoFrames \cup {Open, Nil}], made : Boxes]
  /\ traffic \in [gen : 0..1, chan : [Channels -> Seq(TrafficFrames)], count : Nat, n : 0..Num]
  /\ writer \in [pc : Places, proto : Boxes, traffic : Channels,
                 frame : TrafficFrames \cup ProtoFrames \cup {Nil}]
  /\ pushed \in [Flow \cup {Proto} -> Nat] /\ wrote \in [Flow \cup {Proto} -> Nat]
  /\ pushed[Proto] <= MaxProto /\ \A f \in Flow : pushed[f] <= MaxTraffic

(* Before the reset the queue's channels are numbered like the frames: the    *)
(* one that the writer is to receive from is one more than what it has taken, *)
(* those after it hold the frames of their numbers, and the last is open.     *)
Queueing == life \in {"up", "stopped", "cancelled"}
First == Head(proto.entries)

ProtoIsALine ==
  Queueing =>
    /\ proto.made = pushed[Proto] + 1
    /\ First \in 1..proto.made
    /\ Len(proto.entries) = proto.made - First + 1
    /\ \A k \in 1..Len(proto.entries) : proto.entries[k] = First + k - 1
    /\ \A b \in proto.made..MaxProto + 3 : proto.box[b] = Open
    /\ \A b \in First + 1 .. pushed[Proto] : proto.box[b] = [of |-> Proto, number |-> b]
    /\ First <= pushed[Proto] =>
         proto.box[First] = IF At("ackproto") THEN Nil ELSE [of |-> Proto, number |-> First]

(* ... and the writer's channel and frame are the first, what it wrote all    *)
(* that came before.                                                          *)
WriterIsAtTheFirst ==
  Queueing =>
    /\ At("poll") \/ At("second") \/ At("third") \/ At("wait") => writer.proto = First
    /\ At("ackproto") =>
         First <= pushed[Proto] /\ writer.frame = [of |-> Proto, number |-> First]
    /\ ~At("done") => 
         wrote[Proto] = IF At("check") /\ writer.frame.of = Proto THEN First - 2 ELSE First - 1
    /\ At("check") /\ writer.frame.of = Proto => writer.frame.number = First - 1
    /\ At("check") => writer.frame # Nil

(* After the reset the writer, which is to end, acknowledges at most once.    *)
ResetIsLast ==
  ~Queueing =>
    /\ Len(proto.entries) = 1 /\ Unlocked
    /\ \/ proto.made <= pushed[Proto] + 2
       \/ proto.made <= pushed[Proto] + 3 /\ writer.pc \in {"check", "done"}

(* The traffic is in the channels of the first generation, also when the      *)
(* second has taken its place.                                                *)
Line(i) == traffic.chan[<<0, i>>]

TrafficIsOld ==
  /\ traffic.gen = IF life = "gone" THEN 1 ELSE 0
  /\ \A i \in 0..Num : traffic.chan[<<1, i>>] = <<>> /\ Len(Line(i)) <= QueueSize
  /\ writer.traffic[1] <= traffic.gen

Counted == traffic.count = Queued(0) + (IF At("acktraffic") THEN 1 ELSE 0)

Sent == {s \in Flow \X (1..MaxTraffic) : s[2] <= pushed[s[1]]}
CountIsBounded == traffic.count <= Cardinality(Sent)

(* A push that found its queue full, which is never the one all flows share,  *)
(* holds the mutex: nothing is counted down.                                  *)
PushIsPending ==
  ~Unlocked => /\ pushing \in TrafficFrames \X (1..Num)
               /\ pushing[2] = Hash[pushing[1].of] + 1
               /\ pushing[1].number = pushed[pushing[1].of]
               /\ traffic.count >= 2

(* A writer that waits has chosen a queue that holds a frame, or there is     *)
(* none and it has chosen the queue that the next one will go to; it chooses  *)
(* another than that only when that is empty.                                 *)
ChoosesWork ==
  At("wait") /\ traffic.gen = 0 =>
    \/ traffic.chan[writer.traffic] # <<>>
    \/ writer.traffic = <<0, 0>> /\ traffic.count = 0

ChoosesTheOldest ==
  At("wait") /\ writer.traffic[1] = 0 /\ writer.traffic[2] # 0 => 
    Line(0) = <<>> /\ (traffic.gen = 0 => Line(writer.traffic[2]) # <<>>)

(* The frames of a flow are in the shared queue or in its own, oldest first,  *)
(* and newer than the one in the writer's hands and those it wrote.           *)
Same(x, y) == x.of = y.of
Older(x, y) == Same(x, y) => x.number < y.number
Sorted(line) == \A a, b \in DOMAIN line : a < b => Older(line[a], line[b])

Held == At("acktraffic") \/ At("check")
Newest(f) == IF ~Unlocked /\ pushing[1].of = f THEN pushed[f] - 1 ELSE pushed[f]

FramesInOrder ==
  /\ \A i \in 0..Num : Sorted(Line(i))
  /\ \A i \in 1..Num : \A x \in Range(Line(i)) :
       Hash[x.of] + 1 = i /\ \A y \in Range(Line(0)) : Older(y, x)
  /\ \A i \in 0..Num : \A x \in Range(Line(i)) :
       /\ wrote[x.of] < x.number /\ x.number <= Newest(x.of)
       /\ Held => Older(writer.frame, x)
  /\ Held /\ writer.frame \in TrafficFrames =>
       wrote[writer.frame.of] < writer.frame.number /\ writer.frame.number <= Newest(writer.frame.of)
  /\ \A f \in Flow : wrote[f] <= Newest(f)
  /\ At("acktraffic") => writer.frame \in TrafficFrames
  /\ At("ackproto") => writer.frame \notin TrafficFrames

QueuesIInv ==
  /\ QueueTypes /\ ProtoIsALine /\ WriterIsAtTheFirst /\ ResetIsLast
  /\ TrafficIsOld /\ Counted /\ CountIsBounded /\ PushIsPending
  /\ ChoosesWork /\ ChoosesTheOldest /\ FramesInOrder

-----------------------------------------------------------------------------
(* Frames and queues *)

LEMMA FrameKinds ==
  /\ \A x \in TrafficFrames : x.of \in Flow /\ x.of # Proto /\ x.number \in 1..MaxTraffic
  /\ \A x \in ProtoFrames : x.of = Proto /\ x.number \in 1..MaxProto
  /\ Nil \notin TrafficFrames /\ Nil \notin ProtoFrames /\ Nil # Open /\ Nil.of # Proto
  /\ Nil.number = 0 /\ Nil.of = "nil" /\ Open \notin ProtoFrames /\ Open \notin TrafficFrames
BY QueueAssumption DEF TrafficFrames, ProtoFrames, Nil, Open, Proto

LEMMA LineTypes ==
  ASSUME QueueTypes
  PROVE  /\ \A c \in Channels : traffic.chan[c] \in Seq(TrafficFrames)
         /\ \A i \in 0..Num : /\ <<0, i>> \in Channels /\ <<1, i>> \in Channels
                              /\ Line(i) \in Seq(TrafficFrames) /\ Len(Line(i)) \in Nat
                              /\ DOMAIN Line(i) = 1..Len(Line(i))
                              /\ \A a \in DOMAIN Line(i) : Line(i)[a] \in TrafficFrames
<1>1. \A c \in Channels : traffic.chan[c] \in Seq(TrafficFrames)
  BY DEF QueueTypes
<1>2. \A i \in 0..Num : <<0, i>> \in Channels /\ <<1, i>> \in Channels
  BY DEF Channels
<1>3. \A i \in 0..Num : Line(i) \in Seq(TrafficFrames)
  BY <1>1, <1>2 DEF Line
<1> QED
  BY <1>1, <1>2, <1>3

(* The occupied places of any channels of the first generation.               *)
Fits(chan) ==
  \A i \in 0..Num : chan[<<0, i>>] \in Seq(TrafficFrames) /\ Len(chan[<<0, i>>]) <= QueueSize
SlotsIn(chan) == UNION {{i} \X DOMAIN chan[<<0, i>>] : i \in 0..Num}

LEMMA FitsLengths ==
  ASSUME NEW chan, Fits(chan), NEW i \in 0..Num
  PROVE  /\ chan[<<0, i>>] \in Seq(TrafficFrames) /\ Len(chan[<<0, i>>]) \in 0..QueueSize
         /\ DOMAIN chan[<<0, i>>] = 1..Len(chan[<<0, i>>])
<1>1. chan[<<0, i>>] \in Seq(TrafficFrames) /\ Len(chan[<<0, i>>]) <= QueueSize
  BY Zenon DEF Fits
<1>2. Len(chan[<<0, i>>]) \in Nat /\ DOMAIN chan[<<0, i>>] = 1..Len(chan[<<0, i>>])
  BY <1>1, LenProperties
<1> QED
  BY <1>1, <1>2, QueueAssumption

LEMMA QueuedIn ==
  /\ Queued(0) = Cardinality(SlotsIn(traffic.chan))
  /\ Queued(0)' = Cardinality(SlotsIn(traffic'.chan))
BY DEF Queued, Slots, SlotsIn

LEMMA SlotsAreFinite ==
  ASSUME NEW chan, Fits(chan)
  PROVE  /\ SlotsIn(chan) = {s \in (0..Num) \X (1..QueueSize) : s[2] <= Len(chan[<<0, s[1]>>])}
         /\ IsFiniteSet(SlotsIn(chan)) /\ Cardinality(SlotsIn(chan)) \in Nat
<1>1. \A i \in 0..Num : /\ Len(chan[<<0, i>>]) \in 0..QueueSize
                        /\ DOMAIN chan[<<0, i>>] = 1..Len(chan[<<0, i>>])
  BY FitsLengths
<1>2. SlotsIn(chan) = {s \in (0..Num) \X (1..QueueSize) : s[2] <= Len(chan[<<0, s[1]>>])}
  <2>1. ASSUME NEW s \in SlotsIn(chan)
        PROVE  s \in (0..Num) \X (1..QueueSize) /\ s[2] <= Len(chan[<<0, s[1]>>])
    <3>1. PICK i \in 0..Num : s \in {i} \X DOMAIN chan[<<0, i>>]
      BY DEF SlotsIn
    <3>2. s[1] = i /\ s[2] \in 1..Len(chan[<<0, i>>]) /\ s = <<s[1], s[2]>>
      BY <1>1, <3>1
    <3>3. s[2] \in 1..QueueSize
      BY <1>1, <3>2, QueueAssumption
    <3> QED
      BY <3>2, <3>3
  <2>2. ASSUME NEW i \in 0..Num, NEW k \in 1..QueueSize, k <= Len(chan[<<0, i>>])
        PROVE  <<i, k>> \in SlotsIn(chan)
    <3>1. k \in DOMAIN chan[<<0, i>>]
      BY <1>1, <2>2
    <3>2. <<i, k>> \in {i} \X DOMAIN chan[<<0, i>>]
      BY <3>1
    <3> QED
      BY <3>2 DEF SlotsIn
  <2> QED
    BY <2>1, <2>2
<1>3. IsFiniteSet((0..Num) \X (1..QueueSize))
  <2>1. IsFiniteSet(0..Num) /\ IsFiniteSet(1..QueueSize)
    BY FS_Interval, QueueAssumption
  <2> QED
    BY <2>1, FS_Product
<1>4. IsFiniteSet(SlotsIn(chan))
  BY <1>2, <1>3, FS_Subset
<1> QED
  BY <1>2, <1>4, FS_CardinalityType

(* The places taken in the fair queues depend on the lengths of their        *)
(* channels only.                                                            *)
LEMMA SlotsByLength ==
  ASSUME NEW old, NEW new, Fits(old), Fits(new),
         \A j \in 0..Num : Len(new[<<0, j>>]) = Len(old[<<0, j>>])
  PROVE  SlotsIn(new) = SlotsIn(old)
<1> DEFINE Taken(chan) == {s \in (0..Num) \X (1..QueueSize) : s[2] <= Len(chan[<<0, s[1]>>])}
<1>1. SlotsIn(old) = Taken(old) /\ SlotsIn(new) = Taken(new)
  BY SlotsAreFinite
<1>2. ASSUME NEW s \in (0..Num) \X (1..QueueSize)
      PROVE  Len(new[<<0, s[1]>>]) = Len(old[<<0, s[1]>>])
  <2>1. s[1] \in 0..Num
    OBVIOUS
  <2>2. QED
    BY <2>1
<1>3. Taken(new) = Taken(old)
  BY <1>2
<1> HIDE DEF Taken
<1>4. QED
  BY <1>1, <1>3

(* A frame more in one queue.                                                 *)
LEMMA OneMore ==
  ASSUME NEW old, NEW new, Fits(old), Fits(new), NEW i \in 0..Num,
         \A j \in 0..Num : Len(new[<<0, j>>]) = Len(old[<<0, j>>]) + IF j = i THEN 1 ELSE 0
  PROVE  Cardinality(SlotsIn(new)) = Cardinality(SlotsIn(old)) + 1
<1> DEFINE s == <<i, Len(old[<<0, i>>]) + 1>>
<1>1. \A j \in 0..Num : /\ Len(old[<<0, j>>]) \in 0..QueueSize
                        /\ Len(new[<<0, j>>]) \in 0..QueueSize
  BY FitsLengths
<1>2. /\ SlotsIn(old) = {x \in (0..Num) \X (1..QueueSize) : x[2] <= Len(old[<<0, x[1]>>])}
      /\ IsFiniteSet(SlotsIn(old)) /\ Cardinality(SlotsIn(old)) \in Nat
      /\ SlotsIn(new) = {x \in (0..Num) \X (1..QueueSize) : x[2] <= Len(new[<<0, x[1]>>])}
  BY SlotsAreFinite
<1>3. SlotsIn(new) = SlotsIn(old) \cup {s} /\ s \notin SlotsIn(old)
  <2>1. s \in (0..Num) \X (1..QueueSize) /\ s[1] = i /\ s[2] = Len(old[<<0, i>>]) + 1
    <3>1. Len(new[<<0, i>>]) = Len(old[<<0, i>>]) + 1
      OBVIOUS
    <3>2. Len(old[<<0, i>>]) + 1 \in 1..QueueSize
      BY <1>1, <3>1, QueueAssumption
    <3> QED
      BY <3>2
  <2>2. s \notin SlotsIn(old)
    BY <1>1, <1>2, <2>1
  <2>3. ASSUME NEW j \in 0..Num, NEW k \in 1..QueueSize
        PROVE  k <= Len(new[<<0, j>>]) <=> k <= Len(old[<<0, j>>]) \/ <<j, k>> = s
    <3>1. Len(old[<<0, j>>]) \in Nat /\ Len(new[<<0, j>>]) \in Nat
      BY <1>1
    <3>2. CASE j = i
      <4>1. Len(new[<<0, i>>]) = Len(old[<<0, i>>]) + 1
        OBVIOUS
      <4>2. <<j, k>> = s <=> k = Len(old[<<0, i>>]) + 1
        BY <3>2
      <4> QED
        BY <3>1, <3>2, <4>1, <4>2
    <3>3. CASE j # i
      <4>1. Len(new[<<0, j>>]) = Len(old[<<0, j>>]) + 0
        BY <3>3
      <4>2. <<j, k>> # s
        BY <3>3
      <4> QED
        BY <3>1, <4>1, <4>2
    <3> QED
      BY <3>2, <3>3
  <2>4. ASSUME NEW x \in (0..Num) \X (1..QueueSize)
        PROVE  x[2] <= Len(new[<<0, x[1]>>]) <=> x[2] <= Len(old[<<0, x[1]>>]) \/ x = s
    <3>1. x[1] \in 0..Num /\ x[2] \in 1..QueueSize /\ x = <<x[1], x[2]>>
      OBVIOUS
    <3> HIDE DEF s
    <3> QED
      BY <2>3, <3>1
  <2> HIDE DEF s
  <2> QED
    BY <1>2, <2>1, <2>2, <2>4
<1> HIDE DEF s
<1> QED
  BY <1>2, <1>3, FS_AddElement

(* Nothing queued, something queued, and a full queue, by the number.         *)
LEMMA QueuedOf ==
  ASSUME Fits(traffic.chan)
  PROVE  /\ Queued(0) \in Nat
         /\ Queued(0) = 0 <=> \A i \in 0..Num : Line(i) = <<>>
         /\ \A i \in 0..Num : Len(Line(i)) = QueueSize => Queued(0) >= 2
<1>1. \A i \in 0..Num : Len(Line(i)) \in 0..QueueSize /\ Line(i) \in Seq(TrafficFrames)
  BY FitsLengths DEF Line
<1>2. /\ Slots(0) = {s \in (0..Num) \X (1..QueueSize) : s[2] <= Len(Line(s[1]))}
      /\ IsFiniteSet(Slots(0)) /\ Queued(0) \in Nat
  <2>1. Slots(0) = SlotsIn(traffic.chan)
    BY DEF Slots, SlotsIn
  <2> QED
    BY <2>1, SlotsAreFinite DEF Queued, Line
<1>3. Slots(0) = {} <=> \A i \in 0..Num : Line(i) = <<>>
  <2>1. ASSUME Slots(0) = {}, NEW i \in 0..Num PROVE Line(i) = <<>>
    <3>1. ~(1 <= Len(Line(i)))
      <4>1. <<i, 1>> \in (0..Num) \X (1..QueueSize)
        BY QueueAssumption
      <4> QED
        BY <1>2, <2>1, <4>1
    <3> QED
      BY <1>1, <3>1
  <2>2. ASSUME \A i \in 0..Num : Line(i) = <<>>, NEW s \in Slots(0) PROVE FALSE
    <3>1. s[1] \in 0..Num /\ s[2] \in 1..QueueSize /\ s[2] <= Len(Line(s[1]))
      BY <1>2
    <3>2. Len(Line(s[1])) = 0
      BY <2>2, <3>1
    <3> QED
      BY <3>1, <3>2
  <2> QED
    BY <2>1, <2>2
<1>4. Queued(0) = 0 <=> Slots(0) = {}
  BY <1>2, FS_EmptySet DEF Queued
<1>5. ASSUME NEW i \in 0..Num, Len(Line(i)) = QueueSize PROVE Queued(0) >= 2
  <2> DEFINE pair == {<<i, 1>>, <<i, 2>>}
  <2>1. pair \subseteq Slots(0)
    <3>1. <<i, 1>> \in (0..Num) \X (1..QueueSize) /\ <<i, 2>> \in (0..Num) \X (1..QueueSize)
      BY QueueAssumption
    <3> QED
      BY <1>2, <1>5, <3>1, QueueAssumption
  <2>2. Cardinality(pair) = 2
    <3> DEFINE one == <<i, 1>>
               two == <<i, 2>>
    <3>1. one # two /\ pair = {one} \cup {two}
      OBVIOUS
    <3> HIDE DEF one, two, pair
    <3>2. IsFiniteSet({one}) /\ Cardinality({one}) = 1
      BY FS_Singleton
    <3> QED
      BY <3>1, <3>2, FS_AddElement
  <2>3. Cardinality(pair) <= Cardinality(Slots(0))
    BY <1>2, <2>1, FS_Subset
  <2> QED
    BY <1>2, <2>2, <2>3 DEF Queued
<1> QED
  BY <1>2, <1>3, <1>4, <1>5

(* What was pushed.                                                           *)
LEMMA SentOf ==
  ASSUME QueueTypes
  PROVE  /\ IsFiniteSet(Sent) /\ Cardinality(Sent) \in Nat
         /\ Cardinality(Sent) <= MaxTraffic * Cardinality(Flow)
<1> DEFINE all == Flow \X (1..MaxTraffic)
<1>1. IsFiniteSet(Flow) /\ IsFiniteSet(1..MaxTraffic) /\ Cardinality(1..MaxTraffic) = MaxTraffic
  BY FS_Interval, QueueAssumption
<1>2. IsFiniteSet(all) /\ Cardinality(all) = Cardinality(Flow) * MaxTraffic
  BY <1>1, FS_Product
<1>3. Sent \subseteq all
  BY DEF Sent
<1>4. IsFiniteSet(Sent) /\ Cardinality(Sent) <= Cardinality(all)
  BY <1>2, <1>3, FS_Subset
<1>5. Cardinality(Flow) \in Nat /\ Cardinality(Sent) \in Nat
  BY <1>1, <1>4, FS_CardinalityType
<1>6. Cardinality(Flow) * MaxTraffic = MaxTraffic * Cardinality(Flow)
  BY <1>5, QueueAssumption
<1> QED
  BY <1>2, <1>4, <1>5, <1>6

LEMMA SentOneMore ==
  ASSUME QueueTypes, NEW f \in Flow, pushed[f] < MaxTraffic, pushed' = [pushed EXCEPT ![f] = @ + 1]
  PROVE  Cardinality(Sent)' = Cardinality(Sent) + 1
<1> DEFINE s == <<f, pushed[f] + 1>>
<1>1. /\ \A h \in Flow : pushed[h] \in Nat /\ pushed'[h] = IF h = f THEN pushed[h] + 1 ELSE pushed[h]
      /\ MaxTraffic \in Nat
  BY QueueAssumption DEF QueueTypes
<1>2. s \in Flow \X (1..MaxTraffic) /\ s \notin Sent
  BY <1>1 DEF Sent
<1>3. \A h \in Flow, k \in 1..MaxTraffic : k <= pushed'[h] <=> k <= pushed[h] \/ <<h, k>> = s
  BY <1>1
<1> HIDE DEF s
<1>4. Sent' = Sent \cup {s}
  BY <1>2, <1>3 DEF Sent
<1> QED
  BY <1>2, <1>4, SentOf, FS_AddElement

-----------------------------------------------------------------------------
(* The protocol queue *)

ProtoHalf == ProtoIsALine /\ WriterIsAtTheFirst /\ ResetIsLast

(* What leaves the protocol's queue and its frames alone keeps them in line,  *)
(* when the writer stays, ...                                                 *)
LEMMA ProtoUntouched ==
  ASSUME ProtoHalf, proto' = proto, writer' = writer, Queueing' <=> Queueing,
         pushed'[Proto] = pushed[Proto], wrote'[Proto] = wrote[Proto],
         Queueing \/ pushing' = pushing
  PROVE  ProtoHalf'
BY DEF ProtoHalf, ProtoIsALine, WriterIsAtTheFirst, ResetIsLast, First, At, Unlocked

(* ... and when it goes to another place, with or without a frame in hand.    *)
LEMMA ProtoUnread ==
  ASSUME ProtoHalf, proto' = proto, Queueing' <=> Queueing, pushing' = pushing,
         pushed'[Proto] = pushed[Proto], wrote'[Proto] = wrote[Proto],
         writer'.proto = writer.proto,
         writer.pc \in {"poll", "second", "third", "wait"}
           \/ writer'.pc \notin {"poll", "second", "third", "wait"},
         writer.pc # "ackproto", writer'.pc # "ackproto", writer.pc # "done",
         writer.pc = "check" => Queueing /\ writer.frame.of # Proto,
         writer'.pc = "check" => writer'.frame.of # Proto /\ writer'.frame # Nil
  PROVE  ProtoHalf'
<1>1. First' = First
  BY DEF First
<1>2. ProtoIsALine'
  BY <1>1 DEF ProtoHalf, ProtoIsALine, At
<1>3. WriterIsAtTheFirst'
  BY <1>1 DEF ProtoHalf, WriterIsAtTheFirst, At
<1>4. ResetIsLast'
  BY DEF ProtoHalf, ResetIsLast, Unlocked
<1> QED
  BY <1>2, <1>3, <1>4 DEF ProtoHalf

LEMMA ProtoStays ==
  ASSUME QueueTypes, ProtoHalf,
         \/ \E f \in Flow : PushTraffic(f)
         \/ HeadDrop \/ Stop \/ Cancel \/ ResetTraffic
  PROVE  ProtoHalf'
<1>1. ASSUME NEW f \in Flow, PushTraffic(f) PROVE ProtoHalf'
  <2>1. pushed'[Proto] = pushed[Proto]
    BY <1>1, QueueAssumption DEF PushTraffic, QueueTypes, Proto
  <2>2. Queueing /\ life' = life
    BY <1>1 DEF PushTraffic, MayPush, Queueing
  <2>3. proto' = proto /\ writer' = writer /\ wrote' = wrote
    BY <1>1 DEF PushTraffic
  <2> QED
    BY <2>1, <2>2, <2>3, ProtoUntouched DEF Queueing
<1>2. CASE HeadDrop
  <2>1. Queueing
    BY <1>2 DEF HeadDrop, ProtoHalf, ResetIsLast
  <2> QED
    BY <1>2, <2>1, ProtoUntouched DEF HeadDrop, Queueing
<1>3. CASE Stop
  BY <1>3, ProtoUntouched DEF Stop, Queueing
<1>4. CASE Cancel
  BY <1>4, ProtoUntouched DEF Cancel, Queueing
<1>5. CASE ResetTraffic
  BY <1>5, ProtoUntouched DEF ResetTraffic, Queueing
<1> QED
  BY <1>1, <1>2, <1>3, <1>4, <1>5

LEMMA ProtoIsNotRead ==
  ASSUME QueueTypes, ProtoHalf, FramesInOrder,
         \/ Keepalive \/ StartWrite \/ PollDefault \/ PopTraffic \/ Panic
         \/ GiveUp \/ ReceiveTraffic \/ AckTraffic
         \/ Write /\ writer.frame.of # Proto
  PROVE  ProtoHalf'
<1>1. ASSUME NEW to \in Places, writer' = [writer EXCEPT !.pc = to]
      PROVE  writer'.pc = to /\ writer'.proto = writer.proto /\ writer'.frame = writer.frame
  BY <1>1 DEF QueueTypes
<1>2. CASE Keepalive
  BY <1>1, <1>2, ProtoUnread DEF Keepalive, GoTo, At, Queueing, Places
<1>3. CASE StartWrite
  BY <1>1, <1>3, ProtoUnread DEF StartWrite, GoTo, At, Queueing, Places
<1>4. CASE PollDefault
  BY <1>1, <1>4, ProtoUnread DEF PollDefault, GoTo, At, Queueing, Places
<1>5. CASE Panic
  BY <1>1, <1>5, ProtoUnread DEF Panic, GoTo, At, Queueing, Places
<1>6. CASE GiveUp
  BY <1>1, <1>6, ProtoUnread DEF GiveUp, GoTo, At, Queueing, Places
<1>7. CASE PopTraffic
  <2>1. writer'.pc = "wait" /\ writer'.proto = writer.proto /\ writer'.frame = writer.frame
    BY <1>7 DEF PopTraffic, QueueTypes
  <2> QED
    BY <1>7, <2>1, ProtoUnread DEF PopTraffic, At, Queueing
<1>8. CASE ReceiveTraffic
  <2>1. writer'.pc = "acktraffic" /\ writer'.proto = writer.proto
    BY <1>8 DEF ReceiveTraffic, QueueTypes
  <2> QED
    BY <1>8, <2>1, ProtoUnread DEF ReceiveTraffic, At, Queueing
<1>9. CASE AckTraffic
  <2>1. writer.frame.of # Proto /\ writer.frame # Nil
    BY <1>9, FrameKinds DEF AckTraffic, FramesInOrder
  <2>2. writer'.pc = "check" /\ writer'.proto = writer.proto /\ writer'.frame = writer.frame
    BY <1>1, <1>9 DEF AckTraffic, GoTo, Places
  <2> QED
    BY <1>9, <2>1, <2>2, ProtoUnread DEF AckTraffic, At, Queueing
<1>10. CASE Write /\ writer.frame.of # Proto
  <2>1. writer'.pc = "start" /\ writer'.proto = writer.proto
    BY <1>1, <1>10 DEF Write, GoTo, Places
  <2>2. wrote'[Proto] = wrote[Proto] /\ Queueing
    BY <1>10 DEF Write, QueueTypes, Started, Queueing
  <2> QED
    BY <1>10, <2>1, <2>2, ProtoUnread DEF Write, At, Queueing
<1> QED
  BY <1>2, <1>3, <1>4, <1>5, <1>6, <1>7, <1>8, <1>9, <1>10

LEMMA ProtoWhenWritingFails ==
  ASSUME QueueTypes, ProtoHalf, WriteFails PROVE ProtoHalf'
<1>1. /\ writer.pc = "check" /\ writer'.pc = "done" /\ writer'.proto = writer.proto
      /\ proto' = proto /\ pushed' = pushed /\ wrote' = wrote /\ pushing' = pushing
  BY DEF WriteFails, GoTo, At, QueueTypes
<1>2. Queueing' <=> Queueing
  BY DEF WriteFails, Started, Queueing
<1>3. First' = First
  BY <1>1 DEF First
<1> QED
  BY <1>1, <1>2, <1>3 DEF ProtoHalf, ProtoIsALine, WriterIsAtTheFirst, ResetIsLast, At, Unlocked

LEMMA LineOfChannels ==
  ASSUME QueueTypes, ProtoHalf
  PROVE  /\ proto.entries \in Seq(Boxes) /\ Len(proto.entries) \in Nat \ {0}
         /\ First = proto.entries[1] /\ First \in Boxes
         /\ Last(proto.entries) = proto.entries[Len(proto.entries)]
         /\ Queueing => Last(proto.entries) = proto.made
         /\ pushed[Proto] \in 0..MaxProto /\ Boxes = 1..MaxProto + 3
         /\ proto.made \in Boxes /\ MaxProto \in Nat
<1>1. /\ proto.entries \in Seq(Boxes) /\ Len(proto.entries) \in Nat \ {0}
      /\ pushed[Proto] \in 0..MaxProto /\ Boxes = 1..MaxProto + 3
      /\ proto.made \in Boxes /\ MaxProto \in Nat
  <2>1. proto.entries \in Seq(Boxes) /\ proto.made \in Boxes /\ pushed[Proto] \in Nat
    BY DEF QueueTypes
  <2>2. Len(proto.entries) \in Nat
    BY <2>1, LenProperties
  <2>3. Queueing => Len(proto.entries) \in Nat \ {0}
    BY <2>1, <2>2 DEF ProtoHalf, ProtoIsALine, Boxes
  <2>4. ASSUME ~Queueing PROVE Len(proto.entries) \in Nat \ {0}
    <3>1. Len(proto.entries) = 1
      BY <2>4 DEF ProtoHalf, ResetIsLast
    <3> QED
      BY <3>1
  <2> QED
    BY <2>1, <2>3, <2>4, QueueAssumption DEF QueueTypes, Boxes
<1>2. Last(proto.entries) = proto.entries[Len(proto.entries)]
  BY DEF Last
<1>3. First = proto.entries[1] /\ First \in Boxes
  BY <1>1 DEF First
<1>4. ASSUME Queueing PROVE Last(proto.entries) = proto.made
  <2>1. Len(proto.entries) = proto.made - First + 1
    BY <1>4 DEF ProtoHalf, ProtoIsALine
  <2>2. proto.entries[Len(proto.entries)] = First + Len(proto.entries) - 1
    <3>1. \A k \in 1..Len(proto.entries) : proto.entries[k] = First + k - 1
      BY <1>4 DEF ProtoHalf, ProtoIsALine
    <3> QED
      BY <1>1, <3>1
  <2>3. First \in Nat /\ proto.made \in Nat
    BY <1>1, <1>3
  <2>4. \A length, first, made \in Nat : length = made - first + 1 => first + length - 1 = made
    OBVIOUS
  <2>5. Len(proto.entries) \in Nat
    BY <1>1
  <2> QED
    BY <1>2, <2>1, <2>2, <2>3, <2>4, <2>5
<1> QED
  BY <1>1, <1>2, <1>3, <1>4

LEMMA ProtoWhenPushed ==
  ASSUME QueueTypes, ProtoHalf, PushProto PROVE ProtoHalf'
<1> DEFINE k == pushed[Proto] + 1
           new == proto.made + 1
<1>1. Queueing /\ life' = life /\ writer' = writer /\ wrote' = wrote /\ pushed[Proto] < MaxProto
  BY DEF PushProto, MayPush, Queueing
<1>2. /\ proto'.entries = Append(proto.entries, new) /\ proto'.made = new
      /\ proto'.box = [proto.box EXCEPT ![proto.made] = [of |-> Proto, number |-> k]]
  BY <1>1, LineOfChannels DEF PushProto
<1>3. pushed'[Proto] = k
  BY DEF PushProto, QueueTypes
<1>4. /\ proto.made = k /\ First \in 1..k /\ Len(proto.entries) = k - First + 1
      /\ k \in 1..MaxProto /\ MaxProto \in Nat /\ pushed[Proto] = k - 1
      /\ First \in 1..k - 1 => proto.box[First] = IF At("ackproto") THEN Nil ELSE [of |-> Proto, number |-> First]
  <2>1. proto.made = pushed[Proto] + 1 /\ First \in 1..proto.made
        /\ Len(proto.entries) = proto.made - First + 1
    BY <1>1 DEF ProtoHalf, ProtoIsALine
  <2>2. MaxProto \in Nat /\ pushed[Proto] \in 0..MaxProto
    BY LineOfChannels
  <2>3. pushed[Proto] < MaxProto
    BY <1>1
  <2>4. First <= pushed[Proto] =>
          proto.box[First] = IF At("ackproto") THEN Nil ELSE [of |-> Proto, number |-> First]
    BY <1>1 DEF ProtoHalf, ProtoIsALine
  <2>5. pushed[Proto] = k - 1 /\ k \in 1..MaxProto
    BY <2>2, <2>3
  <2>6. First \in 1..k - 1 => First <= pushed[Proto]
    BY <2>2, <2>5
  <2> QED
    BY <2>1, <2>2, <2>4, <2>5, <2>6
<1>5. /\ Len(proto'.entries) = Len(proto.entries) + 1
      /\ proto'.entries[Len(proto.entries) + 1] = new
      /\ \A j \in 1..Len(proto.entries) : proto'.entries[j] = proto.entries[j]
  <2>1. new \in Boxes
    <3>1. proto.made = k /\ k \in 1..MaxProto /\ MaxProto \in Nat
      BY <1>4
    <3> HIDE DEF k
    <3> QED
      BY <3>1 DEF Boxes
  <2>2. proto.entries \in Seq(Boxes)
    BY LineOfChannels
  <2> HIDE DEF new
  <2> QED
    BY <1>2, <2>1, <2>2, AppendProperties
<1>6. First' = First
  <2>1. Len(proto.entries) \in Nat \ {0} /\ First = proto.entries[1]
    BY LineOfChannels
  <2>2. proto'.entries[1] = proto.entries[1]
    BY <1>5, <2>1
  <2> QED
    BY <2>1, <2>2 DEF First
<1>7. \A b \in Boxes : proto'.box[b] = IF b = k THEN [of |-> Proto, number |-> k] ELSE proto.box[b]
  BY <1>2, <1>4 DEF QueueTypes
<1>8. At("ackproto") => First <= k - 1
  BY <1>1, <1>4 DEF ProtoHalf, WriterIsAtTheFirst
<1> HIDE DEF k, new
<1>9. ProtoIsALine'
  <2>1. proto'.made = pushed'[Proto] + 1 /\ proto'.made = k + 1
    BY <1>2, <1>3, <1>4 DEF new
  <2>2. First' \in 1..proto'.made /\ Len(proto'.entries) = proto'.made - First' + 1
    <3>1. First \in 1..k /\ Len(proto.entries) = k - First + 1 /\ k \in Nat
      BY <1>4
    <3>2. Len(proto'.entries) = Len(proto.entries) + 1
      BY <1>5
    <3> QED
      BY <1>6, <2>1, <3>1, <3>2
  <2>3. \A j \in 1..Len(proto'.entries) : proto'.entries[j] = First' + j - 1
    <3>1. \A j \in 1..Len(proto.entries) : proto.entries[j] = First + j - 1
      BY <1>1 DEF ProtoHalf, ProtoIsALine
    <3>2. First \in 1..k /\ Len(proto.entries) = k - First + 1 /\ k \in Nat /\ new = k + 1
      <4>1. k \in 1..MaxProto /\ MaxProto \in Nat /\ First \in 1..k /\ Len(proto.entries) = k - First + 1
        BY <1>4
      <4>2. new = k + 1
        BY <1>2, <2>1
      <4> QED
        BY <4>1, <4>2
    <3>3. \A j \in 1..Len(proto.entries) + 1 : j \in 1..Len(proto.entries) \/ j = Len(proto.entries) + 1
      BY LineOfChannels
    <3>4. new = First + (Len(proto.entries) + 1) - 1
      BY <3>2
    <3>5. ASSUME NEW j \in 1..Len(proto'.entries) PROVE proto'.entries[j] = First + j - 1
      <4>1. j \in 1..Len(proto.entries) \/ j = Len(proto.entries) + 1
        BY <1>5, <3>3
      <4> QED
        BY <1>5, <3>1, <3>4, <4>1
    <3> QED
      BY <1>6, <3>5
  <2>4. \A b \in proto'.made..MaxProto + 3 : proto'.box[b] = Open
    <3>1. \A b \in proto.made..MaxProto + 3 : proto.box[b] = Open
      BY <1>1 DEF ProtoHalf, ProtoIsALine
    <3>2. proto.made = k /\ proto'.made = k + 1 /\ k \in 1..MaxProto /\ MaxProto \in Nat
      BY <1>4, <2>1
    <3>3. ASSUME NEW b \in k + 1..MaxProto + 3
          PROVE  b \in Boxes /\ b # k /\ b \in k..MaxProto + 3
      BY <3>2 DEF Boxes
    <3> QED
      BY <1>7, <3>1, <3>2, <3>3
  <2>5. \A b \in First' + 1 .. pushed'[Proto] : proto'.box[b] = [of |-> Proto, number |-> b]
    <3>1. \A b \in First + 1..k - 1 : proto.box[b] = [of |-> Proto, number |-> b]
      BY <1>1, <1>4 DEF ProtoHalf, ProtoIsALine
    <3>2. First \in 1..k /\ k \in 1..MaxProto /\ MaxProto \in Nat
      BY <1>4
    <3>3. ASSUME NEW b \in First + 1..k
          PROVE  b \in Boxes /\ (b # k => b \in First + 1..k - 1)
      BY <3>2 DEF Boxes
    <3> QED
      BY <1>3, <1>6, <1>7, <3>1, <3>3
  <2>6. proto'.box[First'] = IF At("ackproto")' THEN Nil ELSE [of |-> Proto, number |-> First']
    <3>1. CASE First = k
      BY <1>1, <1>4, <1>6, <1>7, <1>8, <3>1 DEF Boxes, At
    <3>2. CASE First # k
      <4>1. First \in 1..k /\ k \in 1..MaxProto /\ MaxProto \in Nat
        BY <1>4
      <4>2. First \in 1..k - 1 /\ First \in Boxes
        BY <3>2, <4>1 DEF Boxes
      <4> QED
        BY <1>1, <1>4, <1>6, <1>7, <3>2, <4>2 DEF At
    <3> QED
      BY <3>1, <3>2
  <2> QED
    BY <2>1, <2>2, <2>3, <2>4, <2>5, <2>6 DEF ProtoIsALine
<1>10. WriterIsAtTheFirst'
  BY <1>1, <1>3, <1>4, <1>6 DEF ProtoHalf, WriterIsAtTheFirst, At, Queueing
<1>11. ResetIsLast'
  BY <1>1 DEF ResetIsLast, Queueing
<1> QED
  BY <1>9, <1>10, <1>11 DEF ProtoHalf

LEMMA ProtoWhenReset ==
  ASSUME QueueTypes, ProtoHalf, ResetProto PROVE ProtoHalf'
<1>1. proto'.entries = <<proto.made + 1>> /\ proto'.made = proto.made + 1
  BY DEF ResetProto, Initialise, QueueTypes
<1>2. ~Queueing' /\ Queueing /\ Unlocked /\ pushing' = pushing /\ pushed' = pushed
  BY DEF ResetProto, Queueing
<1>3. proto.made = pushed[Proto] + 1 /\ pushed[Proto] \in Nat
  BY <1>2, LineOfChannels DEF ProtoHalf, ProtoIsALine
<1>4. ResetIsLast'
  BY <1>1, <1>2, <1>3 DEF ResetIsLast, Unlocked
<1> QED
  BY <1>2, <1>4 DEF ProtoHalf, ProtoIsALine, WriterIsAtTheFirst

LEMMA ProtoWhenPopped ==
  ASSUME QueueTypes, ProtoHalf, PopProto PROVE ProtoHalf'
<1>1. /\ writer.pc \in {"first", "second"} /\ writer'.pc \in {"poll", "third"}
      /\ writer'.proto = First /\ proto' = proto /\ life' = life
      /\ pushed' = pushed /\ wrote' = wrote /\ pushing' = pushing
  BY DEF PopProto, First, At, QueueTypes
<1>2. First' = First /\ (Queueing' <=> Queueing)
  BY <1>1 DEF First, Queueing
<1>3. ProtoIsALine' /\ ResetIsLast'
  BY <1>1, <1>2 DEF ProtoHalf, ProtoIsALine, ResetIsLast, At, Unlocked
<1>4. WriterIsAtTheFirst'
  BY <1>1, <1>2 DEF ProtoHalf, WriterIsAtTheFirst, At
<1> QED
  BY <1>3, <1>4 DEF ProtoHalf

LEMMA ProtoWhenReceived ==
  ASSUME QueueTypes, ProtoHalf, ReceiveProto PROVE ProtoHalf'
<1>1. /\ writer.pc \in {"poll", "wait"} /\ writer'.pc = "ackproto"
      /\ writer'.frame = proto.box[writer.proto] /\ proto.box[writer.proto] # Open
      /\ proto'.entries = proto.entries /\ proto'.made = proto.made
      /\ proto'.box = [proto.box EXCEPT ![writer.proto] = Nil]
      /\ life' = life /\ pushed' = pushed /\ wrote' = wrote /\ pushing' = pushing
  BY DEF ReceiveProto, ProtoReady, At, QueueTypes
<1>2. First' = First /\ (Queueing' <=> Queueing)
  BY <1>1 DEF First, Queueing
<1>3. ASSUME Queueing
      PROVE  /\ writer.proto = First /\ First <= pushed[Proto]
             /\ proto.box[First] = [of |-> Proto, number |-> First]
             /\ proto.made = pushed[Proto] + 1 /\ First \in 1..proto.made
             /\ wrote[Proto] = First - 1
  <2>1. writer.proto = First /\ wrote[Proto] = First - 1
    BY <1>1, <1>3 DEF ProtoHalf, WriterIsAtTheFirst, At
  <2>2. proto.made = pushed[Proto] + 1 /\ First \in 1..proto.made /\ proto.box[proto.made] = Open
    <3>1. proto.made \in proto.made..MaxProto + 3
      BY LineOfChannels
    <3> QED
      BY <1>3, <3>1 DEF ProtoHalf, ProtoIsALine
  <2>3. First <= pushed[Proto]
    BY <1>1, <2>1, <2>2, LineOfChannels
  <2> QED
    BY <1>1, <1>3, <2>1, <2>2, <2>3 DEF ProtoHalf, ProtoIsALine, At
<1>4. ASSUME Queueing PROVE ProtoIsALine'
  <2>1. \A b \in Boxes : proto'.box[b] = IF b = First THEN Nil ELSE proto.box[b]
    BY <1>1, <1>3, <1>4, LineOfChannels DEF QueueTypes
  <2>2. \A b \in proto.made..MaxProto + 3 : proto'.box[b] = Open
    <3>1. \A b \in proto.made..MaxProto + 3 : proto.box[b] = Open
      BY <1>4 DEF ProtoHalf, ProtoIsALine
    <3>2. proto.made \in 1..MaxProto + 3 /\ First < proto.made /\ First \in 1..MaxProto + 3 /\ MaxProto \in Nat
      BY <1>3, <1>4, LineOfChannels
    <3>3. ASSUME NEW b \in proto.made..MaxProto + 3 PROVE b \in Boxes /\ b # First
      BY <3>2 DEF Boxes
    <3> QED
      BY <2>1, <3>1, <3>3
  <2>3. \A b \in First + 1..pushed[Proto] : proto'.box[b] = [of |-> Proto, number |-> b]
    <3>1. \A b \in First + 1..pushed[Proto] : proto.box[b] = [of |-> Proto, number |-> b]
      BY <1>4 DEF ProtoHalf, ProtoIsALine
    <3>2. pushed[Proto] \in 0..MaxProto /\ First \in 1..MaxProto + 3 /\ MaxProto \in Nat
      BY LineOfChannels
    <3>3. ASSUME NEW b \in First + 1..pushed[Proto] PROVE b \in Boxes /\ b # First
      BY <3>2 DEF Boxes
    <3> QED
      BY <2>1, <3>1, <3>3
  <2>4. proto'.box[First] = Nil
    BY <2>1, LineOfChannels
  <2> QED
    BY <1>1, <1>2, <1>4, <2>2, <2>3, <2>4 DEF ProtoHalf, ProtoIsALine, At
<1>5. ~Queueing => ProtoIsALine' /\ WriterIsAtTheFirst'
  BY <1>2 DEF ProtoIsALine, WriterIsAtTheFirst
<1>6. Queueing => WriterIsAtTheFirst'
  BY <1>1, <1>2, <1>3 DEF WriterIsAtTheFirst, At
<1>7. ResetIsLast'
  BY <1>1, <1>2 DEF ProtoHalf, ResetIsLast, Unlocked
<1> QED
  BY <1>4, <1>5, <1>6, <1>7 DEF ProtoHalf

LEMMA ProtoWhenAcknowledged ==
  ASSUME QueueTypes, ProtoHalf, AckProto PROVE ProtoHalf'
<1>1. /\ writer.pc = "ackproto" /\ writer'.pc = "check" /\ writer'.frame = writer.frame
      /\ proto' = AfterAck(proto)
      /\ life' = life /\ pushed' = pushed /\ wrote' = wrote /\ pushing' = pushing
  BY DEF AckProto, GoTo, At, QueueTypes
<1>2. Queueing' <=> Queueing
  BY <1>1 DEF Queueing
<1>3. CASE ~Queueing
  <2>1. Len(proto.entries) = 1 /\ Unlocked /\ proto.made <= pushed[Proto] + 2
    BY <1>1, <1>3 DEF ProtoHalf, ResetIsLast
  <2>2. proto'.entries = <<proto.made + 1>> /\ proto'.made = proto.made + 1
    BY <1>1, <2>1 DEF AfterAck, Initialise, QueueTypes
  <2>3. proto'.made <= pushed[Proto] + 3
    BY <2>1, <2>2, LineOfChannels
  <2> QED
    BY <1>1, <1>2, <1>3, <2>1, <2>2, <2>3
       DEF ProtoHalf, ProtoIsALine, WriterIsAtTheFirst, ResetIsLast, Unlocked
<1>4. CASE Queueing
  <2>1. /\ First \in 1..pushed[Proto] /\ proto.made = pushed[Proto] + 1
        /\ Len(proto.entries) = proto.made - First + 1
        /\ writer.frame = [of |-> Proto, number |-> First] /\ wrote[Proto] = First - 1
    <3>1. First <= pushed[Proto] /\ writer.frame = [of |-> Proto, number |-> First]
          /\ wrote[Proto] = First - 1
      BY <1>1, <1>4 DEF ProtoHalf, WriterIsAtTheFirst, At
    <3>2. First \in 1..proto.made /\ proto.made = pushed[Proto] + 1
          /\ Len(proto.entries) = proto.made - First + 1
      BY <1>4 DEF ProtoHalf, ProtoIsALine
    <3> QED
      BY <3>1, <3>2, LineOfChannels
  <2>2. pushed[Proto] \in 0..MaxProto /\ MaxProto \in Nat
    BY LineOfChannels
  <2>3. Len(proto.entries) >= 2 /\ Len(proto.entries) \in Nat
    BY <2>1, <2>2
  <2>4. proto'.entries = Tail(proto.entries) /\ proto'.made = proto.made /\ proto'.box = proto.box
    <3>1. Len(proto.entries) # 1
      <4>1. \A n \in Nat : n >= 2 => n # 1
        OBVIOUS
      <4> QED
        BY Zenon, <2>3, <4>1
    <3>2. proto' = [proto EXCEPT !.entries = Tail(proto.entries)]
      BY <1>1, <3>1 DEF AfterAck
    <3> QED
      BY <3>2 DEF QueueTypes
  <2>5. /\ Len(proto'.entries) = Len(proto.entries) - 1
        /\ \A j \in 1..Len(proto.entries) - 1 : proto'.entries[j] = proto.entries[j + 1]
    <3>1. proto.entries \in Seq(Boxes) /\ proto.entries # <<>>
      BY <2>3, LineOfChannels
    <3> QED
      BY <2>3, <2>4, <3>1, HeadTailProperties
  <2>6. \A j \in 1..Len(proto.entries) : proto.entries[j] = First + j - 1
    BY <1>4 DEF ProtoHalf, ProtoIsALine
  <2>7. ASSUME NEW j \in 1..Len(proto'.entries) PROVE proto'.entries[j] = First + 1 + j - 1
    <3>1. j \in 1..Len(proto.entries) - 1 /\ j + 1 \in 1..Len(proto.entries)
      BY <2>3, <2>5
    <3>2. proto.entries[j + 1] = First + (j + 1) - 1
      BY <2>6, <3>1
    <3> QED
      BY <2>1, <2>2, <2>5, <3>1, <3>2
  <2>8. First' = First + 1
    <3>1. 1 \in 1..Len(proto'.entries)
      BY <2>3, <2>5
    <3>2. proto'.entries[1] = First + 1
      BY <2>1, <2>2, <2>7, <3>1
    <3> QED
      BY <3>1, <3>2 DEF First
  <2>9. ProtoIsALine'
    <3>1. First + 1 \in 1..proto.made /\ Len(proto'.entries) = proto.made - (First + 1) + 1
      BY <2>1, <2>2, <2>3, <2>5
    <3>2. \A b \in proto.made..MaxProto + 3 : proto.box[b] = Open
      BY <1>4 DEF ProtoHalf, ProtoIsALine
    <3>3. \A b \in First + 1 .. pushed[Proto] : proto.box[b] = [of |-> Proto, number |-> b]
      BY <1>4 DEF ProtoHalf, ProtoIsALine
    <3>4. First + 1 <= pushed[Proto] => First + 1 \in First + 1..pushed[Proto]
      BY <2>1, <2>2
    <3>5. \A b \in First + 2 .. pushed[Proto] : b \in First + 1..pushed[Proto]
      BY <2>1, <2>2
    <3>6. First + 1 + 1 = First + 2
      BY <2>1, <2>2
    <3> QED
      BY <1>1, <2>1, <2>4, <2>7, <2>8, <3>1, <3>2, <3>3, <3>4, <3>5, <3>6 DEF ProtoIsALine, At
  <2>10. WriterIsAtTheFirst'
    <3>1. writer.frame.of = Proto /\ writer.frame.number = First /\ writer.frame # Nil
      BY <2>1, FrameKinds
    <3>2. First = (First + 1) - 1 /\ First - 1 = (First + 1) - 2
      BY <2>1, <2>2
    <3> QED
      BY <1>1, <2>1, <2>8, <3>1, <3>2 DEF WriterIsAtTheFirst, At
  <2>11. ResetIsLast'
    BY <1>2, <1>4 DEF ResetIsLast
  <2> QED
    BY <2>9, <2>10, <2>11 DEF ProtoHalf
<1> QED
  BY <1>3, <1>4

LEMMA ProtoWhenWritten ==
  ASSUME QueueTypes, ProtoHalf, Write, writer.frame.of = Proto
  PROVE  ProtoHalf' /\ wrote[Proto] = First - 2 /\ wrote'[Proto] = First - 1
<1>1. /\ writer.pc = "check" /\ writer'.pc = "start" /\ Queueing /\ Queueing'
      /\ wrote' = [wrote EXCEPT ![Proto] = writer.frame.number]
      /\ proto' = proto /\ pushed' = pushed
  BY DEF Write, GoTo, At, QueueTypes, Started, Queueing
<1>2. writer.frame.number = First - 1 /\ wrote[Proto] = First - 2
  BY <1>1 DEF ProtoHalf, WriterIsAtTheFirst, At
<1>3. wrote'[Proto] = First - 1
  BY <1>1, <1>2 DEF QueueTypes
<1>4. First' = First
  BY <1>1 DEF First
<1>5. ProtoIsALine'
  BY <1>1, <1>4 DEF ProtoHalf, ProtoIsALine, At
<1>6. WriterIsAtTheFirst'
  BY <1>1, <1>3, <1>4 DEF WriterIsAtTheFirst, At
<1> QED
  BY <1>1, <1>2, <1>3, <1>5, <1>6 DEF ProtoHalf, ResetIsLast

LEMMA InitProto == ASSUME Init PROVE QueueTypes /\ ProtoHalf
<1>1. QueueTypes
  <2>1. life \in Lives /\ writer \in [pc : Places, proto : Boxes, traffic : Channels,
                                      frame : TrafficFrames \cup ProtoFrames \cup {Nil}]
    BY QueueAssumption DEF Init, Lives, Places, Boxes, Channels
  <2>2. proto \in [entries : Seq(Boxes), box : [Boxes -> ProtoFrames \cup {Open, Nil}], made : Boxes]
    BY QueueAssumption DEF Init, Boxes
  <2>3. traffic \in [gen : 0..1, chan : [Channels -> Seq(TrafficFrames)], count : Nat, n : 0..Num]
    BY QueueAssumption DEF Init
  <2>4. /\ pushed \in [Flow \cup {Proto} -> Nat] /\ wrote \in [Flow \cup {Proto} -> Nat]
        /\ pushed[Proto] <= MaxProto /\ \A f \in Flow : pushed[f] <= MaxTraffic
    BY QueueAssumption DEF Init
  <2> QED
    BY <2>1, <2>2, <2>3, <2>4 DEF QueueTypes
<1>2. Queueing /\ First = 1 /\ Len(proto.entries) = 1 /\ proto.entries[1] = 1
      /\ proto.made = 1 /\ writer.pc = "start" /\ pushed[Proto] = 0 /\ wrote[Proto] = 0
      /\ \A b \in Boxes : proto.box[b] = Open
  BY DEF Init, Queueing, First
<1>3. ProtoIsALine
  BY <1>2, QueueAssumption DEF ProtoIsALine, Boxes
<1> QED
  BY <1>1, <1>2, <1>3 DEF ProtoHalf, WriterIsAtTheFirst, ResetIsLast, At

LEMMA NextProto ==
  ASSUME QueueTypes, ProtoHalf, FramesInOrder, Next PROVE ProtoHalf'
<1> USE ProtoStays, ProtoIsNotRead, ProtoWhenWritingFails, ProtoWhenPushed, ProtoWhenReset,
        ProtoWhenPopped, ProtoWhenReceived, ProtoWhenAcknowledged, ProtoWhenWritten
<1>1. CASE WriterStep
  BY <1>1 DEF WriterStep
<1>2. CASE StateStep
  BY <1>2 DEF StateStep
<1> QED
  BY <1>1, <1>2 DEF Next

-----------------------------------------------------------------------------
(* The traffic queue *)

LEMMA WithoutTheFirst ==
  ASSUME NEW line \in Seq(TrafficFrames), line # <<>>, Sorted(line)
  PROVE  /\ Tail(line) \in Seq(TrafficFrames) /\ Sorted(Tail(line))
         /\ Len(Tail(line)) = Len(line) - 1 /\ Len(line) \in Nat \ {0}
         /\ Range(Tail(line)) \subseteq Range(line) /\ Head(line) \in Range(line)
         /\ Head(line) \in TrafficFrames
         /\ \A x \in Range(Tail(line)) : Older(Head(line), x)
<1>1. /\ Tail(line) \in Seq(TrafficFrames) /\ Len(Tail(line)) = Len(line) - 1
      /\ Len(line) \in Nat \ {0} /\ Head(line) = line[1] /\ Head(line) \in TrafficFrames
      /\ DOMAIN line = 1..Len(line) /\ DOMAIN Tail(line) = 1..Len(line) - 1
      /\ \A a \in 1..Len(line) - 1 : Tail(line)[a] = line[a + 1]
  <2>1. Len(line) \in Nat /\ DOMAIN line = 1..Len(line)
    BY LenProperties
  <2>2. /\ Tail(line) \in Seq(TrafficFrames) /\ Len(Tail(line)) = Len(line) - 1
        /\ \A a \in 1..Len(line) - 1 : Tail(line)[a] = line[a + 1]
        /\ Head(line) \in TrafficFrames
    BY HeadTailProperties
  <2>3. Len(line) # 0
    BY EmptySeq
  <2>4. DOMAIN Tail(line) = 1..Len(Tail(line))
    BY <2>2, LenProperties
  <2> QED
    BY <2>1, <2>2, <2>3, <2>4
<1>2. 1 \in DOMAIN line /\ \A a \in DOMAIN Tail(line) : a + 1 \in DOMAIN line /\ 1 < a + 1
  BY <1>1
<1>3. Sorted(Tail(line))
  <2>1. ASSUME NEW a \in DOMAIN Tail(line), NEW b \in DOMAIN Tail(line), a < b
        PROVE  Older(Tail(line)[a], Tail(line)[b])
    <3>1. a + 1 \in DOMAIN line /\ b + 1 \in DOMAIN line /\ a + 1 < b + 1
      BY <1>1, <1>2, <2>1
    <3>2. Tail(line)[a] = line[a + 1] /\ Tail(line)[b] = line[b + 1]
      BY <1>1
    <3> QED
      BY <3>1, <3>2 DEF Sorted
  <2> QED
    BY <2>1 DEF Sorted
<1>4. \A x \in Range(Tail(line)) : \E a \in DOMAIN Tail(line) : x = line[a + 1]
  BY <1>1 DEF Range
<1>5. Range(Tail(line)) \subseteq Range(line) /\ \A x \in Range(Tail(line)) : Older(line[1], x)
  BY <1>2, <1>4 DEF Range, Sorted
<1>6. Head(line) \in Range(line)
  BY <1>1, <1>2 DEF Range
<1> QED
  BY <1>1, <1>3, <1>5, <1>6

LEMMA WithOneMore ==
  ASSUME NEW line \in Seq(TrafficFrames), Sorted(line), NEW frame \in TrafficFrames,
         \A x \in Range(line) : Older(x, frame)
  PROVE  /\ Append(line, frame) \in Seq(TrafficFrames) /\ Sorted(Append(line, frame))
         /\ Len(Append(line, frame)) = Len(line) + 1 /\ Append(line, frame) # <<>>
         /\ Range(Append(line, frame)) = Range(line) \cup {frame}
<1> DEFINE more == Append(line, frame)
<1>1. /\ more \in Seq(TrafficFrames) /\ Len(more) = Len(line) + 1 /\ Len(line) \in Nat
      /\ more[Len(line) + 1] = frame /\ \A a \in 1..Len(line) : more[a] = line[a]
      /\ DOMAIN line = 1..Len(line) /\ DOMAIN more = 1..Len(line) + 1
  <2>1. /\ more \in Seq(TrafficFrames) /\ Len(more) = Len(line) + 1
        /\ more[Len(line) + 1] = frame /\ \A a \in 1..Len(line) : more[a] = line[a]
    BY AppendProperties
  <2> HIDE DEF more
  <2> QED
    BY <2>1, LenProperties
<1>2. more # <<>>
  BY AppendProperties
<1> HIDE DEF more
<1>3. /\ DOMAIN more = DOMAIN line \cup {Len(line) + 1}
      /\ \A a \in DOMAIN line : a < Len(line) + 1 /\ ~(Len(line) + 1 < a)
      /\ ~(Len(line) + 1 < Len(line) + 1)
  BY <1>1
<1>4. Sorted(more)
  <2>1. ASSUME NEW a \in DOMAIN more, NEW b \in DOMAIN more, a < b PROVE Older(more[a], more[b])
    <3>1. a \in DOMAIN line
      BY <1>3, <2>1
    <3>2. CASE b \in DOMAIN line
      BY <1>1, <2>1, <3>1, <3>2 DEF Sorted
    <3>3. CASE b = Len(line) + 1
      BY <1>1, <3>1, <3>3 DEF Range
    <3> QED
      BY <1>3, <3>2, <3>3
  <2> QED
    BY <2>1 DEF Sorted
<1>5. Range(more) = Range(line) \cup {frame}
  BY <1>1, <1>3 DEF Range
<1> QED
  BY <1>1, <1>2, <1>4, <1>5 DEF more

TrafficHalf ==
  /\ TrafficIsOld /\ Counted /\ CountIsBounded /\ PushIsPending
  /\ ChoosesWork /\ ChoosesTheOldest /\ FramesInOrder

(* The order stays when the lines and what is newest do, and the writer takes *)
(* no frame of the traffic into its hands.                                    *)
LEMMA OrderUntouched ==
  ASSUME QueueTypes, FramesInOrder,
         traffic'.chan = traffic.chan, \A f \in Flow : Newest(f)' = Newest(f) /\ wrote'[f] = wrote[f],
         writer'.pc = "acktraffic" => writer'.pc = writer.pc /\ writer'.frame = writer.frame,
         Held' => (Held /\ writer'.frame = writer.frame) \/ writer'.frame \in ProtoFrames \cup {Nil},
         writer'.pc = "ackproto" => writer'.frame \notin TrafficFrames
  PROVE  FramesInOrder'
<1>0. \A i : Line(i)' = Line(i)
  BY DEF Line
<1>1. \A i \in 0..Num : \A x \in Range(Line(i)) : x \in TrafficFrames /\ x.of \in Flow
  <2>1. \A i \in 0..Num : \A a \in DOMAIN Line(i) : Line(i)[a] \in TrafficFrames
    BY LineTypes
  <2> QED
    BY <2>1, FrameKinds DEF Range
<1>2. \A i \in 0..Num : \A x \in Range(Line(i)) : Held' => Older(writer'.frame, x)
  <2>1. ASSUME writer'.frame \in ProtoFrames \cup {Nil}, NEW x \in TrafficFrames
        PROVE  Older(writer'.frame, x)
    BY <2>1, FrameKinds, QueueAssumption DEF Older, Same, Proto
  <2> QED
    BY <1>1, <2>1 DEF FramesInOrder
<1>3. /\ \A i \in 0..Num : Sorted(Line(i))
      /\ \A i \in 1..Num : \A x \in Range(Line(i)) :
           Hash[x.of] + 1 = i /\ \A y \in Range(Line(0)) : Older(y, x)
  BY DEF FramesInOrder
<1>4. \A i \in 0..Num : \A x \in Range(Line(i)) :
        wrote'[x.of] < x.number /\ x.number <= Newest(x.of)'
  BY <1>1 DEF FramesInOrder
<1>5. (Held /\ writer.frame \in TrafficFrames =>
         wrote[writer.frame.of] < writer.frame.number /\ writer.frame.number <= Newest(writer.frame.of))'
  <2>1. ASSUME Held', writer'.frame \in TrafficFrames
        PROVE  Held /\ writer'.frame = writer.frame /\ writer.frame.of \in Flow
    BY <2>1, FrameKinds
  <2>2. ASSUME Held', writer'.frame \in TrafficFrames
        PROVE  Newest(writer.frame.of)' = Newest(writer.frame.of)
    BY <2>1, <2>2 DEF Newest, Unlocked
  <2>3. Held /\ writer.frame \in TrafficFrames =>
          wrote[writer.frame.of] < writer.frame.number /\ writer.frame.number <= Newest(writer.frame.of)
    BY DEF FramesInOrder
  <2> QED
    BY <2>1, <2>2, <2>3
<1>6. \A f \in Flow : wrote'[f] <= Newest(f)'
  BY <1>4 DEF FramesInOrder
<1>7. At("acktraffic")' => writer'.frame \in TrafficFrames
  BY DEF FramesInOrder, At
<1>8. At("ackproto")' => writer'.frame \notin TrafficFrames
  BY DEF At
<1>9. \A i : (Sorted(Line(i))' <=> Sorted(Line(i))) /\ Range(Line(i))' = Range(Line(i))
  BY <1>0 DEF Sorted, Older, Same, Range
<1>10. (\A i \in 0..Num : Sorted(Line(i)))'
  BY <1>3, <1>9
<1>11. (\A i \in 1..Num : \A x \in Range(Line(i)) :
          Hash[x.of] + 1 = i /\ \A y \in Range(Line(0)) : Older(y, x))'
  BY <1>3, <1>9 DEF Older, Same
<1>12. (\A i \in 0..Num : \A x \in Range(Line(i)) :
          /\ wrote[x.of] < x.number /\ x.number <= Newest(x.of)
          /\ Held => Older(writer.frame, x))'
  BY <1>2, <1>4, <1>9 DEF Older, Same
<1> QED
  BY <1>5, <1>6, <1>7, <1>8, <1>10, <1>11, <1>12 DEF FramesInOrder

(* What leaves the traffic, and the frame of it in the writer's hands, alone. *)
LEMMA TrafficUntouched ==
  ASSUME QueueTypes, TrafficHalf,
         traffic'.chan = traffic.chan, traffic'.count = traffic.count,
         pushing' = pushing, \A f \in Flow : pushed'[f] = pushed[f] /\ wrote'[f] = wrote[f],
         writer'.traffic = writer.traffic, TrafficIsOld',
         writer'.pc = "acktraffic" <=> writer.pc = "acktraffic",
         writer'.pc = "wait" => writer.pc = "wait",
         traffic'.gen = traffic.gen,
         Held' => (Held /\ writer'.frame = writer.frame) \/ writer'.frame \in ProtoFrames \cup {Nil},
         writer'.pc = "acktraffic" => writer'.frame = writer.frame,
         writer'.pc = "ackproto" => writer'.frame \notin TrafficFrames
  PROVE  TrafficHalf'
<1>1. \A i : Line(i)' = Line(i)
  BY DEF Line
<1>2. Counted' /\ Queued(0)' = Queued(0)
  BY QueuedIn DEF TrafficHalf, Counted, At
<1>3. CountIsBounded'
  <2>1. Sent' = Sent
    BY DEF Sent
  <2> QED
    BY <2>1 DEF TrafficHalf, CountIsBounded
<1>4. \A f \in Flow : Newest(f)' = Newest(f)
  BY DEF Newest, Unlocked
<1>5. PushIsPending'
  <2>1. pushing \in TrafficFrames \X (1..Num) => pushing[1].of \in Flow
    BY FrameKinds
  <2> QED
    BY <2>1 DEF TrafficHalf, PushIsPending, Unlocked
<1>6. ChoosesWork' /\ ChoosesTheOldest'
  BY <1>1 DEF TrafficHalf, ChoosesWork, ChoosesTheOldest, At
<1>7. FramesInOrder'
  BY <1>4, OrderUntouched DEF TrafficHalf, Held, At
<1> QED
  BY <1>2, <1>3, <1>5, <1>6, <1>7 DEF TrafficHalf

LEMMA TrafficFacts ==
  ASSUME QueueTypes, TrafficHalf
  PROVE  /\ Fits(traffic.chan)
         /\ \A i \in 0..Num : /\ <<0, i>> \in Channels
                              /\ Line(i) \in Seq(TrafficFrames) /\ Len(Line(i)) \in 0..QueueSize
                              /\ \A x \in Range(Line(i)) : x \in TrafficFrames /\ x.of \in Flow
         /\ \A f \in Flow : /\ pushed[f] \in 0..MaxTraffic /\ wrote[f] \in Nat
                            /\ Newest(f) \in {pushed[f], pushed[f] - 1}
                            /\ Hash[f] + 1 \in 1..Num
         /\ traffic.count \in Nat /\ Queued(0) \in Nat
<1>1. Fits(traffic.chan)
  BY LineTypes DEF Fits, Line, TrafficHalf, TrafficIsOld
<1>2. \A i \in 0..Num : Line(i) \in Seq(TrafficFrames) /\ Len(Line(i)) \in 0..QueueSize
  BY <1>1, FitsLengths DEF Line
<1>3. \A i \in 0..Num : \A x \in Range(Line(i)) : x \in TrafficFrames /\ x.of \in Flow
  <2>1. \A i \in 0..Num : \A a \in DOMAIN Line(i) : Line(i)[a] \in TrafficFrames
    BY LineTypes
  <2> QED
    BY <2>1, FrameKinds DEF Range
<1>4. \A f \in Flow : pushed[f] \in 0..MaxTraffic /\ wrote[f] \in Nat
  BY QueueAssumption DEF QueueTypes
<1>5. \A f \in Flow : Newest(f) \in {pushed[f], pushed[f] - 1}
  BY DEF Newest
<1>6. \A f \in Flow : Hash[f] + 1 \in 1..Num
  BY QueueAssumption
<1>7. traffic.count \in Nat
  BY DEF QueueTypes
<1>8. \A i \in 0..Num : <<0, i>> \in Channels
  BY DEF Channels
<1> QED
  BY <1>1, <1>2, <1>3, <1>4, <1>5, <1>6, <1>7, <1>8, QueuedOf

LEMMA OneLineChanges ==
  ASSUME QueueTypes, NEW i \in 0..Num, NEW line \in Seq(TrafficFrames),
         traffic'.chan = [traffic.chan EXCEPT ![<<0, i>>] = line]
  PROVE  /\ traffic'.chan \in [Channels -> Seq(TrafficFrames)]
         /\ Line(i)' = line
         /\ \A j \in 0..Num : /\ traffic'.chan[<<0, j>>] = IF j = i THEN line ELSE Line(j)
                              /\ traffic'.chan[<<1, j>>] = traffic.chan[<<1, j>>]
         /\ \A c \in Channels : c # <<0, i>> => traffic'.chan[c] = traffic.chan[c]
<1>1. traffic.chan \in [Channels -> Seq(TrafficFrames)] /\ <<0, i>> \in Channels
  BY DEF QueueTypes, Channels
<1>2. \A j \in 0..Num : <<0, j>> \in Channels /\ <<1, j>> \in Channels /\ <<1, j>> # <<0, i>>
                        /\ (<<0, j>> = <<0, i>> <=> j = i)
  BY DEF Channels
<1>3. \A c \in Channels : traffic'.chan[c] = IF c = <<0, i>> THEN line ELSE traffic.chan[c]
  BY <1>1
<1>4. traffic'.chan \in [Channels -> Seq(TrafficFrames)]
  BY <1>1
<1> QED
  BY <1>1, <1>2, <1>3, <1>4 DEF Line

(* What the writer holds was received before what was pushed later.           *)
LEMMA HeldIsOlder ==
  ASSUME QueueTypes, TrafficHalf, Held, NEW frame \in TrafficFrames, Newest(frame.of) < frame.number
  PROVE  Older(writer.frame, frame)
<1>1. writer.frame \in TrafficFrames \cup ProtoFrames \cup {Nil} /\ frame.of \in Flow /\ frame.number \in Nat \ {0}
  BY FrameKinds DEF QueueTypes
<1>2. CASE writer.frame \in TrafficFrames
  <2>1. writer.frame.number <= Newest(writer.frame.of)
    BY <1>2 DEF TrafficHalf, FramesInOrder
  <2>2. writer.frame.of \in Flow /\ writer.frame.number \in Nat
    BY <1>2, FrameKinds
  <2>3. Newest(frame.of) \in Int
    BY <1>1, TrafficFacts
  <2> QED
    BY <1>1, <2>1, <2>2, <2>3 DEF Older, Same
<1>3. CASE writer.frame \in ProtoFrames
  BY <1>1, <1>3, FrameKinds, QueueAssumption DEF Older, Same, Proto
<1>4. CASE writer.frame = Nil
  BY <1>1, <1>4, FrameKinds DEF Older, Same
<1> QED
  BY <1>1, <1>2, <1>3, <1>4

(* A frame that is the newest of its flow goes to the end of its own line, or *)
(* to that of the shared one when there is no other.                          *)
LEMMA FrameAppended ==
  ASSUME QueueTypes, TrafficHalf, NEW i \in 0..Num, NEW frame \in TrafficFrames,
         NEW line \in Seq(TrafficFrames), Sorted(line), Range(line) \subseteq Range(Line(i)),
         traffic'.chan = [traffic.chan EXCEPT ![<<0, i>>] = Append(line, frame)],
         Newest(frame.of) + 1 = frame.number, Newest(frame.of)' = frame.number,
         \A f \in Flow : f # frame.of => Newest(f)' = Newest(f),
         i # 0 => i = Hash[frame.of] + 1,
         i = 0 => \A j \in 1..Num : Line(j) = <<>>,
         writer' = writer, wrote' = wrote
  PROVE  FramesInOrder' /\ Append(line, frame) # <<>> /\ Append(line, frame) \in Seq(TrafficFrames)
<1>1. frame.of \in Flow /\ frame.number \in Nat /\ Newest(frame.of) < frame.number
  BY FrameKinds, TrafficFacts
<1>2. \A j \in 0..Num : \A x \in Range(Line(j)) : x \in TrafficFrames /\ x.of \in Flow /\ x.number \in Nat
  <2>1. \A x \in TrafficFrames : x.number \in Nat
    BY FrameKinds
  <2> QED
    BY <2>1, TrafficFacts
<1>3. /\ \A j \in 0..Num : \A x \in Range(Line(j)) :
           /\ wrote[x.of] < x.number /\ x.number <= Newest(x.of)
           /\ Held => Older(writer.frame, x)
      /\ \A f \in Flow : wrote[f] <= Newest(f)
  BY DEF TrafficHalf, FramesInOrder
<1>4. \A f \in Flow : Newest(f) \in Int /\ wrote[f] \in Nat
  BY TrafficFacts
<1>5. \A j \in 0..Num : \A x \in Range(Line(j)) : Older(x, frame)
  <2>1. ASSUME NEW j \in 0..Num, NEW x \in Range(Line(j)), x.of = frame.of
        PROVE  x.number < frame.number
    <3>1. x.number <= Newest(frame.of) /\ x.number \in Nat
      BY <1>2, <1>3, <2>1
    <3> QED
      BY <1>1, <1>4, <3>1
  <2> QED
    BY <2>1 DEF Older, Same
<1>6. \A x \in Range(line) : Older(x, frame)
  BY <1>5
<1> DEFINE more == Append(line, frame)
<1>7. /\ more \in Seq(TrafficFrames) /\ Sorted(more) /\ more # <<>>
      /\ Range(more) = Range(line) \cup {frame}
  BY <1>6, WithOneMore
<1>8. \A j \in 0..Num : Line(j)' = IF j = i THEN more ELSE Line(j)
  BY ZenonT(60), <1>7, OneLineChanges DEF Line
<1>9. \A j \in 0..Num : /\ j # i => Range(Line(j)') = Range(Line(j))
                        /\ j = i => Range(Line(j)') \subseteq Range(Line(j)) \cup {frame}
  BY <1>7, <1>8
<1> HIDE DEF more
<1>10. \A f \in Flow : Newest(f)' \in Int /\ Newest(f) <= Newest(f)'
  BY <1>1, <1>4
<1>11. (\A j \in 0..Num : Sorted(Line(j)))'
  <2>1. \A j \in 0..Num : Sorted(Line(j))
    BY DEF TrafficHalf, FramesInOrder
  <2> QED
    BY <1>7, <1>8, <2>1 DEF Sorted, Older, Same
<1>12. (\A j \in 1..Num : \A x \in Range(Line(j)) :
          Hash[x.of] + 1 = j /\ \A y \in Range(Line(0)) : Older(y, x))'
  <2> SUFFICES ASSUME NEW j \in 1..Num, NEW x \in Range(Line(j)')
               PROVE  Hash[x.of] + 1 = j /\ \A y \in Range(Line(0)') : Older(y, x)
    BY DEF Older, Same, Range
  <2>1. j \in 0..Num /\ j # 0
    OBVIOUS
  <2>2. \A z \in Range(Line(j)) : Hash[z.of] + 1 = j /\ \A y \in Range(Line(0)) : Older(y, z)
    BY DEF TrafficHalf, FramesInOrder
  <2>3. CASE i = 0
    <3>1. Line(j)' = <<>>
      BY <1>8, <2>1, <2>3
    <3> QED
      BY <3>1 DEF Range
  <2>4. CASE i # 0
    <3>1. Range(Line(0)') = Range(Line(0)) /\ 0 \in 0..Num
      BY <1>9, <2>4, QueueAssumption
    <3>2. CASE x \in Range(Line(j))
      BY <2>2, <3>1, <3>2
    <3>3. CASE j = i /\ x = frame
      BY <1>5, <2>4, <3>1, <3>3
    <3> QED
      BY <1>9, <2>1, <3>2, <3>3
  <2> QED
    BY <2>3, <2>4
<1>13. (\A j \in 0..Num : \A x \in Range(Line(j)) :
          /\ wrote[x.of] < x.number /\ x.number <= Newest(x.of)
          /\ Held => Older(writer.frame, x))'
  <2> SUFFICES ASSUME NEW j \in 0..Num, NEW x \in Range(Line(j)')
               PROVE  /\ wrote[x.of] < x.number /\ x.number <= Newest(x.of)'
                      /\ Held => Older(writer.frame, x)
    BY DEF Older, Same, Range, Held, At
  <2>1. CASE x \in Range(Line(j))
    <3>1. wrote[x.of] < x.number /\ x.number <= Newest(x.of) /\ (Held => Older(writer.frame, x))
      BY <1>3, <2>1
    <3>2. x.of \in Flow /\ x.number \in Nat
      BY <1>2, <2>1
    <3>3. Newest(x.of)' \in Int /\ Newest(x.of) <= Newest(x.of)' /\ Newest(x.of) \in Int
      BY <1>4, <1>10, <3>2
    <3> QED
      BY <3>1, <3>2, <3>3
  <2>2. CASE x = frame
    <3>1. wrote[frame.of] <= Newest(frame.of) /\ wrote[frame.of] \in Nat /\ Newest(frame.of) \in Int
      BY <1>1, <1>3, <1>4
    <3>2. Held => Older(writer.frame, frame)
      BY <1>1, HeldIsOlder
    <3> QED
      BY <1>1, <2>2, <3>1, <3>2
  <2> QED
    BY <1>9, <2>1, <2>2
<1>14. (Held /\ writer.frame \in TrafficFrames =>
          wrote[writer.frame.of] < writer.frame.number /\ writer.frame.number <= Newest(writer.frame.of))'
  <2>1. ASSUME Held, writer.frame \in TrafficFrames
        PROVE  wrote[writer.frame.of] < writer.frame.number /\ writer.frame.number <= Newest(writer.frame.of)'
    <3>1. wrote[writer.frame.of] < writer.frame.number /\ writer.frame.number <= Newest(writer.frame.of)
      BY <2>1 DEF TrafficHalf, FramesInOrder
    <3>2. writer.frame.of \in Flow /\ writer.frame.number \in Nat
      BY <2>1, FrameKinds
    <3>3. \A f \in Flow : Newest(f)' \in Int /\ Newest(f) <= Newest(f)' /\ Newest(f) \in Int
      BY <1>4, <1>10
    <3>4. PICK f \in Flow : f = writer.frame.of
      BY <3>2
    <3>5. writer.frame.number <= Newest(f) /\ Newest(f)' \in Int /\ Newest(f) <= Newest(f)' /\ Newest(f) \in Int
      BY <3>1, <3>3, <3>4
    <3>6. writer.frame.number <= Newest(f)'
      BY <3>2, <3>5
    <3> QED
      BY <3>1, <3>4, <3>6
  <2> QED
    BY <2>1 DEF Held, At
<1>15. (\A f \in Flow : wrote[f] <= Newest(f))'
  BY <1>3, <1>4, <1>10
<1>16. (/\ At("acktraffic") => writer.frame \in TrafficFrames
        /\ At("ackproto") => writer.frame \notin TrafficFrames)'
  BY DEF TrafficHalf, FramesInOrder, At
<1> QED
  BY <1>7, <1>11, <1>12, <1>13, <1>14, <1>15, <1>16 DEF FramesInOrder, more

(* Pushing: the queue is the shared one when nothing is queued, and then all  *)
(* are empty; otherwise the flow's own.                                       *)
LEMMA QueueChosen ==
  ASSUME QueueTypes, TrafficHalf, NEW f \in Flow, PushTraffic(f)
  PROVE  /\ traffic.gen = 0 /\ life' = life /\ Unlocked /\ QueueFor(f) \in 0..Num
         /\ QueueFor(f) # 0 => QueueFor(f) = Hash[f] + 1
         /\ QueueFor(f) = 0 <=> traffic.count = 0
         /\ traffic.count = 0 => Queued(0) = 0 /\ \A i \in 0..Num : Line(i) = <<>>
         /\ Queue(QueueFor(f)) = Line(QueueFor(f))
<1>1. traffic.gen = 0 /\ life' = life /\ Unlocked
  BY DEF PushTraffic, MayPush, TrafficHalf, TrafficIsOld
<1>2. traffic.count \in Nat /\ Queued(0) \in Nat /\ Hash[f] + 1 \in 1..Num /\ 0 \in 0..Num
  BY TrafficFacts, QueueAssumption
<1>3. /\ QueueFor(f) \in 0..Num /\ (QueueFor(f) # 0 => QueueFor(f) = Hash[f] + 1)
      /\ QueueFor(f) = 0 <=> traffic.count = 0
  BY <1>2 DEF QueueFor
<1>4. traffic.count = 0 => Queued(0) = 0
  <2>1. traffic.count = Queued(0) + (IF At("acktraffic") THEN 1 ELSE 0)
    BY DEF TrafficHalf, Counted
  <2> QED
    BY <1>2, <2>1
<1>5. Queued(0) = 0 => \A i \in 0..Num : Line(i) = <<>>
  BY TrafficFacts, QueuedOf
<1> QED
  BY <1>1, <1>3, <1>4, <1>5 DEF Queue, Line

LEMMA TrafficWhenPushed ==
  ASSUME QueueTypes, TrafficHalf, NEW f \in Flow, PushTraffic(f),
         Len(Queue(QueueFor(f))) < QueueSize
  PROVE  TrafficHalf' /\ traffic'.chan \in [Channels -> Seq(TrafficFrames)]
<1>a. PICK i \in 0..Num : i = QueueFor(f)
  BY QueueChosen
<1>1. /\ traffic.gen = 0 /\ Unlocked /\ (i # 0 => i = Hash[f] + 1)
      /\ (i = 0 <=> traffic.count = 0) /\ Queue(i) = Line(i)
      /\ traffic.count = 0 => \A j \in 0..Num : Line(j) = <<>>
  BY <1>a, QueueChosen
<1>b. PICK frame \in TrafficFrames : frame = [of |-> f, number |-> pushed[f] + 1]
  <2>1. pushed[f] < MaxTraffic /\ pushed[f] \in 0..MaxTraffic
    BY TrafficFacts DEF PushTraffic
  <2>2. pushed[f] + 1 \in 1..MaxTraffic
    BY <2>1, QueueAssumption
  <2> QED
    BY <2>2 DEF TrafficFrames
<1>2. /\ traffic'.chan = [traffic.chan EXCEPT ![<<0, i>>] = Append(@, frame)]
      /\ traffic'.count = traffic.count + 1 /\ traffic'.gen = traffic.gen
  BY <1>1, <1>a, <1>b DEF PushTraffic, QueueTypes
<1>3. /\ life' = life /\ pushing' = pushing /\ writer' = writer /\ wrote' = wrote /\ pushing = <<>>
      /\ pushed' = [pushed EXCEPT ![f] = @ + 1] /\ pushed[f] < MaxTraffic
  BY <1>1 DEF PushTraffic, Unlocked
<1>4. pushed[f] \in Nat /\ frame.of = f /\ frame.number = pushed[f] + 1
  BY <1>b, TrafficFacts
<1>5. \A h \in Flow : pushed'[h] = (IF h = f THEN pushed[f] + 1 ELSE pushed[h])
  BY <1>3 DEF QueueTypes
<1>6. \A h \in Flow : Newest(h) = pushed[h] /\ Newest(h)' = pushed'[h]
  BY <1>3 DEF Newest, Unlocked
<1> DEFINE line == Append(Line(i), frame)
<1>7. traffic'.chan = [traffic.chan EXCEPT ![<<0, i>>] = line]
  <2>1. <<0, i>> \in Channels /\ traffic.chan \in [Channels -> Seq(TrafficFrames)]
    BY TrafficFacts DEF QueueTypes
  <2> QED
    BY <1>2, <2>1 DEF Line
<1>9. Line(i) \in Seq(TrafficFrames) /\ Sorted(Line(i)) /\ Len(Line(i)) \in 0..QueueSize
  BY <1>1, TrafficFacts DEF TrafficHalf, FramesInOrder
<1>10. FramesInOrder' /\ line # <<>> /\ line \in Seq(TrafficFrames)
  <2>1. i = 0 => \A j \in 1..Num : Line(j) = <<>>
    BY <1>1
  <2>2. Newest(frame.of) + 1 = frame.number /\ Newest(frame.of)' = frame.number
    BY <1>4, <1>5, <1>6
  <2>3. \A h \in Flow : h # frame.of => Newest(h)' = Newest(h)
    BY <1>4, <1>5, <1>6
  <2> QED
    BY <1>1, <1>3, <1>4, <1>7, <1>9, <2>1, <2>2, <2>3, FrameAppended
<1>11. Len(line) = Len(Line(i)) + 1
  BY <1>4, <1>9, AppendProperties
<1> HIDE DEF line
<1>12. /\ traffic'.chan \in [Channels -> Seq(TrafficFrames)]
       /\ \A j \in 0..Num : /\ traffic'.chan[<<0, j>>] = IF j = i THEN line ELSE Line(j)
                            /\ traffic'.chan[<<1, j>>] = traffic.chan[<<1, j>>]
       /\ \A c \in Channels : c # <<0, i>> => traffic'.chan[c] = traffic.chan[c]
  BY <1>1, <1>7, <1>10, OneLineChanges
<1>13. \A j \in 0..Num : traffic'.chan[<<0, j>>] \in Seq(TrafficFrames) /\ Len(traffic'.chan[<<0, j>>]) <= QueueSize
  <2>1. Len(Line(i)) < QueueSize
    BY <1>1, <1>a
  <2>2. Len(line) <= QueueSize
    BY <1>9, <1>11, <2>1, QueueAssumption
  <2>3. \A j \in 0..Num : Line(j) \in Seq(TrafficFrames) /\ Len(Line(j)) <= QueueSize
    <3>1. \A j \in 0..Num : Line(j) \in Seq(TrafficFrames) /\ Len(Line(j)) \in 0..QueueSize
      BY TrafficFacts
    <3> QED
      BY <3>1, QueueAssumption
  <2> QED
    BY <1>10, <1>12, <2>2, <2>3
<1>14. Counted'
  <2>1. Fits(traffic.chan) /\ Fits(traffic'.chan)
    BY <1>13, TrafficFacts DEF Fits
  <2>2. \A j \in 0..Num : Len(traffic'.chan[<<0, j>>]) = Len(traffic.chan[<<0, j>>]) + IF j = i THEN 1 ELSE 0
    <3>1. \A j \in 0..Num : Len(Line(j)) \in Nat
      BY TrafficFacts
    <3>2. ASSUME NEW j \in 0..Num, j # i
          PROVE  Len(traffic'.chan[<<0, j>>]) = Len(traffic.chan[<<0, j>>]) + 0
      <4>1. traffic'.chan[<<0, j>>] = traffic.chan[<<0, j>>] /\ Len(traffic.chan[<<0, j>>]) \in Nat
        BY <1>12, <3>1, <3>2 DEF Line
      <4> QED
        BY <4>1
    <3>3. Len(traffic'.chan[<<0, i>>]) = Len(traffic.chan[<<0, i>>]) + 1
      BY <1>11, <1>12 DEF Line
    <3> QED
      BY <3>2, <3>3
  <2>3. Cardinality(SlotsIn(traffic'.chan)) = Cardinality(SlotsIn(traffic.chan)) + 1
    BY <1>1, <2>1, <2>2, OneMore
  <2>4. Queued(0)' = Queued(0) + 1 /\ Queued(0) \in Nat
    BY <2>3, QueuedIn, TrafficFacts
  <2>5. traffic.count = Queued(0) + (IF At("acktraffic") THEN 1 ELSE 0)
    BY DEF TrafficHalf, Counted
  <2>6. traffic.count + 1 = Queued(0) + 1 + (IF At("acktraffic") THEN 1 ELSE 0)
    BY <2>4, <2>5
  <2> QED
    BY <1>2, <1>3, <2>4, <2>6 DEF Counted, At
<1>15. CountIsBounded'
  <2>1. Cardinality(Sent)' = Cardinality(Sent) + 1
    BY <1>3, SentOneMore
  <2>2. traffic.count <= Cardinality(Sent) /\ traffic.count \in Nat /\ Cardinality(Sent) \in Nat
    BY SentOf, TrafficFacts DEF TrafficHalf, CountIsBounded
  <2> QED
    BY <1>2, <2>1, <2>2 DEF CountIsBounded
<1>16. PushIsPending'
  BY <1>3 DEF PushIsPending, Unlocked
<1>17. TrafficIsOld'
  <2>1. (traffic.gen = IF life = "gone" THEN 1 ELSE 0) /\ writer.traffic[1] <= traffic.gen
        /\ \A j \in 0..Num : traffic.chan[<<1, j>>] = <<>>
    BY DEF TrafficHalf, TrafficIsOld
  <2>2. \A j \in 0..Num : traffic'.chan[<<1, j>>] = <<>> /\ Len(Line(j)') <= QueueSize
    BY <1>12, <1>13, <2>1 DEF Line
  <2> QED
    BY <1>2, <1>3, <2>1, <2>2 DEF TrafficIsOld
<1>18. writer.traffic \in Channels /\ \A c \in Channels : traffic.chan[c] # <<>> => traffic'.chan[c] # <<>>
  BY <1>1, <1>10, <1>12 DEF QueueTypes
<1>19. ChoosesWork'
  <2>1. ASSUME At("wait"), writer.traffic = <<0, 0>>, traffic.count = 0 PROVE traffic'.chan[<<0, 0>>] # <<>>
    BY <1>1, <1>10, <1>12, <2>1
  <2> QED
    BY <1>1, <1>2, <1>3, <1>18, <2>1 DEF TrafficHalf, ChoosesWork, At
<1>20. ChoosesTheOldest'
  <2>1. ASSUME At("wait"), writer.traffic[1] = 0, writer.traffic[2] # 0
        PROVE  traffic'.chan[<<0, 0>>] = <<>> /\ traffic'.chan[<<0, writer.traffic[2]>>] # <<>>
    <3>1. Line(0) = <<>> /\ Line(writer.traffic[2]) # <<>> /\ writer.traffic[2] \in 0..Num /\ 0 \in 0..Num
      BY <1>1, <2>1, QueueAssumption DEF TrafficHalf, ChoosesTheOldest, QueueTypes, Channels
    <3>2. i # 0
      BY <1>1, <3>1
    <3> QED
      BY <1>10, <1>12, <3>1, <3>2
  <2> QED
    BY <1>3, <2>1 DEF ChoosesTheOldest, At, Line
<1> QED
  BY <1>10, <1>12, <1>14, <1>15, <1>16, <1>17, <1>19, <1>20 DEF TrafficHalf

LEMMA TrafficWhenFull ==
  ASSUME QueueTypes, TrafficHalf, NEW f \in Flow, PushTraffic(f),
         ~(Len(Queue(QueueFor(f))) < QueueSize)
  PROVE  TrafficHalf'
<1> DEFINE i == QueueFor(f)
           frame == [of |-> f, number |-> pushed[f] + 1]
<1>1. /\ traffic.gen = 0 /\ Unlocked /\ i \in 0..Num /\ (i # 0 => i = Hash[f] + 1)
      /\ (i = 0 <=> traffic.count = 0) /\ Queue(i) = Line(i)
      /\ traffic.count = 0 => \A j \in 0..Num : Line(j) = <<>>
  BY QueueChosen
<1>2. /\ traffic' = traffic /\ life' = life /\ pushing' = <<frame, i>> /\ writer' = writer
      /\ wrote' = wrote /\ pushing = <<>>
      /\ pushed' = [pushed EXCEPT ![f] = @ + 1] /\ pushed[f] < MaxTraffic
  BY <1>1 DEF PushTraffic, Unlocked
<1>3. pushed[f] \in Nat /\ frame \in TrafficFrames /\ frame.of = f /\ frame.number = pushed[f] + 1
  BY <1>2, TrafficFacts, QueueAssumption DEF TrafficFrames
<1>4. \A h \in Flow : pushed'[h] = (IF h = f THEN pushed[f] + 1 ELSE pushed[h]) /\ pushed[h] \in Nat
  BY <1>2 DEF QueueTypes
<1>5. Len(Line(i)) = QueueSize
  <2>1. Len(Line(i)) \in 0..QueueSize /\ ~(Len(Line(i)) < QueueSize)
    BY <1>1, TrafficFacts
  <2> QED
    BY <2>1, QueueAssumption
<1> HIDE DEF i, frame
<1>6. traffic.count >= 2
  <2>1. Queued(0) >= 2 /\ Queued(0) \in Nat
    BY <1>1, <1>5, TrafficFacts, QueuedOf
  <2>2. traffic.count = Queued(0) + (IF At("acktraffic") THEN 1 ELSE 0)
    BY DEF TrafficHalf, Counted
  <2> QED
    BY <2>1, <2>2
<1>7. i = Hash[f] + 1 /\ i \in 1..Num
  BY <1>1, <1>6
<1>8. pushing'[1] = frame /\ pushing'[2] = i /\ pushing' # <<>>
  BY <1>2
<1>9. \A h \in Flow : Newest(h)' = Newest(h)
  BY <1>2, <1>3, <1>4, <1>8 DEF Newest, Unlocked
<1>10. FramesInOrder'
  BY <1>2, <1>9, OrderUntouched DEF TrafficHalf, Held, At, FramesInOrder
<1>11. PushIsPending'
  BY <1>2, <1>3, <1>4, <1>6, <1>7, <1>8 DEF PushIsPending
<1>12. CountIsBounded'
  <2>1. Cardinality(Sent)' = Cardinality(Sent) + 1
    BY <1>2, SentOneMore
  <2>2. traffic.count <= Cardinality(Sent) /\ traffic.count \in Nat /\ Cardinality(Sent) \in Nat
    BY SentOf, TrafficFacts DEF TrafficHalf, CountIsBounded
  <2> QED
    BY <1>2, <2>1, <2>2 DEF CountIsBounded
<1>13. Counted' /\ TrafficIsOld' /\ ChoosesWork' /\ ChoosesTheOldest'
  BY <1>2, QueuedIn DEF TrafficHalf, Counted, TrafficIsOld, ChoosesWork, ChoosesTheOldest, At, Line
<1> QED
  BY <1>10, <1>11, <1>12, <1>13 DEF TrafficHalf

(* The head drop: as many frames as before, and one of them is the newest.    *)
LEMMA TrafficWhenHeadDropped ==
  ASSUME QueueTypes, TrafficHalf, HeadDrop, Queueing
  PROVE  TrafficHalf' /\ traffic'.chan \in [Channels -> Seq(TrafficFrames)]
<1>1. /\ pushing # <<>> /\ traffic.gen = 0 /\ pushing' = <<>> /\ life' = life
      /\ writer' = writer /\ pushed' = pushed /\ wrote' = wrote
  BY DEF HeadDrop, Unlocked, Queueing, TrafficHalf, TrafficIsOld
<1>2. /\ pushing \in TrafficFrames \X (1..Num) /\ pushing[2] = Hash[pushing[1].of] + 1
      /\ pushing[1].number = pushed[pushing[1].of] /\ traffic.count >= 2
  BY <1>1 DEF TrafficHalf, PushIsPending, Unlocked
<1>3. PICK frame \in TrafficFrames, i \in 1..Num : frame = pushing[1] /\ i = pushing[2]
  BY <1>2
<1>4. i \in 0..Num /\ i # 0 /\ i = Hash[frame.of] + 1 /\ frame.number = pushed[frame.of]
      /\ frame.of \in Flow /\ frame.number \in Nat
  BY <1>2, <1>3, FrameKinds
<1>5. traffic.chan \in [Channels -> Seq(TrafficFrames)] /\ <<0, i>> \in Channels
  BY <1>4, TrafficFacts DEF QueueTypes
<1> DEFINE line == Append(Tail(Line(i)), frame)
<1>6. Line(i) # <<>> /\ Line(i) \in Seq(TrafficFrames) /\ Sorted(Line(i))
  <2>1. Line(i) # <<>>
    BY <1>1, <1>3 DEF HeadDrop, Line
  <2> QED
    BY <1>4, <2>1, TrafficFacts DEF TrafficHalf, FramesInOrder
<1>7. traffic'.chan = [traffic.chan EXCEPT ![<<0, i>>] = line]
      /\ traffic'.count = traffic.count /\ traffic'.gen = traffic.gen
  <2>1. ~(traffic.count - 1 = 0)
    BY <1>2, TrafficFacts
  <2>2. traffic' = [traffic EXCEPT !.chan =
                      [[traffic.chan EXCEPT ![<<0, i>>] = Tail(@)] EXCEPT ![<<0, i>>] = Append(@, frame)]]
    BY <1>1, <1>3, <2>1 DEF HeadDrop
  <2>3. /\ traffic'.chan = [[traffic.chan EXCEPT ![<<0, i>>] = Tail(@)] EXCEPT ![<<0, i>>] = Append(@, frame)]
        /\ traffic'.count = traffic.count /\ traffic'.gen = traffic.gen
    BY <2>2 DEF QueueTypes
  <2> QED
    BY <1>5, <2>3 DEF Line
<1>8. /\ Tail(Line(i)) \in Seq(TrafficFrames) /\ Sorted(Tail(Line(i)))
      /\ Len(Tail(Line(i))) = Len(Line(i)) - 1 /\ Range(Tail(Line(i))) \subseteq Range(Line(i))
      /\ Len(Line(i)) \in Nat
  BY <1>6, WithoutTheFirst
<1>9. /\ Newest(frame.of) + 1 = frame.number /\ Newest(frame.of)' = frame.number
      /\ \A f \in Flow : f # frame.of => Newest(f)' = Newest(f)
  <2>1. \A f \in Flow : Newest(f) = (IF frame.of = f THEN pushed[f] - 1 ELSE pushed[f]) /\ Newest(f)' = pushed[f]
    BY <1>1, <1>3 DEF Newest, Unlocked
  <2> QED
    BY <1>4, <2>1
<1>10. FramesInOrder' /\ line # <<>> /\ line \in Seq(TrafficFrames)
  BY <1>1, <1>4, <1>7, <1>8, <1>9, FrameAppended
<1>11. Len(line) = Len(Line(i))
  <2>1. Len(line) = Len(Tail(Line(i))) + 1
    BY <1>8, AppendProperties
  <2> QED
    BY <1>8, <2>1
<1> HIDE DEF line
<1>12. /\ traffic'.chan \in [Channels -> Seq(TrafficFrames)]
       /\ \A j \in 0..Num : /\ traffic'.chan[<<0, j>>] = IF j = i THEN line ELSE Line(j)
                            /\ traffic'.chan[<<1, j>>] = traffic.chan[<<1, j>>]
       /\ \A c \in Channels : c # <<0, i>> => traffic'.chan[c] = traffic.chan[c]
  BY <1>4, <1>7, <1>10, OneLineChanges
<1>13. \A j \in 0..Num : /\ traffic'.chan[<<0, j>>] \in Seq(TrafficFrames)
                         /\ Len(traffic'.chan[<<0, j>>]) = Len(Line(j))
                         /\ Len(Line(j)) <= QueueSize
  <2>1. \A j \in 0..Num : Line(j) \in Seq(TrafficFrames)
    BY TrafficFacts
  <2> QED
    BY <1>10, <1>11, <1>12, <2>1 DEF TrafficHalf, TrafficIsOld
<1>14. Counted'
  <2>1. Fits(traffic.chan) /\ Fits(traffic'.chan)
    BY <1>13, TrafficFacts DEF Fits
  <2>2. SlotsIn(traffic'.chan) = SlotsIn(traffic.chan)
    <3>1. \A j \in 0..Num : Len(traffic'.chan[<<0, j>>]) = Len(traffic.chan[<<0, j>>])
      BY <1>13 DEF Line
    <3>2. QED
      BY <2>1, <3>1, SlotsByLength
  <2> QED
    BY <1>1, <1>7, <2>2, QueuedIn DEF TrafficHalf, Counted, At
<1>15. CountIsBounded' /\ PushIsPending'
  BY <1>1, <1>7 DEF TrafficHalf, CountIsBounded, Sent, PushIsPending, Unlocked
<1>16. TrafficIsOld'
  BY <1>1, <1>7, <1>12, <1>13 DEF TrafficHalf, TrafficIsOld, Line
<1>17. writer.traffic \in Channels /\ \A c \in Channels : traffic.chan[c] # <<>> => traffic'.chan[c] # <<>>
  BY <1>4, <1>10, <1>12 DEF QueueTypes
<1>18. ChoosesWork'
  BY <1>1, <1>7, <1>17 DEF TrafficHalf, ChoosesWork, At
<1>19. ChoosesTheOldest'
  <2>1. ASSUME At("wait"), writer.traffic[1] = 0, writer.traffic[2] # 0
        PROVE  traffic'.chan[<<0, 0>>] = <<>> /\ traffic'.chan[<<0, writer.traffic[2]>>] # <<>>
    <3>1. Line(0) = <<>> /\ Line(writer.traffic[2]) # <<>> /\ writer.traffic[2] \in 0..Num /\ 0 \in 0..Num
      BY <1>1, <2>1, QueueAssumption DEF TrafficHalf, ChoosesTheOldest, QueueTypes, Channels
    <3> QED
      BY <1>4, <1>10, <1>12, <3>1
  <2> QED
    BY <1>1, <2>1 DEF ChoosesTheOldest, At, Line
<1> QED
  BY <1>10, <1>12, <1>14, <1>15, <1>16, <1>18, <1>19 DEF TrafficHalf

(* Receiving: the first of a queue, which no frame of its flow precedes in    *)
(* another, is in the writer's hands, and still counted.                      *)
LEMMA TrafficWhenReceived ==
  ASSUME QueueTypes, TrafficHalf, ReceiveTraffic
  PROVE  /\ TrafficHalf' /\ traffic'.chan \in [Channels -> Seq(TrafficFrames)]
         /\ writer'.frame \in TrafficFrames
<1>1. /\ writer.pc = "wait" /\ writer'.pc = "acktraffic" /\ writer'.traffic = writer.traffic
      /\ writer'.frame = Head(traffic.chan[writer.traffic]) /\ traffic.chan[writer.traffic] # <<>>
      /\ life' = life /\ pushing' = pushing /\ pushed' = pushed /\ wrote' = wrote
  BY DEF ReceiveTraffic, TrafficReady, At, QueueTypes
<1>2. traffic.chan \in [Channels -> Seq(TrafficFrames)] /\ writer.traffic \in Channels
  BY DEF QueueTypes
<1>3. PICK i \in 0..Num : writer.traffic = <<0, i>>
  <2>1. PICK g \in 0..1, i \in 0..Num : writer.traffic = <<g, i>>
    BY <1>2 DEF Channels
  <2>2. g # 1
    BY <1>1, <2>1 DEF TrafficHalf, TrafficIsOld
  <2>3. g = 0
    BY <2>1, <2>2
  <2> QED
    BY <2>1, <2>3
<1>4. Line(i) # <<>> /\ Line(i) \in Seq(TrafficFrames) /\ Sorted(Line(i)) /\ writer'.frame = Head(Line(i))
  BY <1>1, <1>3, TrafficFacts DEF Line, TrafficHalf, FramesInOrder
<1>5. PICK frame \in TrafficFrames : frame = Head(Line(i))
  BY <1>4, WithoutTheFirst
<1>6. frame.of \in Flow /\ frame.number \in Nat
  BY FrameKinds
<1> DEFINE line == Tail(Line(i))
<1>7. /\ line \in Seq(TrafficFrames) /\ Sorted(line) /\ Len(line) = Len(Line(i)) - 1
      /\ Range(line) \subseteq Range(Line(i)) /\ frame \in Range(Line(i)) /\ Len(Line(i)) \in Nat \ {0}
      /\ \A x \in Range(line) : Older(frame, x)
  BY <1>4, <1>5, WithoutTheFirst
<1>8. traffic'.chan = [traffic.chan EXCEPT ![<<0, i>>] = line]
      /\ traffic'.count = traffic.count /\ traffic'.gen = traffic.gen
  <2>1. /\ traffic'.chan = [traffic.chan EXCEPT ![<<0, i>>] = Tail(@)]
        /\ traffic'.count = traffic.count /\ traffic'.gen = traffic.gen
    BY <1>3 DEF ReceiveTraffic, QueueTypes
  <2>2. <<0, i>> \in Channels
    BY TrafficFacts
  <2> QED
    BY <1>2, <2>1, <2>2 DEF Line
<1> HIDE DEF line
<1>9. /\ traffic'.chan \in [Channels -> Seq(TrafficFrames)]
      /\ \A j \in 0..Num : /\ traffic'.chan[<<0, j>>] = IF j = i THEN line ELSE Line(j)
                           /\ traffic'.chan[<<1, j>>] = traffic.chan[<<1, j>>]
  BY <1>7, <1>8, OneLineChanges
<1>10. \A j \in 0..Num : /\ Line(j)' \in Seq(TrafficFrames) /\ Sorted(Line(j)')
                         /\ Range(Line(j)') \subseteq Range(Line(j))
                         /\ Len(Line(j)) = Len(Line(j)') + IF j = i THEN 1 ELSE 0
                         /\ Len(Line(j)') <= QueueSize
  <2>1. ASSUME NEW j \in 0..Num, j # i
        PROVE  /\ Line(j)' \in Seq(TrafficFrames) /\ Sorted(Line(j)')
               /\ Range(Line(j)') \subseteq Range(Line(j))
               /\ Len(Line(j)) = Len(Line(j)') + 0 /\ Len(Line(j)') <= QueueSize
    <3>1. Line(j)' = Line(j)
      BY <1>9, <2>1 DEF Line
    <3>2. Line(j) \in Seq(TrafficFrames) /\ Len(Line(j)) \in Nat /\ Len(Line(j)) <= QueueSize /\ Sorted(Line(j))
      <4>1. Line(j) \in Seq(TrafficFrames) /\ Len(Line(j)) \in 0..QueueSize
        BY TrafficFacts
      <4>2. Sorted(Line(j))
        BY DEF TrafficHalf, FramesInOrder
      <4> QED
        BY <4>1, <4>2, QueueAssumption
    <3> QED
      BY <3>1, <3>2
  <2>2. Line(i)' = line
    BY <1>9 DEF Line
  <2>3. Len(Line(i)) <= QueueSize
    BY DEF TrafficHalf, TrafficIsOld
  <2>4. Len(Line(i)) = Len(line) + 1 /\ Len(line) <= QueueSize
    BY <1>7, <2>3, QueueAssumption
  <2> QED
    BY <1>7, <2>1, <2>2, <2>4
<1>11. /\ \A j \in 1..Num : \A x \in Range(Line(j)) :
            Hash[x.of] + 1 = j /\ \A y \in Range(Line(0)) : Older(y, x)
       /\ \A j \in 0..Num : \A x \in Range(Line(j)) : wrote[x.of] < x.number /\ x.number <= Newest(x.of)
       /\ \A f \in Flow : wrote[f] <= Newest(f)
  BY DEF TrafficHalf, FramesInOrder
<1>12. \A j \in 0..Num : \A x \in Range(Line(j)') : Older(frame, x)
  <2>1. CASE i = 0
    <3>1. ASSUME NEW j \in 1..Num, NEW x \in Range(Line(j)') PROVE Older(frame, x)
      BY <1>7, <1>10, <1>11, <2>1, <3>1
    <3>2. \A x \in Range(Line(0)') : Older(frame, x)
      BY <1>7, <1>9, <2>1 DEF Line
    <3> QED
      BY <3>1, <3>2
  <2>2. CASE i # 0
    <3>1. Line(0) = <<>> /\ 0 \in 0..Num
      BY <1>1, <1>3, <2>2, QueueAssumption DEF TrafficHalf, ChoosesTheOldest, At
    <3>2. Range(Line(0)) = {}
      BY <3>1 DEF Range
    <3>3. Hash[frame.of] + 1 = i
      BY <1>7, <1>11, <2>2
    <3>4. ASSUME NEW j \in 1..Num, NEW x \in Range(Line(j)') PROVE Older(frame, x)
      <4>1. CASE j = i
        BY <1>7, <1>9, <4>1 DEF Line
      <4>2. CASE j # i
        BY <1>10, <1>11, <3>3, <4>2 DEF Older, Same
      <4> QED
        BY <4>1, <4>2
    <3>5. Range(Line(0)') = {}
      BY <1>10, <3>1, <3>2
    <3> QED
      BY <3>4, <3>5
  <2> QED
    BY <2>1, <2>2
<1>13. wrote[frame.of] < frame.number /\ frame.number <= Newest(frame.of)
  BY <1>7, <1>11
<1>14. \A f \in Flow : Newest(f)' = Newest(f)
  BY <1>1 DEF Newest, Unlocked
<1>15. writer'.frame = frame
  BY <1>4, <1>5
<1>16. FramesInOrder'
  <2>1. (\A j \in 0..Num : Sorted(Line(j)))'
    BY <1>10 DEF Sorted, Older, Same
  <2>2. (\A j \in 1..Num : \A x \in Range(Line(j)) :
            Hash[x.of] + 1 = j /\ \A y \in Range(Line(0)) : Older(y, x))'
    <3> SUFFICES ASSUME NEW j \in 1..Num, NEW x \in Range(Line(j)')
                 PROVE  Hash[x.of] + 1 = j /\ \A y \in Range(Line(0)') : Older(y, x)
      BY DEF Older, Same, Range
    <3>1. 0 \in 0..Num /\ j \in 0..Num
      BY QueueAssumption
    <3>2. x \in Range(Line(j)) /\ Range(Line(0)') \subseteq Range(Line(0))
      BY <1>10, <3>1
    <3> QED
      BY <1>11, <3>2
  <2>3. (\A j \in 0..Num : \A x \in Range(Line(j)) :
            /\ wrote[x.of] < x.number /\ x.number <= Newest(x.of)
            /\ Held => Older(writer.frame, x))'
    <3> SUFFICES ASSUME NEW j \in 0..Num, NEW x \in Range(Line(j)')
                 PROVE  wrote[x.of] < x.number /\ x.number <= Newest(x.of)' /\ Older(frame, x)
      BY <1>1, <1>15 DEF Older, Same, Range
    <3>1. x \in Range(Line(j))
      BY <1>10
    <3>2. x.of \in Flow
      BY <3>1, TrafficFacts
    <3> QED
      BY <1>11, <1>12, <1>14, <3>1, <3>2
  <2>4. (Held /\ writer.frame \in TrafficFrames =>
           wrote[writer.frame.of] < writer.frame.number /\ writer.frame.number <= Newest(writer.frame.of))'
    <3>1. Newest(frame.of)' = Newest(frame.of)
      BY <1>6, <1>14
    <3>2. Newest(writer.frame.of)' = Newest(frame.of)
      BY <1>1, <1>15, <3>1 DEF Newest, Unlocked
    <3> QED
      BY <1>1, <1>13, <1>15, <3>2
  <2>5. (\A f \in Flow : wrote[f] <= Newest(f))'
    BY <1>1, <1>11, <1>14
  <2>6. (/\ At("acktraffic") => writer.frame \in TrafficFrames
         /\ At("ackproto") => writer.frame \notin TrafficFrames)'
    BY <1>1, <1>15 DEF At
  <2> QED
    BY <2>1, <2>2, <2>3, <2>4, <2>5, <2>6 DEF FramesInOrder
<1>17. Counted'
  <2>1. Fits(traffic.chan) /\ Fits(traffic'.chan)
    BY <1>10, TrafficFacts DEF Fits, Line
  <2>2. Cardinality(SlotsIn(traffic.chan)) = Cardinality(SlotsIn(traffic'.chan)) + 1
    BY <1>10, <2>1, OneMore DEF Line
  <2>3. Queued(0) = Queued(0)' + 1
    BY <2>2, QueuedIn
  <2>4. traffic.count = Queued(0)
    BY <1>1, TrafficFacts DEF TrafficHalf, Counted, At
  <2> QED
    BY <1>1, <1>8, <2>3, <2>4 DEF Counted, At
<1>18. CountIsBounded' /\ PushIsPending'
  BY <1>1, <1>8 DEF TrafficHalf, CountIsBounded, Sent, PushIsPending, Unlocked
<1>19. TrafficIsOld'
  BY <1>1, <1>8, <1>9, <1>10 DEF TrafficHalf, TrafficIsOld
<1>20. ChoosesWork' /\ ChoosesTheOldest'
  BY <1>1 DEF ChoosesWork, ChoosesTheOldest, At
<1> QED
  BY <1>9, <1>15, <1>16, <1>17, <1>18, <1>19, <1>20 DEF TrafficHalf

(* Acknowledging: the frame in the writer's hands is counted down.            *)
LEMMA TrafficWhenAcknowledged ==
  ASSUME QueueTypes, TrafficHalf, AckTraffic PROVE TrafficHalf' /\ traffic'.count \in Nat
<1>1. /\ writer.pc = "acktraffic" /\ writer'.pc = "check" /\ writer'.frame = writer.frame
      /\ writer'.traffic = writer.traffic
      /\ traffic'.chan = traffic.chan /\ traffic'.count = traffic.count - 1 /\ traffic'.gen = traffic.gen
      /\ life' = life /\ pushing' = pushing /\ pushing = <<>> /\ pushed' = pushed /\ wrote' = wrote
  BY DEF AckTraffic, GoTo, At, Unlocked, QueueTypes
<1>2. Queued(0)' = Queued(0) /\ Queued(0) \in Nat
  BY <1>1, QueuedIn, TrafficFacts
<1>3. traffic.count = Queued(0) + 1
  BY <1>1 DEF TrafficHalf, Counted, At
<1>4. Counted' /\ traffic'.count \in Nat /\ traffic'.count <= traffic.count
  BY <1>1, <1>2, <1>3 DEF Counted, At
<1>5. CountIsBounded'
  <2>1. Sent' = Sent
    BY <1>1 DEF Sent
  <2>2. traffic.count <= Cardinality(Sent) /\ Cardinality(Sent) \in Nat
    BY SentOf DEF TrafficHalf, CountIsBounded
  <2> QED
    BY <1>3, <1>2, <1>4, <2>1, <2>2 DEF CountIsBounded
<1>6. PushIsPending' /\ TrafficIsOld' /\ ChoosesWork' /\ ChoosesTheOldest'
  BY <1>1 DEF TrafficHalf, PushIsPending, Unlocked, TrafficIsOld, ChoosesWork, ChoosesTheOldest, At, Line
<1>7. \A f \in Flow : Newest(f)' = Newest(f)
  BY <1>1 DEF Newest, Unlocked
<1>8. FramesInOrder'
  BY <1>1, <1>7, OrderUntouched DEF TrafficHalf, Held, At
<1> QED
  BY <1>4, <1>5, <1>6, <1>8 DEF TrafficHalf

(* Popping: round robin from the queue taken last, when the shared one is     *)
(* empty.                                                                     *)
LEMMA LeastIsMin ==
  ASSUME NEW S \in SUBSET Nat, S # {} PROVE Min(S) \in S
<1>1. PICK x \in S : \A y \in S : ~(<<y, x>> \in OpToRel(<, Nat))
  BY NatLessThanWellFounded, WFMin
<1>2. \A y \in S : ~(y < x)
  BY <1>1 DEF OpToRel
<1>3. \A y \in S : x <= y
  BY <1>2
<1> QED
  BY <1>3 DEF Min

LEMMA NextHoldsAFrame ==
  ASSUME QueueTypes, Waiting # {}
  PROVE  NextQueue \in 1..Num /\ Queue(NextQueue) # <<>>
<1>1. Waiting \in SUBSET Nat
  BY QueueAssumption DEF Waiting
<1>2. Min(Waiting) \in Waiting
  BY <1>1, LeastIsMin
<1>3. PICK d \in 1..Num + 1 : d = Min(Waiting) /\ (traffic.n + d) % (Num + 1) # 0
                              /\ Queue((traffic.n + d) % (Num + 1)) # <<>>
  BY <1>2 DEF Waiting
<1>4. (traffic.n + d) % (Num + 1) \in 0..Num
  <2>1. traffic.n + d \in Nat /\ Num + 1 \in Nat \ {0}
    BY QueueAssumption DEF QueueTypes
  <2>2. \A a \in Nat, b \in Nat \ {0} : a % b \in 0..b - 1
    OBVIOUS
  <2>3. (traffic.n + d) % (Num + 1) \in 0..(Num + 1) - 1
    BY <2>1, <2>2
  <2>4. (Num + 1) - 1 = Num
    BY QueueAssumption
  <2> QED
    BY <2>3, <2>4
<1>5. NextQueue = (traffic.n + d) % (Num + 1)
  BY <1>3 DEF NextQueue
<1> QED
  BY <1>3, <1>4, <1>5

LEMMA TrafficWhenPopped ==
  ASSUME QueueTypes, TrafficHalf, PopTraffic
  PROVE  /\ TrafficHalf' /\ writer'.traffic \in Channels /\ traffic'.n \in 0..Num
         /\ traffic'.chan = traffic.chan /\ traffic'.count = traffic.count /\ traffic'.gen = traffic.gen
<1>1. /\ writer.pc = "third" /\ writer'.pc = "wait" /\ writer'.frame = writer.frame
      /\ traffic'.chan = traffic.chan /\ traffic'.count = traffic.count /\ traffic'.gen = traffic.gen
      /\ life' = life /\ pushing' = pushing /\ pushed' = pushed /\ wrote' = wrote
  BY DEF PopTraffic, At, QueueTypes
<1>2. PICK i \in 0..Num :
        /\ writer'.traffic = <<traffic.gen, i>>
        /\ (traffic.count = 0 /\ i = 0) \/ Queue(i) # <<>>
        /\ i # 0 => Queue(0) = <<>>
        /\ traffic'.n \in 0..Num
  <2>1. CASE traffic.count = 0 \/ Queue(0) # <<>>
    <3>1. writer'.traffic = <<traffic.gen, 0>> /\ traffic' = traffic
      BY <2>1 DEF PopTraffic, QueueTypes
    <3>2. traffic.n \in 0..Num /\ 0 \in 0..Num
      BY QueueAssumption DEF QueueTypes
    <3> QED
      BY <2>1, <3>1, <3>2
  <2>2. CASE ~(traffic.count = 0 \/ Queue(0) # <<>>)
    <3>1. NextQueue \in 1..Num /\ Queue(NextQueue) # <<>>
      BY <2>2, NextHoldsAFrame DEF PopTraffic, PopDefined
    <3>2. writer'.traffic = <<traffic.gen, NextQueue>> /\ traffic'.n = NextQueue
      BY <2>2 DEF PopTraffic, QueueTypes
    <3>3. NextQueue \in 0..Num
      BY <3>1
    <3> QED
      BY <2>2, <3>1, <3>2, <3>3
  <2> QED
    BY <2>1, <2>2
<1>3. traffic.gen \in 0..1 /\ writer'.traffic \in Channels
  BY <1>2 DEF QueueTypes, Channels
<1>4. ChoosesWork'
  BY <1>1, <1>2 DEF ChoosesWork, Queue
<1>5. ChoosesTheOldest'
  BY <1>1, <1>2 DEF ChoosesTheOldest, Queue, Line
<1>6. Counted' /\ CountIsBounded' /\ PushIsPending'
  BY <1>1, QueuedIn DEF TrafficHalf, Counted, CountIsBounded, Sent, PushIsPending, Unlocked, At
<1>7. TrafficIsOld'
  BY <1>1, <1>2, <1>3 DEF TrafficHalf, TrafficIsOld, Line
<1>8. \A f \in Flow : Newest(f)' = Newest(f)
  BY <1>1 DEF Newest, Unlocked
<1>9. FramesInOrder'
  BY <1>1, <1>8, OrderUntouched DEF TrafficHalf, Held, At
<1> QED
  BY <1>1, <1>2, <1>3, <1>4, <1>5, <1>6, <1>7, <1>9 DEF TrafficHalf

LEMMA TrafficWhenReset ==
  ASSUME QueueTypes, TrafficHalf, ResetTraffic
  PROVE  /\ TrafficHalf'
         /\ traffic'.chan = traffic.chan /\ traffic'.count = traffic.count /\ traffic'.gen = 1
<1>1. /\ life = "resetting" /\ life' = "gone" /\ writer' = writer /\ traffic'.gen = 1
      /\ traffic'.chan = traffic.chan /\ traffic'.count = traffic.count
      /\ pushing' = pushing /\ pushed' = pushed /\ wrote' = wrote
  BY DEF ResetTraffic, QueueTypes
<1>2. TrafficIsOld'
  <2>1. traffic.gen = 0
    BY <1>1 DEF TrafficHalf, TrafficIsOld
  <2> QED
    BY <1>1, <2>1 DEF TrafficHalf, TrafficIsOld, Line, QueueTypes, Channels
<1>3. ChoosesWork' /\ ChoosesTheOldest'
  BY <1>1 DEF TrafficHalf, ChoosesWork, ChoosesTheOldest, At, Line
<1>4. Counted' /\ CountIsBounded' /\ PushIsPending'
  BY <1>1, QueuedIn DEF TrafficHalf, Counted, CountIsBounded, Sent, PushIsPending, Unlocked, At
<1>5. \A f \in Flow : Newest(f)' = Newest(f)
  BY <1>1 DEF Newest, Unlocked
<1>6. FramesInOrder'
  BY <1>1, <1>5, OrderUntouched DEF TrafficHalf, Held, At, FramesInOrder
<1> QED
  BY <1>1, <1>2, <1>3, <1>4, <1>6 DEF TrafficHalf

(* Writing a frame of a flow: newer than what was written, and older than     *)
(* what is queued.                                                            *)
LEMMA TrafficWhenWritten ==
  ASSUME QueueTypes, TrafficHalf, Write, writer.frame \in TrafficFrames
  PROVE  /\ TrafficHalf' /\ \A f \in Flow : wrote'[f] >= wrote[f]
<1>1. PICK frame \in TrafficFrames : frame = writer.frame
  OBVIOUS
<1>2. /\ writer.pc = "check" /\ writer'.pc = "start" /\ writer'.traffic = writer.traffic
      /\ traffic' = traffic /\ life' = life /\ pushing' = pushing /\ pushed' = pushed
      /\ wrote' = [wrote EXCEPT ![frame.of] = frame.number]
  BY <1>1 DEF Write, GoTo, At, QueueTypes
<1>3. frame.of \in Flow /\ frame.number \in Nat
  BY FrameKinds
<1>4. \A f \in Flow : wrote'[f] = (IF f = frame.of THEN frame.number ELSE wrote[f]) /\ wrote[f] \in Nat
  BY <1>2, <1>3 DEF QueueTypes
<1>5. /\ wrote[frame.of] < frame.number /\ frame.number <= Newest(frame.of)
      /\ \A j \in 0..Num : \A x \in Range(Line(j)) : Older(frame, x)
  BY <1>1, <1>2 DEF TrafficHalf, FramesInOrder, Held, At
<1>6. \A f \in Flow : Newest(f)' = Newest(f)
  BY <1>2 DEF Newest, Unlocked
<1>7. \A j : Line(j)' = Line(j)
  BY <1>2 DEF Line
<1>8. FramesInOrder'
  <2>1. /\ \A j \in 0..Num : Sorted(Line(j))
        /\ \A j \in 1..Num : \A x \in Range(Line(j)) :
              Hash[x.of] + 1 = j /\ \A y \in Range(Line(0)) : Older(y, x)
        /\ \A j \in 0..Num : \A x \in Range(Line(j)) : wrote[x.of] < x.number /\ x.number <= Newest(x.of)
        /\ \A f \in Flow : wrote[f] <= Newest(f)
    BY DEF TrafficHalf, FramesInOrder
  <2>2. (\A j \in 0..Num : Sorted(Line(j)))'
    BY <1>7, <2>1 DEF Sorted, Older, Same
  <2>3. (\A j \in 1..Num : \A x \in Range(Line(j)) :
            Hash[x.of] + 1 = j /\ \A y \in Range(Line(0)) : Older(y, x))'
    BY <1>7, <2>1 DEF Older, Same, Range
  <2>4. (\A j \in 0..Num : \A x \in Range(Line(j)) : wrote[x.of] < x.number /\ x.number <= Newest(x.of))'
    <3> SUFFICES ASSUME NEW j \in 0..Num, NEW x \in Range(Line(j))
                 PROVE  wrote'[x.of] < x.number /\ x.number <= Newest(x.of)'
      BY <1>7 DEF Range
    <3>1. x.of \in Flow
      BY TrafficFacts
    <3> QED
      BY <1>4, <1>5, <1>6, <2>1, <3>1 DEF Older, Same
  <2>5. (\A f \in Flow : wrote[f] <= Newest(f))'
    BY <1>4, <1>5, <1>6, <2>1
  <2> QED
    BY <1>2, <2>2, <2>3, <2>4, <2>5 DEF FramesInOrder, Held, At
<1>9. Counted' /\ CountIsBounded' /\ PushIsPending'
  BY <1>2, QueuedIn DEF TrafficHalf, Counted, CountIsBounded, Sent, PushIsPending, Unlocked, At
<1>10. TrafficIsOld' /\ ChoosesWork' /\ ChoosesTheOldest'
  BY <1>2 DEF TrafficHalf, TrafficIsOld, ChoosesWork, ChoosesTheOldest, At, Line
<1>11. \A f \in Flow : wrote'[f] >= wrote[f]
  BY <1>3, <1>4, <1>5
<1> QED
  BY <1>8, <1>9, <1>10, <1>11 DEF TrafficHalf

LEMMA TrafficUnread ==
  ASSUME QueueTypes, TrafficHalf,
         \/ PushProto \/ Stop \/ Cancel \/ ResetProto
         \/ StartWrite \/ PopProto \/ PollDefault \/ Panic \/ GiveUp \/ Keepalive
         \/ ReceiveProto \/ AckProto \/ WriteFails
         \/ Write /\ writer.frame \notin TrafficFrames
  PROVE  TrafficHalf' /\ traffic' = traffic /\ writer'.traffic = writer.traffic
<1>1. traffic' = traffic /\ pushing' = pushing
  BY DEF PushProto, Stop, Cancel, ResetProto, StartWrite, PopProto, PollDefault, Panic, GiveUp, Keepalive,
         ReceiveProto, AckProto, WriteFails, Write
<1>2. TrafficIsOld' /\ writer'.traffic = writer.traffic
  <2>1. (life' = "gone" <=> life = "gone") /\ writer'.traffic = writer.traffic
    BY DEF PushProto, Stop, Cancel, ResetProto, StartWrite, PopProto, PollDefault, Panic, GiveUp, Keepalive,
           ReceiveProto, AckProto, WriteFails, Write, GoTo, Started, QueueTypes
  <2> QED
    BY <1>1, <2>1 DEF TrafficHalf, TrafficIsOld, Line
<1>3. \A f \in Flow : f \in Flow \cup {Proto} /\ f # Proto
  BY QueueAssumption DEF Proto
<1>4. CASE PushProto
  <2>1. \A f \in Flow : pushed'[f] = pushed[f]
    BY <1>3, <1>4 DEF PushProto, QueueTypes
  <2> QED
    BY <1>1, <1>2, <1>4, <2>1, TrafficUntouched DEF PushProto, Held, At, TrafficHalf, FramesInOrder
<1>5. CASE Stop \/ Cancel \/ ResetProto
  BY <1>1, <1>2, <1>5, TrafficUntouched
     DEF Stop, Cancel, ResetProto, Held, At, TrafficHalf, FramesInOrder
<1>6. CASE StartWrite \/ PollDefault \/ Panic \/ GiveUp \/ Keepalive \/ WriteFails
  <2>1. /\ writer'.pc \in {"first", "done", "second", "panicked", "start"} /\ writer.pc # "acktraffic"
        /\ pushed' = pushed /\ wrote' = wrote
    BY <1>6 DEF StartWrite, PollDefault, Panic, GiveUp, Keepalive, WriteFails, GoTo, At, QueueTypes
  <2> QED
    BY <1>1, <1>2, <2>1, TrafficUntouched DEF Held, At
<1>7. CASE PopProto
  <2>1. writer'.pc \in {"poll", "third"} /\ writer.pc # "acktraffic" /\ pushed' = pushed /\ wrote' = wrote
    BY <1>7 DEF PopProto, At, QueueTypes
  <2> QED
    BY <1>1, <1>2, <2>1, TrafficUntouched DEF Held, At
<1>8. CASE ReceiveProto
  <2>1. /\ writer'.pc = "ackproto" /\ writer.pc # "acktraffic" /\ pushed' = pushed /\ wrote' = wrote
        /\ writer'.frame \in ProtoFrames \cup {Open, Nil}
    BY <1>8 DEF ReceiveProto, At, QueueTypes
  <2>2. writer'.frame \notin TrafficFrames
    BY <2>1, FrameKinds
  <2> QED
    BY <1>1, <1>2, <2>1, <2>2, TrafficUntouched DEF Held, At
<1>9. CASE AckProto
  <2>1. /\ writer.pc = "ackproto" /\ writer'.pc = "check" /\ pushed' = pushed /\ wrote' = wrote
        /\ writer'.frame = writer.frame
    BY <1>9 DEF AckProto, GoTo, At, QueueTypes
  <2>2. writer'.frame \in ProtoFrames \cup {Nil}
    BY <2>1 DEF TrafficHalf, FramesInOrder, At, QueueTypes
  <2> QED
    BY <1>1, <1>2, <2>1, <2>2, TrafficUntouched DEF Held, At
<1>10. CASE Write /\ writer.frame \notin TrafficFrames
  <2>1. /\ writer.pc = "check" /\ writer'.pc = "start" /\ pushed' = pushed
        /\ wrote' = [wrote EXCEPT ![writer.frame.of] = writer.frame.number]
        /\ writer.frame \in ProtoFrames
    BY <1>10 DEF Write, GoTo, At, QueueTypes
  <2>2. \A f \in Flow : wrote'[f] = wrote[f]
    BY <1>3, <2>1, FrameKinds DEF QueueTypes
  <2> QED
    BY <1>1, <1>2, <2>1, <2>2, TrafficUntouched DEF Held, At
<1> QED
  BY <1>1, <1>2, <1>4, <1>5, <1>6, <1>7, <1>8, <1>9, <1>10

-----------------------------------------------------------------------------
(* Every step *)

(* What each step does to the queues, for the types.                          *)
LEMMA NextTraffic ==
  ASSUME QueueTypes, ProtoHalf, TrafficHalf, Next
  PROVE  /\ TrafficHalf'
         /\ traffic'.chan \in [Channels -> Seq(TrafficFrames)] /\ traffic'.count \in Nat
<1>1. traffic.chan \in [Channels -> Seq(TrafficFrames)] /\ traffic.count \in Nat
  BY DEF QueueTypes
<1>2. ASSUME NEW f \in Flow, PushTraffic(f)
      PROVE  /\ TrafficHalf' /\ traffic'.chan \in [Channels -> Seq(TrafficFrames)]
             /\ traffic'.count \in Nat
  <2>1. traffic'.count \in Nat
    <3>1. traffic'.count = traffic.count + 1 \/ traffic'.count = traffic.count
      BY <1>2 DEF PushTraffic, QueueTypes
    <3> QED
      BY <1>1, <3>1
  <2>2. CASE Len(Queue(QueueFor(f))) < QueueSize
    BY <1>2, <2>1, <2>2, TrafficWhenPushed
  <2>3. CASE ~(Len(Queue(QueueFor(f))) < QueueSize)
    BY <1>1, <1>2, <2>1, <2>3, TrafficWhenFull DEF PushTraffic
  <2> QED
    BY <2>2, <2>3
<1>3. CASE HeadDrop
  <2>1. Queueing
    BY <1>3 DEF HeadDrop, ProtoHalf, ResetIsLast
  <2>2. traffic'.count \in Nat
    BY <1>1, <1>3 DEF HeadDrop, QueueTypes
  <2> QED
    BY <1>3, <2>1, <2>2, TrafficWhenHeadDropped
<1>4. CASE ReceiveTraffic
  <2>1. traffic'.count \in Nat
    BY <1>1, <1>4 DEF ReceiveTraffic, QueueTypes
  <2> QED
    BY <1>4, <2>1, TrafficWhenReceived
<1>5. CASE AckTraffic
  <2>1. traffic'.chan = traffic.chan
    BY <1>5 DEF AckTraffic, QueueTypes
  <2> QED
    BY <1>1, <1>5, <2>1, TrafficWhenAcknowledged
<1>6. CASE PopTraffic
  BY <1>1, <1>6, TrafficWhenPopped
<1>7. CASE ResetTraffic
  BY <1>1, <1>7, TrafficWhenReset
<1>8. CASE Write /\ writer.frame \in TrafficFrames
  BY <1>1, <1>8, TrafficWhenWritten DEF Write
<1>9. CASE \/ PushProto \/ Stop \/ Cancel \/ ResetProto
           \/ StartWrite \/ PopProto \/ PollDefault \/ Panic \/ GiveUp \/ Keepalive
           \/ ReceiveProto \/ AckProto \/ WriteFails
           \/ Write /\ writer.frame \notin TrafficFrames
  BY <1>1, <1>9, TrafficUnread
<1> QED
  BY <1>2, <1>3, <1>4, <1>5, <1>6, <1>7, <1>8, <1>9 DEF Next, WriterStep, StateStep

LEMMA NextQueueTypes ==
  ASSUME QueueTypes, ProtoHalf, TrafficHalf, Next PROVE QueueTypes'
<1> DEFINE Writers == [pc : Places, proto : Boxes, traffic : Channels,
                       frame : TrafficFrames \cup ProtoFrames \cup {Nil}]
           Protos == [entries : Seq(Boxes), box : [Boxes -> ProtoFrames \cup {Open, Nil}], made : Boxes]
           Traffics == [gen : 0..1, chan : [Channels -> Seq(TrafficFrames)], count : Nat, n : 0..Num]
           Counters == /\ pushed \in [Flow \cup {Proto} -> Nat] /\ wrote \in [Flow \cup {Proto} -> Nat]
                       /\ pushed[Proto] <= MaxProto /\ \A f \in Flow : pushed[f] <= MaxTraffic
<1>1. life \in Lives /\ proto \in Protos /\ traffic \in Traffics /\ writer \in Writers /\ Counters
  BY DEF QueueTypes
<1>2. \A to \in Places : GoTo(to) => writer' \in Writers
  BY <1>1 DEF GoTo
<1>3. SUFFICES life' \in Lives /\ proto' \in Protos /\ traffic' \in Traffics /\ writer' \in Writers /\ Counters'
  BY DEF QueueTypes
<1>4. traffic'.chan \in [Channels -> Seq(TrafficFrames)] /\ traffic'.count \in Nat
  BY NextTraffic
<1>5. life' \in Lives
  BY <1>1 DEF Next, WriterStep, StateStep, PushProto, PushTraffic, HeadDrop, Stop, Cancel, ResetProto,
     ResetTraffic, StartWrite, PopProto, PopTraffic, PollDefault, Panic, GiveUp, Keepalive,
     ReceiveProto, ReceiveTraffic, AckProto, AckTraffic, WriteFails, Write, Lives, Started
<1>6. proto' \in Protos
  <2>1. proto.entries \in Seq(Boxes) /\ Len(proto.entries) \in Nat \ {0} /\ proto.made \in Boxes
        /\ pushed[Proto] \in 0..MaxProto /\ MaxProto \in Nat /\ Boxes = 1..MaxProto + 3
    BY LineOfChannels
  <2>2. ASSUME NEW p \in Protos, p.made + 1 \in Boxes PROVE Initialise(p) \in Protos
    <3>1. PICK new \in Boxes : new = p.made + 1
      BY <2>2
    <3>2. <<new>> \in Seq(Boxes)
      OBVIOUS
    <3>3. Initialise(p) = [p EXCEPT !.entries = <<new>>, !.made = new]
      BY <3>1 DEF Initialise
    <3> QED
      BY <3>2, <3>3
  <2>3. Queueing => proto.made = pushed[Proto] + 1
    BY DEF ProtoHalf, ProtoIsALine
  <2>4. Queueing => proto.made + 1 \in Boxes
    BY <2>1, <2>3
  <2>5. CASE PushProto
    <3>1. Queueing /\ pushed[Proto] < MaxProto
      BY <2>5 DEF PushProto, MayPush, Queueing
    <3>2. pushed[Proto] + 1 \in 1..MaxProto /\ proto.made + 1 \in Boxes
      BY <2>1, <2>4, <3>1
    <3>3. Append(proto.entries, proto.made + 1) \in Seq(Boxes)
      BY <2>1, <3>2, AppendProperties
    <3>4. [of |-> Proto, number |-> pushed[Proto] + 1] \in ProtoFrames
      BY <3>2 DEF ProtoFrames
    <3>5. [proto.box EXCEPT ![Last(proto.entries)] = [of |-> Proto, number |-> pushed[Proto] + 1]]
            \in [Boxes -> ProtoFrames \cup {Open, Nil}]
      BY <1>1, <3>4
    <3> QED
      BY <2>5, <3>2, <3>3, <3>5 DEF PushProto
  <2>6. CASE ResetProto
    <3> DEFINE box == [b \in Boxes |->
                 IF b \in Range(proto.entries) /\ proto.box[b] # Open THEN Nil ELSE proto.box[b]]
    <3>1. proto.made + 1 \in Boxes
      BY <2>4, <2>6 DEF ResetProto, Queueing
    <3>2. box \in [Boxes -> ProtoFrames \cup {Open, Nil}]
      BY <1>1
    <3>3. proto' = Initialise([proto EXCEPT !.box = box])
      BY <2>6 DEF ResetProto
    <3> HIDE DEF box
    <3>4. [proto EXCEPT !.box = box] \in Protos /\ [proto EXCEPT !.box = box].made = proto.made
      BY <1>1, <3>2
    <3> QED
      BY <2>2, <3>1, <3>3, <3>4
  <2>7. CASE ReceiveProto
    BY <1>1, <2>7 DEF ReceiveProto
  <2>8. CASE AckProto
    <3>1. CASE Len(proto.entries) = 1
      <4>1. CASE ~Queueing
        <5>1. proto.made <= pushed[Proto] + 2
          BY <2>8, <4>1 DEF ProtoHalf, ResetIsLast, AckProto, At
        <5>2. proto.made + 1 \in Boxes
          BY <2>1, <5>1
        <5> QED
          BY <1>1, <2>2, <2>8, <3>1, <5>2 DEF AckProto, AfterAck
      <4>2. CASE Queueing
        BY <1>1, <2>2, <2>4, <2>8, <3>1, <4>2 DEF AckProto, AfterAck
      <4> QED
        BY <4>1, <4>2
    <3>2. CASE Len(proto.entries) # 1
      <4>1. proto.entries # <<>>
        BY <2>1
      <4>2. Tail(proto.entries) \in Seq(Boxes)
        BY <2>1, <4>1, HeadTailProperties
      <4> QED
        BY <1>1, <2>8, <3>2, <4>2 DEF AckProto, AfterAck
    <3> QED
      BY <3>1, <3>2
  <2>9. CASE UNCHANGED proto
    BY <1>1, <2>9
  <2> QED
    BY <2>5, <2>6, <2>7, <2>8, <2>9 DEF Next, WriterStep, StateStep, PushTraffic, HeadDrop, Stop, Cancel,
       ResetTraffic, StartWrite, PopProto, PopTraffic, PollDefault, Panic, GiveUp, Keepalive,
       ReceiveTraffic, AckTraffic, WriteFails, Write
<1>7. traffic' \in Traffics
  <2>1. CASE \E f \in Flow : PushTraffic(f)
    <3>1. PICK f \in Flow : PushTraffic(f)
      BY <2>1
    <3>2. PICK chan, count : traffic' = [traffic EXCEPT !.chan = chan, !.count = count] \/ traffic' = traffic
      BY <3>1 DEF PushTraffic
    <3> QED
      BY <1>1, <1>4, <3>2
  <2>2. CASE HeadDrop
    <3>1. PICK chan : traffic' = [traffic EXCEPT !.chan = chan]
      BY <2>2 DEF HeadDrop
    <3> QED
      BY <1>1, <1>4, <3>1
  <2>3. CASE ReceiveTraffic
    <3>1. PICK chan : traffic' = [traffic EXCEPT !.chan = chan]
      BY <2>3 DEF ReceiveTraffic
    <3> QED
      BY <1>1, <1>4, <3>1
  <2>4. CASE AckTraffic
    BY <1>1, <1>4, <2>4 DEF AckTraffic
  <2>5. CASE PopTraffic
    <3>1. traffic'.n \in 0..Num
      BY <2>5, TrafficWhenPopped
    <3>2. PICK n : traffic' = [traffic EXCEPT !.n = n] \/ traffic' = traffic
      BY <2>5 DEF PopTraffic
    <3> QED
      BY <1>1, <3>1, <3>2
  <2>6. CASE ResetTraffic
    <3>1. traffic' = [traffic EXCEPT !.gen = 1] /\ 1 \in 0..1
      BY <2>6 DEF ResetTraffic
    <3> QED
      BY <1>1, <3>1
  <2>7. CASE UNCHANGED traffic
    BY <1>1, <2>7
  <2> QED
    BY <2>1, <2>2, <2>3, <2>4, <2>5, <2>6, <2>7 DEF Next, WriterStep, StateStep, PushProto, Stop, Cancel,
       ResetProto, StartWrite, PopProto, PollDefault, Panic, GiveUp, Keepalive,
       ReceiveProto, AckProto, WriteFails, Write
<1>8. writer' \in Writers
  <2>1. CASE PopProto
    <3>1. Head(proto.entries) \in Boxes
      BY LineOfChannels DEF First
    <3> QED
      BY <1>1, <2>1, <3>1 DEF PopProto, Places
  <2>2. CASE PopTraffic
    <3>1. writer'.traffic \in Channels
      BY <2>2, TrafficWhenPopped
    <3>2. PICK c : writer' = [writer EXCEPT !.pc = "wait", !.traffic = c]
      BY <2>2 DEF PopTraffic
    <3> QED
      BY <1>1, <3>1, <3>2 DEF Places
  <2>3. CASE ReceiveProto
    <3>1. proto.box[writer.proto] \in ProtoFrames \cup {Nil}
      BY <1>1, <2>3 DEF ReceiveProto, ProtoReady
    <3> QED
      BY <1>1, <2>3, <3>1 DEF ReceiveProto, Places
  <2>4. CASE ReceiveTraffic
    <3>1. writer'.frame \in TrafficFrames
      BY <2>4, TrafficWhenReceived
    <3>2. PICK frame : writer' = [writer EXCEPT !.pc = "acktraffic", !.frame = frame]
      BY <2>4 DEF ReceiveTraffic
    <3> QED
      BY <1>1, <3>1, <3>2 DEF Places
  <2>5. CASE StartWrite \/ Panic \/ GiveUp \/ PollDefault \/ Keepalive \/ AckProto \/ AckTraffic
             \/ WriteFails \/ Write
    <3>1. \E to \in Places : GoTo(to)
      BY <2>5 DEF StartWrite, Panic, GiveUp, PollDefault, Keepalive, AckProto, AckTraffic, WriteFails,
         Write, Places
    <3> QED
      BY <1>2, <3>1
  <2>6. CASE UNCHANGED writer
    BY <1>1, <2>6
  <2> QED
    BY <2>1, <2>2, <2>3, <2>4, <2>5, <2>6 DEF Next, WriterStep, StateStep, PushProto, PushTraffic,
       HeadDrop, Stop, Cancel, ResetProto, ResetTraffic
<1>9. Counters'
  <2>1. \A f \in Flow : f # Proto
    BY QueueAssumption DEF Proto
  <2>2. CASE PushProto
    <3>1. pushed' = [pushed EXCEPT ![Proto] = pushed[Proto] + 1] /\ wrote' = wrote
          /\ pushed[Proto] < MaxProto /\ pushed[Proto] \in Nat
      BY <1>1, <2>2 DEF PushProto
    <3>2. pushed[Proto] + 1 <= MaxProto
      BY <3>1, QueueAssumption
    <3> QED
      BY <1>1, <2>1, <3>1, <3>2
  <2>3. ASSUME NEW f \in Flow, PushTraffic(f) PROVE Counters'
    <3>1. pushed' = [pushed EXCEPT ![f] = pushed[f] + 1] /\ wrote' = wrote
          /\ pushed[f] < MaxTraffic /\ pushed[f] \in Nat
      BY <1>1, <2>3 DEF PushTraffic
    <3>2. pushed[f] + 1 <= MaxTraffic
      BY <3>1, QueueAssumption
    <3> QED
      BY <1>1, <2>1, <2>3, <3>1, <3>2
  <2>4. CASE Write
    <3>1. writer.frame \in TrafficFrames \cup ProtoFrames
      BY <1>1, <2>4 DEF Write
    <3>2. writer.frame.number \in Nat
      BY <3>1, FrameKinds
    <3> QED
      BY <1>1, <2>4, <3>2 DEF Write
  <2>5. CASE UNCHANGED <<pushed, wrote>>
    BY <1>1, <2>5
  <2> QED
    BY <2>2, <2>3, <2>4, <2>5 DEF Next, WriterStep, StateStep, HeadDrop, Stop, Cancel, ResetProto,
       ResetTraffic, StartWrite, PopProto, PopTraffic, PollDefault, Panic, GiveUp, Keepalive,
       ReceiveProto, ReceiveTraffic, AckProto, AckTraffic, WriteFails
<1> QED
  BY <1>5, <1>6, <1>7, <1>8, <1>9

LEMMA InitQueues == ASSUME Init PROVE QueuesIInv
<1>1. QueueTypes /\ ProtoHalf
  BY InitProto
<1>2. /\ life = "up" /\ writer.pc = "start" /\ writer.traffic = <<0, 0>> /\ writer.frame = Nil
      /\ pushing = <<>> /\ traffic.gen = 0 /\ traffic.count = 0
      /\ \A f \in Flow : pushed[f] = 0 /\ wrote[f] = 0
      /\ \A c \in Channels : traffic.chan[c] = <<>>
  BY DEF Init
<1>3. \A i \in 0..Num : Line(i) = <<>> /\ traffic.chan[<<1, i>>] = <<>> /\ Len(Line(i)) <= QueueSize
  <2>1. \A i \in 0..Num : <<0, i>> \in Channels /\ <<1, i>> \in Channels
    BY DEF Channels
  <2>2. Len(<<>>) <= QueueSize
    BY QueueAssumption
  <2> QED
    BY <1>2, <2>1, <2>2 DEF Line
<1>4. TrafficIsOld /\ PushIsPending /\ ChoosesWork /\ ChoosesTheOldest
  BY <1>2, <1>3 DEF TrafficIsOld, PushIsPending, Unlocked, ChoosesWork, ChoosesTheOldest, At
<1>5. Counted
  <2>1. Fits(traffic.chan)
    BY <1>1, <1>3, LineTypes DEF Fits, Line
  <2>2. Queued(0) = 0
    BY <1>3, <2>1, QueuedOf
  <2> QED
    BY <1>2, <2>2 DEF Counted, At
<1>6. CountIsBounded
  BY <1>1, <1>2, SentOf DEF CountIsBounded
<1>7. FramesInOrder
  <2>1. ASSUME NEW i \in 0..Num PROVE Sorted(Line(i)) /\ Range(Line(i)) = {}
    <3>1. Sorted(<<>>)
      BY DEF Sorted
    <3>2. Range(<<>>) = {}
      BY DEF Range
    <3>3. Line(i) = <<>>
      BY <1>3
    <3> QED
      BY <3>1, <3>2, <3>3
  <2>2. \A f \in Flow : wrote[f] <= Newest(f)
    BY <1>2 DEF Newest, Unlocked
  <2> QED
    BY <1>2, <2>1, <2>2 DEF FramesInOrder, Held, At
<1> QED
  BY <1>1, <1>4, <1>5, <1>6, <1>7 DEF QueuesIInv, ProtoHalf

LEMMA NextQueues == ASSUME QueuesIInv, [Next]_vars PROVE QueuesIInv'
<1>1. QueueTypes /\ ProtoHalf /\ TrafficHalf
  BY DEF QueuesIInv, ProtoHalf, TrafficHalf
<1>2. CASE Next
  <2>1. QueueTypes' /\ ProtoHalf' /\ TrafficHalf'
    BY <1>1, <1>2, NextQueueTypes, NextTraffic, NextProto DEF TrafficHalf
  <2> QED
    BY <2>1 DEF QueuesIInv, ProtoHalf, TrafficHalf
<1>3. CASE UNCHANGED vars
  <2>1. QueueTypes'
    BY <1>1, <1>3 DEF vars, QueueTypes
  <2>2. ProtoHalf'
    BY <1>1, <1>3, ProtoUntouched DEF vars, Queueing
  <2>3. TrafficHalf'
    <3>1. TrafficIsOld'
      BY <1>1, <1>3 DEF vars, TrafficHalf, TrafficIsOld, Line
    <3> QED
      BY <1>1, <1>3, <3>1, TrafficUntouched DEF vars, Held, At, TrafficHalf, FramesInOrder
  <2> QED
    BY <2>1, <2>2, <2>3 DEF QueuesIInv, ProtoHalf, TrafficHalf
<1> QED
  BY <1>2, <1>3

(* The queues, the channels the writer waits on and the frame in its hands    *)
(* have their types, and the count of the traffic is between zero and what    *)
(* was pushed, for any number of queues and of flows.                         *)
THEOREM QueueTyping == Spec => []TypeOK
<1>1. QueuesIInv => TypeOK
  <2> SUFFICES ASSUME QueuesIInv PROVE TypeOK
    OBVIOUS
  <2>1. QueueTypes /\ ProtoHalf
    BY DEF QueuesIInv, ProtoHalf
  <2>2. proto.entries # <<>>
    <3>1. Len(proto.entries) \in Nat \ {0}
      BY <2>1, LineOfChannels
    <3> QED
      BY <3>1
  <2>3. traffic.count \in 0..(MaxTraffic * Cardinality(Flow))
    <3>1. traffic.count <= Cardinality(Sent) /\ traffic.count \in Nat
      BY DEF QueuesIInv, CountIsBounded, QueueTypes
    <3>2. Cardinality(Sent) \in Nat /\ Cardinality(Sent) <= MaxTraffic * Cardinality(Flow)
      BY <2>1, SentOf
    <3>3. MaxTraffic * Cardinality(Flow) \in Nat
      <4>1. MaxTraffic \in Nat /\ Cardinality(Flow) \in Nat
        BY FS_CardinalityType, QueueAssumption
      <4> QED
        BY <4>1
    <3> QED
      BY <3>1, <3>2, <3>3
  <2>4. pushing = <<>> \/ pushing \in TrafficFrames \X (0..Num)
    <3>1. pushing = <<>> \/ pushing \in TrafficFrames \X (1..Num)
      BY DEF QueuesIInv, PushIsPending, Unlocked
    <3> QED
      BY <3>1
  <2> QED
    BY <2>1, <2>2, <2>3, <2>4 DEF QueueTypes, TypeOK, Lives, Places
<1> QED
  BY <1>1, InitQueues, NextQueues, PTL DEF Spec

(* The count of the traffic queue, which push() and pop() trust to tell an    *)
(* empty queue from one that holds frames, is what the channels hold and the  *)
(* frame not yet acknowledged, whatever the writer received meanwhile.        *)
THEOREM CountStaysTrue == Spec => []CountIsQueued
<1>1. QueuesIInv => CountIsQueued
  BY DEF QueuesIInv, Counted, CountIsQueued
<1> QED
  BY <1>1, InitQueues, NextQueues, PTL DEF Spec

(* The writer's select is never asleep on channels that will not be served    *)
(* while others hold frames: what pop() chose without the mutex is a queue    *)
(* with a frame, or the one the next frame goes to.                           *)
THEOREM WriterIsAwake == Spec => []NeverSleepsOnWork
<1>1. QueuesIInv => NeverSleepsOnWork
  <2> SUFFICES ASSUME QueuesIInv, At("wait"), Started
               PROVE  /\ Len(proto.entries) > 1 => ProtoReady
                      /\ Queued(traffic.gen) > 0 => TrafficReady
    BY DEF NeverSleepsOnWork
  <2>1. QueueTypes /\ ProtoHalf /\ TrafficHalf /\ Queueing /\ traffic.gen = 0
    BY DEF QueuesIInv, ProtoHalf, TrafficHalf, TrafficIsOld, Started, Queueing
  <2>2. ASSUME Len(proto.entries) > 1 PROVE ProtoReady
    <3>1. writer.proto = First
      BY <2>1 DEF ProtoHalf, WriterIsAtTheFirst
    <3>2. proto.made = pushed[Proto] + 1 /\ First \in 1..proto.made /\ Len(proto.entries) = proto.made - First + 1
      BY <2>1 DEF ProtoHalf, ProtoIsALine
    <3>3. First <= pushed[Proto]
      BY <2>1, <2>2, <3>2, LineOfChannels
    <3>4. proto.box[First] = [of |-> Proto, number |-> First]
      BY <2>1, <3>3 DEF ProtoHalf, ProtoIsALine, At
    <3> QED
      BY <3>1, <3>4 DEF ProtoReady, Open, Proto
  <2>3. ASSUME Queued(0) > 0 PROVE TrafficReady
    <3>1. traffic.count = Queued(0) + 0 /\ Queued(0) \in Nat
      BY <2>1, TrafficFacts DEF TrafficHalf, Counted, At
    <3>2. traffic.count # 0
      BY <2>3, <3>1
    <3> QED
      BY <2>1, <3>2 DEF TrafficHalf, ChoosesWork, TrafficReady
  <2> QED
    BY <2>1, <2>2, <2>3
<1> QED
  BY <1>1, InitQueues, NextQueues, PTL DEF Spec

(* What is written is in order: no protocol frame is left out or overtaken,   *)
(* although each is handed over through a channel of its own, and no frame of *)
(* a flow overtakes another on the way from the shared queue to its own.      *)
THEOREM WrittenInOrder == Spec => InOrder
<1> DEFINE Ordered == /\ wrote'[Proto] \in {wrote[Proto], wrote[Proto] + 1}
                      /\ \A f \in Flow : wrote'[f] >= wrote[f]
<1>1. QueuesIInv /\ Next => Ordered
  <2> SUFFICES ASSUME QueuesIInv, Next PROVE Ordered
    OBVIOUS
  <2>1. QueueTypes /\ ProtoHalf /\ TrafficHalf
    BY DEF QueuesIInv, ProtoHalf, TrafficHalf
  <2>2. \A f \in Flow : wrote[f] \in Nat /\ f # Proto
    BY <2>1, TrafficFacts, QueueAssumption DEF Proto
  <2>3. CASE Write /\ writer.frame.of = Proto
    <3>1. wrote[Proto] = First - 2 /\ wrote'[Proto] = First - 1 /\ First \in Int
      BY <2>1, <2>3, ProtoWhenWritten, LineOfChannels DEF Boxes
    <3>2. \A f \in Flow : wrote'[f] = wrote[f]
      BY <2>1, <2>2, <2>3 DEF Write, QueueTypes
    <3> QED
      BY <2>2, <3>1, <3>2
  <2>4. CASE Write /\ writer.frame.of # Proto
    <3>1. writer.frame \in TrafficFrames
      BY <2>1, <2>4, FrameKinds DEF Write, QueueTypes
    <3>2. wrote'[Proto] = wrote[Proto]
      BY <2>1, <2>4 DEF Write, QueueTypes
    <3> QED
      BY <2>1, <2>4, <3>1, <3>2, TrafficWhenWritten
  <2>5. CASE wrote' = wrote
    BY <2>2, <2>5
  <2> QED
    BY <2>3, <2>4, <2>5 DEF Next, WriterStep, StateStep, PushProto, PushTraffic, HeadDrop, Stop, Cancel,
       ResetProto, ResetTraffic, StartWrite, PopProto, PopTraffic, PollDefault, Panic, GiveUp, Keepalive,
       ReceiveProto, ReceiveTraffic, AckProto, AckTraffic, WriteFails
<1>2. QueuesIInv /\ [Next]_vars => [Ordered]_vars
  BY <1>1
<1> QED
  BY <1>2, InitQueues, NextQueues, PTL DEF Spec, InOrder

-----------------------------------------------------------------------------
(* Round the queues *)

LEMMA EveryQueueIsReached ==
  ASSUME NEW n \in 0..Num, NEW i \in 0..Num
  PROVE  \E d \in 1..Num + 1 : (n + d) % (Num + 1) = i
<1>1. \A a \in Nat, m \in Nat \ {0} : a < m => a % m = a /\ (a + m) % m = a
  OBVIOUS
<1>2. i \in Nat /\ Num + 1 \in Nat \ {0} /\ i < Num + 1
  BY QueueAssumption
<1>3. i % (Num + 1) = i /\ (i + (Num + 1)) % (Num + 1) = i
  BY <1>1, <1>2
<1>4. CASE n < i
  <2>1. i - n \in 1..Num + 1 /\ n + (i - n) = i
    BY <1>4, QueueAssumption
  <2> QED
    BY <1>3, <2>1
<1>5. CASE ~(n < i)
  <2>1. i - n + (Num + 1) \in 1..Num + 1 /\ n + (i - n + (Num + 1)) = i + (Num + 1)
    BY <1>5, QueueAssumption
  <2> QED
    BY <1>3, <2>1
<1> QED
  BY <1>4, <1>5

LEMMA PopIsDefined ==
  ASSUME QueueTypes, TrafficHalf, traffic.gen = 0, writer.pc = "third" PROVE PopDefined
<1>1. CASE \A i \in 0..Num : Line(i) = <<>>
  <2>1. Queued(0) = 0
    BY <1>1, TrafficFacts, QueuedOf
  <2> QED
    BY <2>1 DEF TrafficHalf, Counted, At, PopDefined
<1>2. ASSUME NEW i \in 0..Num, Line(i) # <<>> PROVE PopDefined
  <2>1. traffic.n \in 0..Num
    BY DEF QueueTypes
  <2>2. PICK d \in 1..Num + 1 : (traffic.n + d) % (Num + 1) = i
    BY <2>1, EveryQueueIsReached
  <2>3. i # 0 => d \in Waiting
    BY <1>2, <2>2 DEF Waiting, Queue, Line
  <2> QED
    BY <1>2, <2>3 DEF PopDefined, Queue, Line
<1> QED
  BY <1>1, <1>2

(* pop() panics ("we shouldn't ever arrive here") only on the channels that   *)
(* reset() made, when the peer has stopped: before it, a count above zero     *)
(* leads to a frame from wherever the round begins.                           *)
THEOREM PanicsOnlyAfterReset == Spec => [](At("panicked") => traffic.gen = 1)
<1> DEFINE PanicsLate == At("panicked") => traffic.gen = 1
<1>1. Init => PanicsLate
  BY DEF Init, At
<1>2. QueuesIInv /\ PanicsLate /\ [Next]_vars => PanicsLate'
  <2> SUFFICES ASSUME QueuesIInv, PanicsLate, [Next]_vars PROVE PanicsLate'
    OBVIOUS
  <2>1. QueueTypes /\ ProtoHalf /\ TrafficHalf
    BY DEF QueuesIInv, ProtoHalf, TrafficHalf
  <2>2. traffic'.gen = traffic.gen \/ traffic'.gen = 1
    BY <2>1 DEF vars, Next, WriterStep, StateStep, PushProto, PushTraffic, HeadDrop, Stop, Cancel,
       ResetProto, ResetTraffic, StartWrite, PopProto, PopTraffic, PollDefault, Panic, GiveUp, Keepalive,
       ReceiveProto, ReceiveTraffic, AckProto, AckTraffic, WriteFails, Write, QueueTypes
  <2>3. writer'.pc = "panicked" => writer.pc = "panicked" \/ Panic
    BY <2>1 DEF vars, Next, WriterStep, StateStep, PushProto, PushTraffic, HeadDrop, Stop, Cancel,
       ResetProto, ResetTraffic, StartWrite, PopProto, PopTraffic, PollDefault, GiveUp, Keepalive,
       ReceiveProto, ReceiveTraffic, AckProto, AckTraffic, WriteFails, Write, QueueTypes, GoTo, At
  <2>4. ASSUME Panic PROVE traffic'.gen = 1
    <3>1. traffic.gen \in 0..1 /\ traffic.gen # 0
      BY <2>1, <2>4, PopIsDefined DEF Panic, At, QueueTypes
    <3> QED
      BY <2>4, <3>1 DEF Panic
  <2> QED
    BY <2>2, <2>3, <2>4 DEF At
<1> QED
  BY <1>1, <1>2, InitQueues, NextQueues, PTL DEF Spec
=============================================================================
