------------------------- MODULE ApplicationProofs -------------------------
(* Theorems about what a node does with messages, files and records, for any  *)
(* nodes, workers, sizes and numbers of tries: the pools, the priority queue, *)
(* the retries, the direct transfer and the sending window by themselves, and *)
(* the ten components side by side.                                           *)
EXTENDS MCApplication, ServiceProofs, FiniteSetTheorems, SequenceTheorems,
        NaturalsInduction, TLAPS

-----------------------------------------------------------------------------
(* The greatest of a set of numbers *)

LEMMA GreatestExists ==
  ASSUME NEW m \in Int, NEW n \in Int, NEW S \in SUBSET (m..n), S # {}
  PROVE  \E x \in S : \A y \in S : x >= y
<1> DEFINE T == {z \in 0..n - m : n - z \in S}
<1>1. T \in SUBSET Nat /\ T # {}
  <2>1. PICK x \in S : TRUE
    OBVIOUS
  <2>2. n - x \in 0..n - m /\ n - (n - x) = x
    BY <2>1
  <2>3. n - x \in T
    BY <2>2
  <2>4. T \in SUBSET Nat
    OBVIOUS
  <2> QED
    BY <2>3, <2>4
<1>2. PICK z \in T : \A y \in T : z <= y
  BY <1>1, LeastExists
<1>3. \A y \in S : n - y \in 0..n - m /\ n - (n - y) = y
  OBVIOUS
<1>4. \A y \in S : z <= n - y
  BY <1>2, <1>3
<1> QED
  BY <1>2, <1>4

LEMMA GreatestIsMax ==
  ASSUME NEW m \in Int, NEW n \in Int, NEW S \in SUBSET (m..n), S # {}
  PROVE  Max(S) \in S /\ \A y \in S : Max(S) >= y
BY GreatestExists DEF Max

-----------------------------------------------------------------------------
(* Object pools *)

Doer == [at : {"idle", "built", "encoded", "marshalled", "done", "received", "dispatched", "queued"},
         packet : Packet \cup {nil}, buffer : Buffer \cup {nil}, says : Content \cup {nil},
         bytes : Content \cup {nil}, kind : PacketKinds]
Sent == [says : Content, bytes : Content]
KeptMessage == [says : Content, map : Map]

PoolsTypes ==
  /\ fields \in [Packet -> Content \cup {nil}] /\ metadata \in [Packet -> Map \cup {nil}]
  /\ entries \in [Map -> Content \cup {nil}] /\ written \in [Buffer -> Content \cup {nil}]
  /\ packetPool \subseteq Packet /\ bufferPool \subseteq Buffer
  /\ doing \in [Goroutine -> Doer]
  /\ frames \in Seq(Sent) /\ Len(frames) <= MaxFrames
  /\ messageChannel \in Seq(KeptMessage) /\ Len(messageChannel) <= ChannelSize
  /\ beingRead \subseteq KeptMessage

(* What a goroutine holds where it is.                                        *)
HoldsItsOwn(w) ==
  /\ w.at = "idle" => w.packet = nil
  /\ w.at # "idle" => w.packet \in Packet /\ w.says \in Content
  /\ w.at = "encoded" => w.buffer \in Buffer
  /\ w.at # "encoded" => w.buffer = nil
  /\ w.at = "marshalled" => w.bytes = w.says

(* What it holds still says what it was filled with.                          *)
Tells(g) ==
  /\ doing[g].at = "built" => fields[doing[g].packet] = doing[g].says
  /\ doing[g].at \in {"built", "received", "dispatched"} =>
       /\ metadata[doing[g].packet] \in Map
       /\ entries[metadata[doing[g].packet]] = doing[g].says
  /\ doing[g].at = "encoded" => written[doing[g].buffer] = doing[g].says

GoroutinesTell == \A g \in Goroutine : HoldsItsOwn(doing[g]) /\ Tells(g)

(* No two goroutines hold one object, and none holds what is in a pool.       *)
HeldOnce ==
  /\ \A g, h \in Goroutine : g # h =>
       /\ doing[g].packet = doing[h].packet => doing[g].packet = nil
       /\ doing[g].buffer = doing[h].buffer => doing[g].buffer = nil
  /\ \A g \in Goroutine : doing[g].packet \notin packetPool /\ doing[g].buffer \notin bufferPool

(* No two packets that can be used point at one map, and none points at the   *)
(* map of a message, but for the packet that was just made into one.          *)
Queuing == {"dispatched", "queued"}
InUse(p) == p \in packetPool \/ \E g \in Goroutine : doing[g].packet = p

OwnMaps ==
  /\ \A p, q \in Packet :
       InUse(p) /\ InUse(q) /\ p # q /\ metadata[p] = metadata[q] => metadata[p] = nil
  /\ \A p \in Packet, m \in Messages :
       InUse(p) /\ metadata[p] = m.map
         => \E g \in Goroutine : doing[g].packet = p /\ doing[g].at \in Queuing

BytesAreKept == \A i \in DOMAIN frames : frames[i].bytes = frames[i].says
MessagesAreKept == \A m \in Messages : entries[m.map] = m.says

PoolsIInv ==
  PoolsTypes /\ GoroutinesTell /\ HeldOnce /\ OwnMaps /\ BytesAreKept /\ MessagesAreKept

LEMMA PoolsKeep == PoolsIInv => PoolsTypeOK /\ HandedOverIsKept
<1> SUFFICES ASSUME PoolsIInv PROVE PoolsTypeOK /\ HandedOverIsKept
  OBVIOUS
<1>1. packetPool \cap Held("packet") = {} /\ bufferPool \cap Held("buffer") = {}
  BY DEF PoolsIInv, HeldOnce, Held
<1>2. PoolsTypeOK
  BY <1>1 DEF PoolsIInv, PoolsTypes, PoolsTypeOK
<1>3. \A i \in DOMAIN frames : Bytes(frames[i].bytes) = frames[i].says
  <2>1. \A i \in DOMAIN frames : frames[i].bytes \in Content
    <3>1. frames \in Seq(Sent)
      BY DEF PoolsIInv, PoolsTypes
    <3>2. \A i \in DOMAIN frames : frames[i] \in Sent
      BY <3>1
    <3> QED
      BY <3>2 DEF Sent
  <2> QED
    BY <2>1, PoolsAssumption DEF Bytes, PoolsIInv, BytesAreKept
<1> QED
  BY <1>2, <1>3 DEF HandedOverIsKept, PoolsIInv, MessagesAreKept

LEMMA MessagesType == PoolsTypes => Messages \subseteq KeptMessage
BY DEF PoolsTypes, Messages

LEMMA InitPools == PoolsInit => PoolsIInv
<1> SUFFICES ASSUME PoolsInit PROVE PoolsIInv
  OBVIOUS
<1>1. Nothing \in Doer
  BY DEF Nothing, Doer, PacketKinds
<1>2. frames = <<>> /\ frames \in Seq(Sent) /\ Len(frames) = 0
  BY DEF PoolsInit
<1>3. messageChannel = <<>> /\ messageChannel \in Seq(KeptMessage) /\ Len(messageChannel) = 0
  BY DEF PoolsInit
<1>4. PoolsTypes
  BY <1>1, <1>2, <1>3, PoolsAssumption DEF PoolsInit, PoolsTypes
<1>5. \A g \in Goroutine : doing[g].at = "idle" /\ doing[g].packet = nil /\ doing[g].buffer = nil
  BY DEF PoolsInit, Nothing
<1>6. GoroutinesTell
  BY <1>5 DEF GoroutinesTell, HoldsItsOwn, Tells
<1>7. HeldOnce
  BY <1>5 DEF HeldOnce, PoolsInit
<1>8. Messages = {} /\ \A p \in Packet : ~InUse(p)
  BY <1>5, PoolsAssumption DEF Messages, InUse, PoolsInit
<1>9. OwnMaps /\ MessagesAreKept
  BY <1>8 DEF OwnMaps, MessagesAreKept
<1>10. BytesAreKept
  BY <1>2 DEF BytesAreKept
<1> QED
  BY <1>4, <1>6, <1>7, <1>9, <1>10 DEF PoolsIInv

(* A step of one goroutine that fills a packet of its own and a map that      *)
(* nobody else points at.                                                     *)
LEMMA FillsAPacket ==
  ASSUME PoolsIInv, NEW g \in Goroutine, NEW p \in Packet, NEW m \in Map, NEW c \in Content,
         NEW w \in Doer, w.at \in {"built", "received"}, w.packet = p, w.says = c, w.buffer = nil,
         doing' = [doing EXCEPT ![g] = w], doing[g].at = "idle",
         fields' = [fields EXCEPT ![p] = c], metadata' = [metadata EXCEPT ![p] = m],
         entries' = [entries EXCEPT ![m] = c], packetPool' = packetPool \ {p},
         UNCHANGED <<written, bufferPool, frames, messageChannel, beingRead>>,
         \A h \in Goroutine : doing[h].packet # p,
         \A q \in Packet \ {p} : InUse(q) => metadata[q] # m,
         \A x \in Messages : x.map # m
  PROVE  PoolsIInv'
<1>1. PoolsTypes /\ GoroutinesTell /\ HeldOnce /\ OwnMaps /\ BytesAreKept /\ MessagesAreKept
  BY DEF PoolsIInv
<1>2. PoolsTypes'
  BY <1>1 DEF PoolsTypes
<1>3. \A h \in Goroutine : doing'[h] = IF h = g THEN w ELSE doing[h]
  BY <1>1 DEF PoolsTypes
<1>4. /\ fields'[p] = c /\ metadata'[p] = m /\ entries'[m] = c
      /\ \A q \in Packet : q # p => fields'[q] = fields[q] /\ metadata'[q] = metadata[q]
      /\ \A x \in Map : x # m => entries'[x] = entries[x]
  BY <1>1 DEF PoolsTypes
<1>5. ASSUME NEW h \in Goroutine PROVE HoldsItsOwn(doing'[h]) /\ Tells(h)'
  <2>1. CASE h = g
    <3>1. doing'[h] = w
      BY <1>3, <2>1
    <3>2. HoldsItsOwn(doing'[h])
      BY <3>1 DEF HoldsItsOwn
    <3>3. Tells(h)'
      BY <1>4, <3>1 DEF Tells
    <3> QED
      BY <3>2, <3>3
  <2>2. CASE h # g
    <3>1. doing'[h] = doing[h] /\ HoldsItsOwn(doing[h]) /\ Tells(h) /\ doing[h].packet # p
      BY <1>1, <1>3, <2>2 DEF GoroutinesTell
    <3>2. doing[h].at # "idle" =>
            /\ doing[h].packet \in Packet \ {p} /\ InUse(doing[h].packet)
            /\ metadata[doing[h].packet] # m
      BY <3>1 DEF HoldsItsOwn, InUse
    <3>3. Tells(h)'
      BY <1>4, <3>1, <3>2 DEF Tells
    <3> QED
      BY <3>1, <3>3
  <2> QED
    BY <2>1, <2>2
<1>6. GoroutinesTell'
  BY <1>5 DEF GoroutinesTell
<1>7. HeldOnce'
  <2>1. nil \notin bufferPool /\ p # nil
    BY <1>1, PoolsAssumption DEF PoolsTypes
  <2> QED
    BY <1>1, <1>3, <2>1 DEF HeldOnce
<1>8. Messages' = Messages
  BY DEF Messages
<1>9. \A q \in Packet \ {p} : InUse(q)' => InUse(q)
  BY <1>3 DEF InUse
<1>10. OwnMaps'
  <2>1. ASSUME NEW q \in Packet, NEW r \in Packet, InUse(q)', InUse(r)', q # r,
               metadata'[q] = metadata'[r]
        PROVE  metadata'[q] = nil
    <3>1. CASE q # p /\ r # p
      BY <1>1, <1>4, <1>9, <2>1, <3>1 DEF OwnMaps
    <3>2. CASE q = p
      BY <1>4, <1>9, <2>1, <3>2
    <3>3. CASE r = p
      BY <1>4, <1>9, <2>1, <3>3
    <3> QED
      BY <3>1, <3>2, <3>3
  <2>2. ASSUME NEW q \in Packet, NEW x \in Messages', InUse(q)', metadata'[q] = x.map
        PROVE  \E h \in Goroutine : doing'[h].packet = q /\ doing'[h].at \in Queuing
    <3>1. q # p
      BY <1>4, <1>8, <2>2
    <3>2. PICK h \in Goroutine : doing[h].packet = q /\ doing[h].at \in Queuing
      BY <1>1, <1>4, <1>8, <1>9, <2>2, <3>1 DEF OwnMaps
    <3>3. h # g
      BY <3>2 DEF Queuing
    <3> QED
      BY <1>3, <3>2, <3>3
  <2> QED
    BY <2>1, <2>2 DEF OwnMaps
<1>11. MessagesAreKept'
  <2>1. \A x \in Messages : x.map \in Map
    BY <1>1, MessagesType DEF KeptMessage
  <2> QED
    BY <1>1, <1>4, <1>8, <2>1 DEF MessagesAreKept
<1>12. BytesAreKept'
  BY <1>1 DEF BytesAreKept
<1> QED
  BY <1>2, <1>6, <1>7, <1>10, <1>11, <1>12 DEF PoolsIInv

LEMMA FreshIsFree ==
  ASSUME NEW m \in FreshMaps
  PROVE  /\ m \in Map /\ \A q \in Packet : InUse(q) => metadata[q] # m
         /\ \A x \in Messages : x.map # m
BY PoolsAssumption DEF FreshMaps, KnownMaps, InUse, Held

LEMMA BuildKeeps ==
  ASSUME PoolsIInv, NEW g \in Goroutine, NEW p \in Packet, NEW m \in Map, NEW c \in Content,
         SendPacket(g, p, m, c)
  PROVE  PoolsIInv'
<1> DEFINE w == [doing[g] EXCEPT !.at = "built", !.packet = p, !.says = c]
<1>1. /\ doing[g].at = "idle" /\ doing' = [doing EXCEPT ![g] = w]
      /\ fields' = [fields EXCEPT ![p] = c] /\ metadata' = [metadata EXCEPT ![p] = m]
      /\ entries' = [entries EXCEPT ![m] = c] /\ packetPool' = packetPool \ {p}
      /\ UNCHANGED <<written, bufferPool, frames, messageChannel, beingRead>>
      /\ p \in packetPool \cup FreshPackets
      /\ m \in IF p \in packetPool /\ metadata[p] # nil THEN {metadata[p]} ELSE FreshMaps
  BY DEF SendPacket, Build, NewMessagePacket
<1>2. doing[g] \in Doer /\ doing[g].buffer = nil
  BY <1>1 DEF PoolsIInv, PoolsTypes, GoroutinesTell, HoldsItsOwn
<1>3. w \in Doer /\ w.at = "built" /\ w.packet = p /\ w.says = c /\ w.buffer = nil
  BY <1>2 DEF Doer
<1> HIDE DEF w
<1>4. \A h \in Goroutine : doing[h].packet # p
  BY <1>1, PoolsAssumption DEF PoolsIInv, HeldOnce, FreshPackets, Held
<1>5. /\ \A q \in Packet \ {p} : InUse(q) => metadata[q] # m
      /\ \A x \in Messages : x.map # m
  <2>1. CASE m \in FreshMaps
    BY <2>1, FreshIsFree
  <2>2. CASE p \in packetPool /\ m = metadata[p] /\ m # nil
    <3>1. InUse(p)
      BY <2>2 DEF InUse
    <3> QED
      BY <1>4, <2>2, <3>1 DEF PoolsIInv, OwnMaps
  <2> QED
    BY <1>1, <2>1, <2>2
<1> QED
  BY <1>1, <1>3, <1>4, <1>5, FillsAPacket

LEMMA ReadKeeps ==
  ASSUME PoolsIInv, NEW g \in Goroutine, NEW p \in Packet, NEW m \in Map, NEW c \in Content,
         NEW kind \in PacketKinds, ReadMessage(g, p, m, c, kind)
  PROVE  PoolsIInv'
<1> DEFINE w == [doing[g] EXCEPT !.at = "received", !.packet = p, !.says = c, !.kind = kind]
<1>1. /\ doing[g].at = "idle" /\ doing' = [doing EXCEPT ![g] = w]
      /\ fields' = [fields EXCEPT ![p] = c] /\ metadata' = [metadata EXCEPT ![p] = m]
      /\ entries' = [entries EXCEPT ![m] = c]
      /\ UNCHANGED <<written, packetPool, bufferPool, frames, messageChannel, beingRead>>
      /\ p \in FreshPackets /\ m \in FreshMaps
  BY DEF ReadMessage
<1>2. doing[g] \in Doer /\ doing[g].buffer = nil
  BY <1>1 DEF PoolsIInv, PoolsTypes, GoroutinesTell, HoldsItsOwn
<1>3. w \in Doer /\ w.at = "received" /\ w.packet = p /\ w.says = c /\ w.buffer = nil
  BY <1>2 DEF Doer
<1> HIDE DEF w
<1>4. /\ \A h \in Goroutine : doing[h].packet # p
      /\ packetPool' = packetPool \ {p}
  BY <1>1, PoolsAssumption DEF FreshPackets, Held
<1>5. /\ \A q \in Packet \ {p} : InUse(q) => metadata[q] # m
      /\ \A x \in Messages : x.map # m
  BY <1>1, FreshIsFree
<1> QED
  BY <1>1, <1>3, <1>4, <1>5, FillsAPacket
(* A step of one goroutine that leaves packets and maps as they are.          *)
LEMMA MovesAlong ==
  ASSUME PoolsIInv, NEW g \in Goroutine, NEW w \in Doer, HoldsItsOwn(w), Tells(g)',
         doing' = [doing EXCEPT ![g] = w], w.packet = doing[g].packet,
         doing[g].at \in Queuing => w.at \in Queuing,
         UNCHANGED <<fields, metadata, entries, packetPool, beingRead>>,
         written' \in [Buffer -> Content \cup {nil}], bufferPool' \subseteq Buffer,
         \A h \in Goroutine \ {g} :
            /\ doing[h].buffer \notin bufferPool'
            /\ doing[h].buffer = w.buffer => w.buffer = nil
            /\ doing[h].at = "encoded" => written'[doing[h].buffer] = written[doing[h].buffer],
         w.buffer \notin bufferPool',
         frames' \in Seq(Sent), Len(frames') <= MaxFrames, BytesAreKept',
         messageChannel' \in Seq(KeptMessage), Len(messageChannel') <= ChannelSize,
         \A x \in Messages' : \/ x \in Messages
                               \/ /\ x.map = metadata[w.packet] /\ w.at \in Queuing
                                  /\ entries[x.map] = x.says /\ x.map \in Map
  PROVE  PoolsIInv'
<1>1. PoolsTypes /\ GoroutinesTell /\ HeldOnce /\ OwnMaps /\ BytesAreKept /\ MessagesAreKept
  BY DEF PoolsIInv
<1>2. PoolsTypes'
  BY <1>1 DEF PoolsTypes
<1>3. \A h \in Goroutine : doing'[h] = IF h = g THEN w ELSE doing[h]
  BY <1>1 DEF PoolsTypes
<1>4. ASSUME NEW h \in Goroutine PROVE HoldsItsOwn(doing'[h]) /\ Tells(h)'
  <2>1. CASE h = g
    BY <1>3, <2>1 DEF Tells
  <2>2. CASE h # g
    <3>1. doing'[h] = doing[h] /\ HoldsItsOwn(doing[h]) /\ Tells(h)
      BY <1>1, <1>3, <2>2 DEF GoroutinesTell
    <3>2. doing[h].at = "encoded" => written'[doing[h].buffer] = written[doing[h].buffer]
      BY <2>2
    <3>3. Tells(h)'
      BY <3>1, <3>2 DEF Tells
    <3> QED
      BY <3>1, <3>3
  <2> QED
    BY <2>1, <2>2
<1>5. GoroutinesTell'
  BY <1>4 DEF GoroutinesTell
<1>6. HeldOnce'
  <2>1. \A h \in Goroutine : doing'[h].packet = doing[h].packet
    BY <1>3
  <2>2. \A h \in Goroutine :
          doing'[h].packet \notin packetPool' /\ doing'[h].buffer \notin bufferPool'
    BY <1>1, <1>3, <2>1 DEF HeldOnce
  <2>3. ASSUME NEW h \in Goroutine, NEW k \in Goroutine, h # k, doing'[h].buffer = doing'[k].buffer
        PROVE  doing'[h].buffer = nil
    <3>1. CASE h # g /\ k # g
      BY <1>1, <1>3, <2>3, <3>1 DEF HeldOnce
    <3>2. CASE h = g
      BY <1>3, <2>3, <3>2
    <3>3. CASE k = g
      BY <1>3, <2>3, <3>3
    <3> QED
      BY <3>1, <3>2, <3>3
  <2> QED
    BY <1>1, <2>1, <2>2, <2>3 DEF HeldOnce
<1>7. \A q : InUse(q)' <=> InUse(q)
  BY <1>3 DEF InUse
<1>8. OwnMaps'
  <2>1. ASSUME NEW q \in Packet, NEW x \in Messages', InUse(q), metadata[q] = x.map
        PROVE  \E h \in Goroutine : doing'[h].packet = q /\ doing'[h].at \in Queuing
    <3>1. CASE x \in Messages
      <4>1. PICK h \in Goroutine : doing[h].packet = q /\ doing[h].at \in Queuing
        BY <1>1, <2>1, <3>1 DEF OwnMaps
      <4> QED
        BY <1>3, <4>1
    <3>2. CASE x.map = metadata[w.packet] /\ w.at \in Queuing /\ x.map \in Map
      <4>1. w.packet \in Packet /\ InUse(w.packet) /\ x.map # nil
        BY <3>2, PoolsAssumption DEF HoldsItsOwn, InUse, Queuing
      <4>2. q = w.packet
        BY <1>1, <2>1, <3>2, <4>1 DEF OwnMaps
      <4> QED
        BY <1>3, <3>2, <4>2
    <3> QED
      BY <3>1, <3>2
  <2> QED
    BY <1>1, <1>7, <2>1 DEF OwnMaps
<1>9. MessagesAreKept'
  BY <1>1 DEF MessagesAreKept
<1> QED
  BY <1>2, <1>5, <1>6, <1>8, <1>9 DEF PoolsIInv

LEMMA EncodeKeeps ==
  ASSUME PoolsIInv, NEW g \in Goroutine, NEW b \in Buffer, Encode(g, b) PROVE PoolsIInv'
<1> DEFINE w == [doing[g] EXCEPT !.at = "encoded", !.buffer = b]
           p == doing[g].packet
<1>1. PoolsTypes /\ GoroutinesTell /\ HeldOnce /\ OwnMaps /\ BytesAreKept /\ MessagesAreKept
  BY DEF PoolsIInv
<1>2. /\ doing[g].at = "built" /\ b \in bufferPool \cup FreshBuffers /\ bufferPool' = bufferPool \ {b}
      /\ written' = [written EXCEPT ![b] = Encoded(p)]
      /\ doing' = [doing EXCEPT ![g] = w]
      /\ UNCHANGED <<fields, metadata, entries, packetPool, frames, messageChannel, beingRead>>
  BY DEF Encode, GetJSONEncoder
<1>3. doing[g] \in Doer /\ HoldsItsOwn(doing[g]) /\ Tells(g)
  BY <1>1 DEF PoolsTypes, GoroutinesTell
<1>4. Encoded(p) = doing[g].says /\ doing[g].says \in Content /\ p \in Packet
  BY <1>2, <1>3 DEF Tells, HoldsItsOwn, Encoded
<1>5. w \in Doer /\ w.at = "encoded" /\ w.packet = p /\ w.says = doing[g].says /\ w.buffer = b
  BY <1>3 DEF Doer
<1> HIDE DEF w
<1>6. HoldsItsOwn(w)
  BY <1>4, <1>5 DEF HoldsItsOwn
<1>7. written' \in [Buffer -> Content \cup {nil}] /\ written'[b] = doing[g].says
      /\ \A c \in Buffer : c # b => written'[c] = written[c]
  BY <1>1, <1>2, <1>4 DEF PoolsTypes
<1>8. Tells(g)'
  BY <1>1, <1>2, <1>5, <1>7 DEF Tells, PoolsTypes
<1>9. \A h \in Goroutine \ {g} : doing[h].buffer # b /\ doing[h].buffer \notin bufferPool'
  BY <1>1, <1>2, PoolsAssumption DEF HeldOnce, FreshBuffers, Held
<1>10. \A h \in Goroutine \ {g} : doing[h].at = "encoded" =>
         written'[doing[h].buffer] = written[doing[h].buffer]
  BY <1>1, <1>7, <1>9 DEF GoroutinesTell, HoldsItsOwn
<1>11. BytesAreKept'
  BY <1>1, <1>2 DEF BytesAreKept
<1>12. Messages' = Messages
  BY <1>2 DEF Messages
<1>13. /\ frames' \in Seq(Sent) /\ Len(frames') <= MaxFrames
       /\ messageChannel' \in Seq(KeptMessage) /\ Len(messageChannel') <= ChannelSize
       /\ bufferPool' \subseteq Buffer /\ w.buffer \notin bufferPool'
  BY <1>1, <1>2, <1>5 DEF PoolsTypes
<1> QED
  BY <1>2, <1>5, <1>6, <1>7, <1>8, <1>9, <1>10, <1>11, <1>12, <1>13, MovesAlong DEF Queuing

LEMMA PutBufferKeeps == ASSUME PoolsIInv, NEW g \in Goroutine, PutBuffer(g) PROVE PoolsIInv'
<1> DEFINE b == doing[g].buffer
           w == [doing[g] EXCEPT !.at = "marshalled", !.buffer = nil, !.bytes = written[b]]
<1>1. PoolsTypes /\ GoroutinesTell /\ HeldOnce /\ OwnMaps /\ BytesAreKept /\ MessagesAreKept
  BY DEF PoolsIInv
<1>2. /\ doing[g].at = "encoded" /\ bufferPool' = bufferPool \cup {b}
      /\ doing' = [doing EXCEPT ![g] = w]
      /\ UNCHANGED <<fields, metadata, entries, written, packetPool, frames, messageChannel, beingRead>>
  BY DEF PutBuffer, PutJSONEncoder, Copies
<1>3. doing[g] \in Doer /\ HoldsItsOwn(doing[g]) /\ Tells(g)
  BY <1>1 DEF PoolsTypes, GoroutinesTell
<1>4. b \in Buffer /\ written[b] = doing[g].says /\ written[b] \in Content \cup {nil}
  BY <1>1, <1>2, <1>3 DEF HoldsItsOwn, Tells, PoolsTypes
<1>5. /\ w \in Doer /\ w.at = "marshalled" /\ w.packet = doing[g].packet /\ w.says = doing[g].says
      /\ w.buffer = nil /\ w.bytes = written[b]
  BY <1>3, <1>4 DEF Doer
<1> HIDE DEF w
<1>6. HoldsItsOwn(w) /\ Tells(g)'
  BY <1>2, <1>3, <1>4, <1>5 DEF HoldsItsOwn, Tells
<1>7. \A h \in Goroutine \ {g} : doing[h].buffer # b /\ doing[h].buffer \notin bufferPool
  BY <1>1, <1>4, PoolsAssumption DEF HeldOnce
<1>8. BytesAreKept' /\ Messages' = Messages
  BY <1>1, <1>2 DEF BytesAreKept, Messages
<1>9. /\ frames' \in Seq(Sent) /\ Len(frames') <= MaxFrames
      /\ messageChannel' \in Seq(KeptMessage) /\ Len(messageChannel') <= ChannelSize
      /\ bufferPool' \subseteq Buffer /\ w.buffer \notin bufferPool'
      /\ written' \in [Buffer -> Content \cup {nil}]
  BY <1>1, <1>2, <1>4, <1>5, PoolsAssumption DEF PoolsTypes
<1> HIDE DEF b
<1> QED
  BY <1>2, <1>5, <1>6, <1>7, <1>8, <1>9, MovesAlong DEF Queuing

LEMMA WriteToKeeps == ASSUME PoolsIInv, NEW g \in Goroutine, WriteTo(g) PROVE PoolsIInv'
<1> DEFINE w == [doing[g] EXCEPT !.at = "done", !.bytes = nil]
           frame == [says |-> doing[g].says, bytes |-> doing[g].bytes]
<1>1. PoolsTypes /\ GoroutinesTell /\ HeldOnce /\ OwnMaps /\ BytesAreKept /\ MessagesAreKept
  BY DEF PoolsIInv
<1>2. /\ doing[g].at = "marshalled" /\ Len(frames) < MaxFrames
      /\ frames' = Append(frames, frame) /\ doing' = [doing EXCEPT ![g] = w]
      /\ UNCHANGED <<fields, metadata, entries, written, packetPool, bufferPool,
                     messageChannel, beingRead>>
  BY DEF WriteTo
<1>3. doing[g] \in Doer /\ HoldsItsOwn(doing[g]) /\ Tells(g)
  BY <1>1 DEF PoolsTypes, GoroutinesTell
<1>4. frame \in Sent /\ frame.bytes = frame.says /\ doing[g].buffer = nil
  BY <1>2, <1>3 DEF HoldsItsOwn, Sent
<1>5. /\ w \in Doer /\ w.at = "done" /\ w.packet = doing[g].packet /\ w.says = doing[g].says
      /\ w.buffer = nil
  BY <1>3, <1>4 DEF Doer
<1> HIDE DEF w, frame
<1>6. HoldsItsOwn(w) /\ Tells(g)'
  BY <1>2, <1>3, <1>5 DEF HoldsItsOwn, Tells
<1>7. frames' \in Seq(Sent) /\ Len(frames') <= MaxFrames
  BY <1>1, <1>2, <1>4, PoolsAssumption DEF PoolsTypes
<1>8. BytesAreKept' /\ Messages' = Messages
  BY <1>1, <1>2, <1>4 DEF BytesAreKept, Messages, PoolsTypes
<1>9. /\ messageChannel' \in Seq(KeptMessage) /\ Len(messageChannel') <= ChannelSize
      /\ bufferPool' \subseteq Buffer /\ w.buffer \notin bufferPool'
      /\ written' \in [Buffer -> Content \cup {nil}]
  BY <1>1, <1>2, <1>5, PoolsAssumption DEF PoolsTypes
<1>10. \A h \in Goroutine \ {g} : doing[h].buffer \notin bufferPool'
  BY <1>1, <1>2 DEF HeldOnce
<1> QED
  BY <1>2, <1>5, <1>6, <1>7, <1>8, <1>9, <1>10, MovesAlong DEF Queuing

LEMMA QueueKeeps ==
  ASSUME PoolsIInv, NEW g \in Goroutine, DispatchText(g) \/ Queue(g) \/ DispatchAck(g)
  PROVE  PoolsIInv'
<1> DEFINE place == IF DispatchText(g) THEN "dispatched" ELSE IF Queue(g) THEN "queued" ELSE "done"
           w == [doing[g] EXCEPT !.at = place]
           message == [says |-> doing[g].says, map |-> metadata[doing[g].packet]]
<1>1. PoolsTypes /\ GoroutinesTell /\ HeldOnce /\ OwnMaps /\ BytesAreKept /\ MessagesAreKept
  BY DEF PoolsIInv
<1>2. /\ doing[g].at \in {"received", "dispatched"} /\ doing' = [doing EXCEPT ![g] = w]
      /\ doing[g].at \in Queuing => place \in Queuing
      /\ \/ UNCHANGED messageChannel
         \/ /\ messageChannel' = Append(messageChannel, message) /\ place \in Queuing
            /\ Len(messageChannel) # ChannelSize
      /\ UNCHANGED <<fields, metadata, entries, written, packetPool, bufferPool, frames, beingRead>>
  BY DEF DispatchText, Queue, Enqueue, DispatchAck, Queuing
<1>3. doing[g] \in Doer /\ HoldsItsOwn(doing[g]) /\ Tells(g) /\ place \in Queuing \cup {"done"}
  BY <1>1 DEF PoolsTypes, GoroutinesTell, Queuing
<1> HIDE DEF place
<1>4. /\ message \in KeptMessage /\ message.map = metadata[doing[g].packet] /\ message.map \in Map
      /\ entries[message.map] = message.says /\ doing[g].buffer = nil
  BY <1>2, <1>3 DEF HoldsItsOwn, Tells, KeptMessage
<1>5. /\ w \in Doer /\ w.at = place /\ w.packet = doing[g].packet /\ w.says = doing[g].says
      /\ w.buffer = nil
  BY <1>3, <1>4 DEF Doer, Queuing
<1> HIDE DEF w, message
<1>6. HoldsItsOwn(w) /\ Tells(g)'
  BY <1>2, <1>3, <1>5 DEF HoldsItsOwn, Tells, Queuing
<1>7. messageChannel' \in Seq(KeptMessage) /\ Len(messageChannel') <= ChannelSize
  <2>1. messageChannel \in Seq(KeptMessage) /\ Len(messageChannel) <= ChannelSize
    BY <1>1 DEF PoolsTypes
  <2>2. CASE UNCHANGED messageChannel
    BY <2>1, <2>2
  <2>3. CASE messageChannel' = Append(messageChannel, message) /\ Len(messageChannel) # ChannelSize
    <3>1. Len(messageChannel') = Len(messageChannel) + 1 /\ messageChannel' \in Seq(KeptMessage)
      BY <1>4, <2>1, <2>3
    <3> QED
      BY <2>1, <2>3, <3>1, PoolsAssumption
  <2> QED
    BY <1>2, <2>2, <2>3
<1>8. \A x \in Messages' : x \in Messages \/ (x = message /\ place \in Queuing)
  <2> SUFFICES ASSUME NEW i \in DOMAIN messageChannel'
               PROVE  \/ \E j \in DOMAIN messageChannel : messageChannel'[i] = messageChannel[j]
                      \/ messageChannel'[i] = message /\ place \in Queuing
    BY <1>2 DEF Messages
  <2>1. messageChannel \in Seq(KeptMessage)
    BY <1>1 DEF PoolsTypes
  <2>2. CASE UNCHANGED messageChannel
    BY <2>2
  <2>3. CASE messageChannel' = Append(messageChannel, message) /\ place \in Queuing
    BY <2>1, <2>3
  <2> QED
    BY <1>2, <2>2, <2>3
<1>9. /\ frames' \in Seq(Sent) /\ Len(frames') <= MaxFrames /\ BytesAreKept'
      /\ bufferPool' \subseteq Buffer /\ w.buffer \notin bufferPool'
      /\ written' \in [Buffer -> Content \cup {nil}]
  BY <1>1, <1>2, <1>5, PoolsAssumption DEF PoolsTypes, BytesAreKept
<1>10. \A h \in Goroutine \ {g} : doing[h].buffer \notin bufferPool'
  BY <1>1, <1>2 DEF HeldOnce
<1> QED
  BY <1>2, <1>4, <1>5, <1>6, <1>7, <1>8, <1>9, <1>10, MovesAlong

(* The packets that go back, with what they pointed at.                       *)
LEMMA ReturnKeeps == ASSUME PoolsIInv, NEW g \in Goroutine, Return(g) PROVE PoolsIInv'
<1> DEFINE p == doing[g].packet
<1>1. PoolsTypes /\ GoroutinesTell /\ HeldOnce /\ OwnMaps /\ BytesAreKept /\ MessagesAreKept
  BY DEF PoolsIInv
<1>2. /\ doing[g].at = "done" /\ doing' = [doing EXCEPT ![g] = Nothing]
      /\ packetPool' = packetPool \cup {p} /\ fields' = [fields EXCEPT ![p] = nil]
      /\ entries' = IF metadata[p] = nil THEN entries ELSE [entries EXCEPT ![metadata[p]] = nil]
      /\ UNCHANGED <<metadata, written, bufferPool, frames, messageChannel, beingRead>>
  BY DEF Return, ReleaseMessagePacket
<1>3. p \in Packet /\ p # nil /\ InUse(p)
  BY <1>1, <1>2, PoolsAssumption DEF GoroutinesTell, HoldsItsOwn, InUse
<1> HIDE DEF p
<1>4. Nothing \in Doer /\ Nothing.at = "idle" /\ Nothing.packet = nil /\ Nothing.buffer = nil
  BY DEF Nothing, Doer, PacketKinds
<1>5. \A h \in Goroutine : doing'[h] = IF h = g THEN Nothing ELSE doing[h]
  BY <1>1, <1>2 DEF PoolsTypes
<1>6. PoolsTypes'
  BY <1>1, <1>2, <1>3, <1>4 DEF PoolsTypes
<1>7. \A q \in Packet : q # p => fields'[q] = fields[q]
  BY <1>1, <1>2 DEF PoolsTypes
<1>8. \A m \in Map : m # metadata[p] => entries'[m] = entries[m]
  BY <1>1, <1>2 DEF PoolsTypes
<1>9. \A h \in Goroutine \ {g} : doing[h].packet # p
  BY <1>1, <1>3 DEF HeldOnce, p
<1>10. ASSUME NEW h \in Goroutine PROVE HoldsItsOwn(doing'[h]) /\ Tells(h)'
  <2>1. CASE h = g
    BY <1>4, <1>5, <2>1 DEF HoldsItsOwn, Tells
  <2>2. CASE h # g
    <3>1. doing'[h] = doing[h] /\ HoldsItsOwn(doing[h]) /\ Tells(h) /\ doing[h].packet # p
      BY <1>1, <1>5, <1>9, <2>2 DEF GoroutinesTell
    <3>2. doing[h].at # "idle" => doing[h].packet \in Packet /\ InUse(doing[h].packet)
      BY <3>1 DEF HoldsItsOwn, InUse
    <3>3. doing[h].at # "idle" /\ metadata[doing[h].packet] \in Map
            => metadata[doing[h].packet] # metadata[p]
      BY <1>1, <1>3, <3>1, <3>2, PoolsAssumption DEF OwnMaps
    <3>4. Tells(h)'
      BY <1>2, <1>7, <1>8, <3>1, <3>2, <3>3 DEF Tells
    <3> QED
      BY <3>1, <3>4
  <2> QED
    BY <2>1, <2>2
<1>11. GoroutinesTell'
  BY <1>10 DEF GoroutinesTell
<1>12. HeldOnce'
  <2>1. nil \notin bufferPool /\ nil \notin packetPool
    BY <1>1, PoolsAssumption DEF PoolsTypes
  <2> QED
    BY <1>1, <1>2, <1>3, <1>4, <1>5, <1>9, <2>1 DEF HeldOnce
<1>13. \A q \in Packet : InUse(q)' => InUse(q)
  BY <1>2, <1>3, <1>4, <1>5, PoolsAssumption DEF InUse
<1>14. Messages' = Messages
  BY <1>2 DEF Messages
<1>15. OwnMaps'
  <2>1. ASSUME NEW q \in Packet, NEW x \in Messages, InUse(q), metadata[q] = x.map
        PROVE  \E h \in Goroutine : doing'[h].packet = q /\ doing'[h].at \in Queuing
    <3>1. PICK h \in Goroutine : doing[h].packet = q /\ doing[h].at \in Queuing
      BY <1>1, <2>1 DEF OwnMaps
    <3>2. h # g
      BY <1>2, <3>1 DEF Queuing
    <3> QED
      BY <1>5, <3>1, <3>2
  <2> QED
    BY <1>1, <1>2, <1>13, <1>14, <2>1 DEF OwnMaps
<1>16. MessagesAreKept'
  <2> SUFFICES ASSUME NEW x \in Messages PROVE entries'[x.map] = x.says
    BY <1>14 DEF MessagesAreKept
  <2>1. x.map \in Map
    BY <1>1, MessagesType DEF KeptMessage
  <2>2. x.map # metadata[p]
    <3> SUFFICES ASSUME x.map = metadata[p] PROVE FALSE
      OBVIOUS
    <3>1. PICK h \in Goroutine : doing[h].packet = p /\ doing[h].at \in Queuing
      BY <1>1, <1>3 DEF OwnMaps
    <3> QED
      BY <1>2, <1>9, <3>1 DEF Queuing
  <2> QED
    BY <1>1, <1>8, <2>1, <2>2 DEF MessagesAreKept
<1>17. BytesAreKept'
  BY <1>1, <1>2 DEF BytesAreKept
<1> QED
  BY <1>6, <1>11, <1>12, <1>15, <1>16, <1>17 DEF PoolsIInv

(* A packet that is left to the collector.                                    *)
LEMMA RejectKeeps == ASSUME PoolsIInv, NEW g \in Goroutine, Reject(g) PROVE PoolsIInv'
<1>1. PoolsTypes /\ GoroutinesTell /\ HeldOnce /\ OwnMaps /\ BytesAreKept /\ MessagesAreKept
  BY DEF PoolsIInv
<1>2. /\ doing[g].at = "received" /\ doing' = [doing EXCEPT ![g] = Nothing]
      /\ UNCHANGED <<fields, metadata, entries, written, packetPool, bufferPool, frames,
                     messageChannel, beingRead>>
  BY DEF Reject
<1>3. Nothing \in Doer /\ Nothing.at = "idle" /\ Nothing.packet = nil /\ Nothing.buffer = nil
  BY DEF Nothing, Doer, PacketKinds
<1>4. \A h \in Goroutine : doing'[h] = IF h = g THEN Nothing ELSE doing[h]
  BY <1>1, <1>2 DEF PoolsTypes
<1>5. PoolsTypes'
  BY <1>1, <1>2, <1>3 DEF PoolsTypes
<1>6. ASSUME NEW h \in Goroutine PROVE HoldsItsOwn(doing'[h]) /\ Tells(h)'
  BY <1>1, <1>2, <1>3, <1>4 DEF GoroutinesTell, HoldsItsOwn, Tells
<1>7. HeldOnce'
  <2>1. nil \notin bufferPool /\ nil \notin packetPool
    BY <1>1, PoolsAssumption DEF PoolsTypes
  <2> QED
    BY <1>1, <1>2, <1>3, <1>4, <2>1 DEF HeldOnce
<1>8. \A q \in Packet : InUse(q)' => InUse(q)
  BY <1>2, <1>3, <1>4, PoolsAssumption DEF InUse
<1>9. Messages' = Messages
  BY <1>2 DEF Messages
<1>10. OwnMaps'
  <2>1. ASSUME NEW q \in Packet, NEW x \in Messages, InUse(q), metadata[q] = x.map
        PROVE  \E h \in Goroutine : doing'[h].packet = q /\ doing'[h].at \in Queuing
    <3>1. PICK h \in Goroutine : doing[h].packet = q /\ doing[h].at \in Queuing
      BY <1>1, <2>1 DEF OwnMaps
    <3>2. h # g
      BY <1>2, <3>1 DEF Queuing
    <3> QED
      BY <1>4, <3>1, <3>2
  <2> QED
    BY <1>1, <1>2, <1>8, <1>9, <2>1 DEF OwnMaps
<1> QED
  BY <1>1, <1>2, <1>5, <1>6, <1>7, <1>9, <1>10
  DEF PoolsIInv, GoroutinesTell, BytesAreKept, MessagesAreKept

LEMMA ClearKeeps == ASSUME PoolsIInv, NEW g \in Goroutine, ClearPacket(g) PROVE PoolsIInv'
<1> DEFINE p == doing[g].packet
           w == [doing[g] EXCEPT !.at = "done"]
<1>1. PoolsTypes /\ GoroutinesTell /\ HeldOnce /\ OwnMaps /\ BytesAreKept /\ MessagesAreKept
  BY DEF PoolsIInv
<1>2. /\ doing[g].at = "queued" /\ doing' = [doing EXCEPT ![g] = w]
      /\ fields' = [fields EXCEPT ![p] = nil] /\ metadata' = [metadata EXCEPT ![p] = nil]
      /\ UNCHANGED <<entries, written, packetPool, bufferPool, frames, messageChannel, beingRead>>
  BY DEF ClearPacket, Cleared
<1>3. doing[g] \in Doer /\ HoldsItsOwn(doing[g])
  BY <1>1 DEF PoolsTypes, GoroutinesTell
<1>4. p \in Packet /\ p # nil
  BY <1>2, <1>3, PoolsAssumption DEF HoldsItsOwn
<1>5. /\ w \in Doer /\ w.at = "done" /\ w.packet = p /\ w.says = doing[g].says
      /\ w.buffer = doing[g].buffer /\ w.buffer = nil
  BY <1>2, <1>3 DEF Doer, HoldsItsOwn
<1> HIDE DEF w
<1>6. HoldsItsOwn(w)
  BY <1>2, <1>3, <1>4, <1>5 DEF HoldsItsOwn
<1>7. \A h \in Goroutine : doing'[h] = IF h = g THEN w ELSE doing[h]
  BY <1>1, <1>2 DEF PoolsTypes
<1>8. PoolsTypes'
  BY <1>1, <1>2, <1>5 DEF PoolsTypes
<1>9. \A h \in Goroutine \ {g} : doing[h].packet # p
  BY <1>1, <1>4 DEF HeldOnce
<1> HIDE DEF p
<1>10. /\ metadata'[p] = nil
       /\ \A q \in Packet : q # p => fields'[q] = fields[q] /\ metadata'[q] = metadata[q]
  BY <1>1, <1>2, <1>4 DEF PoolsTypes
<1>11. ASSUME NEW h \in Goroutine PROVE HoldsItsOwn(doing'[h]) /\ Tells(h)'
  <2>1. CASE h = g
    BY <1>5, <1>6, <1>7, <2>1 DEF Tells
  <2>2. CASE h # g
    <3>1. doing'[h] = doing[h] /\ HoldsItsOwn(doing[h]) /\ Tells(h) /\ doing[h].packet # p
      BY <1>1, <1>7, <1>9, <2>2 DEF GoroutinesTell
    <3>2. doing[h].at # "idle" => doing[h].packet \in Packet
      BY <3>1 DEF HoldsItsOwn
    <3>3. Tells(h)'
      BY <1>2, <1>10, <3>1, <3>2 DEF Tells
    <3> QED
      BY <3>1, <3>3
  <2> QED
    BY <2>1, <2>2
<1>12. GoroutinesTell'
  BY <1>11 DEF GoroutinesTell
<1>13. HeldOnce'
  <2>1. \A h \in Goroutine :
          doing'[h].packet = doing[h].packet /\ doing'[h].buffer = doing[h].buffer
    BY <1>5, <1>7 DEF p
  <2> QED
    BY <1>1, <1>2, <2>1 DEF HeldOnce
<1>14. Messages' = Messages /\ \A q : InUse(q)' => InUse(q)
  BY <1>2, <1>5, <1>7 DEF Messages, InUse, p
<1>15. OwnMaps'
  <2>1. ASSUME NEW q \in Packet, NEW r \in Packet, InUse(q)', InUse(r)', q # r,
               metadata'[q] = metadata'[r]
        PROVE  metadata'[q] = nil
    BY <1>1, <1>10, <1>14, <2>1 DEF OwnMaps
  <2>2. ASSUME NEW q \in Packet, NEW x \in Messages, InUse(q), metadata'[q] = x.map
        PROVE  \E h \in Goroutine : doing'[h].packet = q /\ doing'[h].at \in Queuing
    <3>1. x.map \in Map /\ x.map # nil
      BY <1>1, MessagesType, PoolsAssumption DEF KeptMessage
    <3>2. q # p
      BY <1>10, <2>2, <3>1
    <3>3. PICK h \in Goroutine : doing[h].packet = q /\ doing[h].at \in Queuing
      BY <1>1, <1>10, <2>2, <3>2 DEF OwnMaps
    <3>4. h # g
      BY <3>2, <3>3 DEF p
    <3> QED
      BY <1>7, <3>3, <3>4
  <2> QED
    BY <1>14, <2>1, <2>2 DEF OwnMaps
<1>16. MessagesAreKept' /\ BytesAreKept'
  BY <1>1, <1>2, <1>14 DEF MessagesAreKept, BytesAreKept
<1> QED
  BY <1>8, <1>12, <1>13, <1>15, <1>16 DEF PoolsIInv

(* The router, and the command.                                               *)
LEMMA OthersKeep ==
  ASSUME PoolsIInv,
         UNCHANGED <<fields, metadata, entries, written, packetPool, bufferPool, doing>>,
         frames' \in Seq(Sent), Len(frames') <= MaxFrames, BytesAreKept',
         messageChannel' \in Seq(KeptMessage), Len(messageChannel') <= ChannelSize,
         beingRead' \subseteq KeptMessage, Messages' \subseteq Messages
  PROVE  PoolsIInv'
<1>1. PoolsTypes /\ GoroutinesTell /\ HeldOnce /\ OwnMaps /\ MessagesAreKept
  BY DEF PoolsIInv
<1>2. PoolsTypes'
  BY <1>1 DEF PoolsTypes
<1>3. GoroutinesTell' /\ HeldOnce'
  BY <1>1 DEF GoroutinesTell, Tells, HeldOnce
<1>4. OwnMaps' /\ MessagesAreKept'
  BY <1>1 DEF OwnMaps, InUse, MessagesAreKept
<1> QED
  BY <1>2, <1>3, <1>4 DEF PoolsIInv

LEMMA NextPools == PoolsIInv /\ [PoolsNext]_poolVars => PoolsIInv'
<1> SUFFICES ASSUME PoolsIInv, [PoolsNext]_poolVars PROVE PoolsIInv'
  OBVIOUS
<1>1. /\ frames \in Seq(Sent) /\ Len(frames) <= MaxFrames /\ BytesAreKept
      /\ messageChannel \in Seq(KeptMessage) /\ Len(messageChannel) <= ChannelSize
      /\ beingRead \subseteq KeptMessage
  BY DEF PoolsIInv, PoolsTypes
<1>2. CASE WriteFrame
  <2>1. /\ frames # <<>> /\ frames' = Tail(frames)
        /\ UNCHANGED <<fields, metadata, entries, written, packetPool, bufferPool, doing,
                       messageChannel, beingRead>>
    BY <1>2 DEF WriteFrame
  <2>2. frames' \in Seq(Sent) /\ Len(frames') <= MaxFrames
    BY <1>1, <2>1, PoolsAssumption
  <2>3. BytesAreKept'
    BY <1>1, <2>1 DEF BytesAreKept
  <2>4. Messages' = Messages
    BY <2>1 DEF Messages
  <2> QED
    BY <1>1, <2>1, <2>2, <2>3, <2>4, OthersKeep
<1>3. CASE TakeMessage
  <2>1. /\ messageChannel # <<>> /\ messageChannel' = Tail(messageChannel)
        /\ beingRead' = {Head(messageChannel)}
        /\ UNCHANGED <<fields, metadata, entries, written, packetPool, bufferPool, doing, frames>>
    BY <1>3 DEF TakeMessage
  <2>2. messageChannel' \in Seq(KeptMessage) /\ Len(messageChannel') <= ChannelSize
    BY <1>1, <2>1, PoolsAssumption
  <2>3. beingRead' \subseteq KeptMessage /\ BytesAreKept'
    BY <1>1, <2>1 DEF BytesAreKept
  <2>4. Messages' \subseteq Messages
    BY <1>1, <2>1 DEF Messages
  <2> QED
    BY <1>1, <2>1, <2>2, <2>3, <2>4, OthersKeep
<1>4. CASE DropMessage \/ UNCHANGED poolVars
  <2>1. /\ beingRead' \subseteq beingRead
        /\ UNCHANGED <<fields, metadata, entries, written, packetPool, bufferPool, doing, frames,
                       messageChannel>>
    BY <1>4 DEF DropMessage, poolVars
  <2>2. Messages' \subseteq Messages /\ BytesAreKept'
    BY <1>1, <2>1 DEF Messages, BytesAreKept
  <2> QED
    BY <1>1, <2>1, <2>2, OthersKeep
<1> QED
  BY <1>2, <1>3, <1>4, BuildKeeps, ReadKeeps, EncodeKeeps, PutBufferKeeps, WriteToKeeps, QueueKeeps,
     ReturnKeeps, ClearKeeps, RejectKeeps
  DEF PoolsNext

-----------------------------------------------------------------------------
(* The priority queue *)

Entry == [priority : Nat, time : Nat]

(* The order of the heap, and of any part of it.                              *)
Ordered(h, from, to) ==
  \A i \in from..to : ~Before(h[i], h[i \div 2])

LEMMA BeforeIsOrder ==
  \A a, b, c \in Entry :
     /\ ~Before(a, a)
     /\ Before(a, b) => ~Before(b, a)
     /\ ~Before(b, a) /\ ~Before(c, b) => ~Before(c, a)
     /\ a # b /\ ~Before(b, a) => Before(a, b)
BY DEF Before, Entry

(* Up: the path of the last has no gap. *)
LEMMA PathIsClosed ==
  ASSUME NEW n \in Nat \ {0}, NEW h
  PROVE  /\ Passed(h, n) \subseteq 1..n - 1
         /\ \A a \in Passed(h, n) : /\ Before(h[n], h[a])
                                    /\ \E c \in Passed(h, n) \cup {n} : a = c \div 2
         /\ \A a \in 1..n - 1, c \in Passed(h, n) \cup {n} :
              Before(h[n], h[a]) /\ a = c \div 2 => a \in Passed(h, n)
<1> DEFINE Way(S) == \A a \in S : Before(h[n], h[a]) /\ \E c \in S \cup {n} : a = c \div 2
<1>1. Passed(h, n) = UNION {S \in SUBSET (1..n - 1) : Way(S)}
  BY DEF Passed
<1>2. Passed(h, n) \subseteq 1..n - 1
  BY <1>1
<1>3. Way(Passed(h, n))
  BY <1>1
<1>4. ASSUME NEW a \in 1..n - 1, NEW c \in Passed(h, n) \cup {n}, Before(h[n], h[a]), a = c \div 2
      PROVE  a \in Passed(h, n)
  <2> DEFINE S == Passed(h, n) \cup {a}
  <2>1. S \in SUBSET (1..n - 1) /\ Way(S)
    BY <1>2, <1>3, <1>4
  <2> HIDE DEF Way
  <2> QED
    BY <1>1, <2>1
<1> QED
  BY <1>2, <1>3, <1>4

LEMMA PathIsLine ==
  ASSUME NEW n \in Nat \ {0}, NEW h,
         NEW t \in Passed(h, n) \cup {n}, NEW k \in Passed(h, n) \cup {n},
         NEW c \in Passed(h, n) \cup {n}, t < k, k < c
  PROVE  t # c \div 2
<1> DEFINE P == Passed(h, n) \cup {n}
<1> DEFINE M == {x \in P : \E s \in P, d \in P : s < x /\ x < d /\ s = d \div 2}
<1>1. P \subseteq 1..n /\ M \in SUBSET (1..n) /\ n \in P /\ 1 \in Int /\ n \in Int
  BY PathIsClosed
<1>2. \A a \in P : a # n => \E d \in P : a = d \div 2
  BY PathIsClosed
<1> HIDE DEF P
<1>3. M = {}
  <2> SUFFICES ASSUME M # {} PROVE FALSE
    OBVIOUS
  <2>1. PICK x \in M : \A y \in M : x >= y
    BY <1>1, GreatestExists
  <2>2. PICK s \in P, d \in P : s < x /\ x < d /\ s = d \div 2
    BY <2>1
  <2>3. x \in 1..n /\ s \in 1..n /\ d \in 1..n /\ x # n
    BY <1>1, <2>1, <2>2
  <2>4. PICK e \in P : x = e \div 2
    BY <1>2, <2>1, <2>3
  <2>5. e \in 1..n
    BY <1>1
  <2>6. d < e
    BY <2>2, <2>3, <2>4, <2>5
  <2>7. d \in M
    BY <2>1, <2>2, <2>4, <2>6
  <2> QED
    BY <2>1, <2>2, <2>3, <2>7
<1> QED
  BY <1>3 DEF P
LEMMA PathHasNoGap ==
  ASSUME NEW n \in Nat \ {0}, NEW h, NEW k \in Passed(h, n) \cup {n},
         NEW top \in Passed(h, n) \cup {n}, top < k
  PROVE  k \div 2 \in Passed(h, n)
<1> DEFINE P == Passed(h, n) \cup {n}
           B == {x \in P : x < k}
<1>1. P \subseteq 1..n /\ B \in SUBSET (1..n) /\ B # {} /\ 1 \in Int /\ n \in Int
  BY PathIsClosed
<1>2. PICK t \in B : \A y \in B : t >= y
  <2> HIDE DEF P, B
  <2> QED
    BY <1>1, GreatestExists
<1>3. t \in 1..n /\ k \in 1..n /\ t < k /\ t \in Passed(h, n)
  BY <1>1, <1>2
<1>4. PICK c \in P : t = c \div 2
  BY <1>3, PathIsClosed
<1>5. c \in 1..n /\ t < c
  BY <1>1, <1>3, <1>4
<1>6. c >= k
  <2>1. c \notin B
    BY <1>2, <1>3, <1>5
  <2> QED
    BY <1>3, <1>5, <2>1
<1>7. ~(k < c)
  BY <1>3, <1>4, PathIsLine
<1>8. c = k
  BY <1>3, <1>5, <1>6, <1>7
<1> QED
  BY <1>3, <1>4, <1>8

LEMMA UpAt ==
  ASSUME NEW n \in Nat \ {0}, NEW h, DOMAIN h = 1..n
  PROVE  \E top \in Passed(h, n) \cup {n} :
           /\ \A a \in Passed(h, n) \cup {n} : top <= a
           /\ Up(h, n) = [i \in 1..n |->
                 IF i = top THEN h[n]
                 ELSE IF i \in Passed(h, n) \cup {n} THEN h[i \div 2] ELSE h[i]]
<1> DEFINE path == {n} \cup Passed(h, n)
<1>1. path \in SUBSET Nat /\ path # {}
  BY PathIsClosed
<1>2. Min(path) \in path /\ \A a \in path : Min(path) <= a
  BY <1>1, LeastIsMin
<1>3. path = Passed(h, n) \cup {n}
  OBVIOUS
<1> QED
  BY <1>2, <1>3 DEF Up

(* Up restores the order that the message added at the end may have broken.   *)
LEMMA UpOrders ==
  ASSUME NEW n \in Nat \ {0}, NEW S \in SUBSET Entry, NEW h \in [1..n -> S], Ordered(h, 2, n - 1)
  PROVE  Up(h, n) \in [1..n -> S] /\ Ordered(Up(h, n), 2, n)
<1> DEFINE P == Passed(h, n) \cup {n}
           u == Up(h, n)
<1>1. PICK top \in P : /\ \A a \in P : top <= a
                       /\ u = [i \in 1..n |-> IF i = top THEN h[n]
                                              ELSE IF i \in P THEN h[i \div 2] ELSE h[i]]
  BY UpAt
<1>2. P \subseteq 1..n
  BY PathIsClosed
<1>3. \A i \in P : i # top => i \div 2 \in Passed(h, n) /\ top < i
  BY <1>1, <1>2, PathHasNoGap
<1>4. /\ \A a \in Passed(h, n) : a \in P /\ Before(h[n], h[a])
      /\ \A a \in 1..n - 1, c \in P : Before(h[n], h[a]) /\ a = c \div 2 => a \in P
  BY PathIsClosed
<1>5. \A a \in Passed(h, n) : a \in 1..n - 1
  BY PathIsClosed
<1> HIDE DEF P, u
<1>6. u \in [1..n -> S]
  <2>1. \A i \in P : i # top => i \div 2 \in 1..n
    BY <1>3, <1>5
  <2> QED
    BY <1>1, <1>2, <2>1
<1>7. ASSUME NEW i \in 2..n PROVE ~Before(u[i], u[i \div 2])
  <2> DEFINE p == i \div 2
  <2>1. p \in 1..n - 1 /\ p < i
    OBVIOUS
  <2>2. \A k \in 2..n - 1 : ~Before(h[k], h[k \div 2])
    BY DEF Ordered
  <2>3. \A k \in 1..n : h[k] \in Entry
    OBVIOUS
  <2>4. CASE i = top
    <3>1. p \notin P /\ u[i] = h[n] /\ u[p] = h[p]
      BY <1>1, <1>2, <2>1, <2>4
    <3> QED
      BY <1>4, <2>1, <2>4, <3>1
  <2>5. CASE i \in P /\ i # top
    <3>1. p \in Passed(h, n) /\ p \in P /\ u[i] = h[p]
      BY <1>1, <1>3, <1>4, <2>5
    <3>2. CASE p = top
      <4>1. u[p] = h[n] /\ Before(h[n], h[p])
        BY <1>1, <1>4, <2>1, <3>1, <3>2
      <4> QED
        BY <2>1, <2>3, <3>1, <4>1, BeforeIsOrder
    <3>3. CASE p # top
      <4>1. u[p] = h[p \div 2] /\ p \in 2..n - 1
        BY <1>1, <1>2, <1>3, <2>1, <3>1, <3>3
      <4> QED
        BY <2>2, <3>1, <4>1
    <3> QED
      BY <3>2, <3>3
  <2>6. CASE i \notin P
    <3>1. u[i] = h[i] /\ i \in 2..n - 1 /\ ~Before(h[i], h[p])
      <4>1. n \in P
        BY DEF P
      <4>2. i # n
        BY <2>6, <4>1
      <4> QED
        BY <1>1, <2>2, <2>6, <4>2
    <3>2. CASE p \notin P
      BY <1>1, <2>1, <3>1, <3>2
    <3>3. CASE p \in P /\ p = top
      <4>1. p \in Passed(h, n)
        BY <2>1, <3>3 DEF P
      <4>2. u[p] = h[n] /\ Before(h[n], h[p])
        BY <1>1, <1>4, <2>1, <3>3, <4>1
      <4>3. ~Before(h[p], h[n])
        BY <2>1, <2>3, <4>2, BeforeIsOrder
      <4> QED
        BY <2>1, <2>3, <3>1, <4>2, <4>3, BeforeIsOrder
    <3>4. CASE p \in P /\ p # top
      <4>1. u[p] = h[p \div 2] /\ p \in 2..n - 1
        BY <1>1, <1>2, <1>3, <2>1, <3>4
      <4>2. ~Before(h[p], h[p \div 2]) /\ p \div 2 \in 1..n
        BY <2>2, <4>1
      <4> QED
        BY <2>1, <2>3, <3>1, <4>1, <4>2, BeforeIsOrder
    <3> QED
      BY <3>2, <3>3, <3>4
  <2> QED
    BY <2>4, <2>5, <2>6
<1> QED
  BY <1>6, <1>7 DEF Ordered, u
(* Down: what rises are the first children, each of the first position or of  *)
(* another that rises.                                                        *)
LEMMA RisingIsClosed ==
  ASSUME NEW n \in Nat, NEW h, Len(h) = n
  PROVE  /\ Rising(h) \subseteq 2..n
         /\ \A c \in Rising(h) : /\ Before(h[c], h[1]) /\ c \div 2 \in Rising(h) \cup {1}
                                 /\ c = FirstChild(h, c \div 2)
         /\ \A c \in 2..n : (/\ Before(h[c], h[1]) /\ c \div 2 \in Rising(h) \cup {1}
                              /\ c = FirstChild(h, c \div 2)) => c \in Rising(h)
<1> DEFINE Way(S) == \A c \in S : /\ Before(h[c], h[1]) /\ c \div 2 \in S \cup {1}
                                  /\ c = FirstChild(h, c \div 2)
<1>1. Rising(h) = UNION {S \in SUBSET (2..n) : Way(S)}
  BY DEF Rising
<1>2. Rising(h) \subseteq 2..n
  BY <1>1
<1>3. Way(Rising(h))
  BY <1>1
<1>4. ASSUME NEW c \in 2..n, Before(h[c], h[1]), c \div 2 \in Rising(h) \cup {1},
             c = FirstChild(h, c \div 2)
      PROVE  c \in Rising(h)
  <2> DEFINE S == Rising(h) \cup {c}
  <2>1. S \in SUBSET (2..n) /\ Way(S)
    BY <1>2, <1>3, <1>4
  <2> HIDE DEF Way
  <2> QED
    BY <1>1, <2>1
<1> QED
  BY <1>2, <1>3, <1>4

LEMMA ChildrenOf ==
  ASSUME NEW h, NEW a \in Nat \ {0}
  PROVE  /\ FirstChild(h, a) \in {2 * a, 2 * a + 1}
         /\ FirstChild(h, a) \div 2 = a
         /\ \A b \in Nat : a < b => FirstChild(h, a) < FirstChild(h, b)
<1>1. \A b \in Nat : FirstChild(h, b) \in {2 * b, 2 * b + 1}
  BY DEF FirstChild
<1> QED
  BY <1>1

LEMMA RisingIsLine ==
  ASSUME NEW n \in Nat, NEW h, Len(h) = n,
         NEW q \in Rising(h) \cup {1}, NEW k \in Rising(h) \cup {1}, q < k,
         FirstChild(h, q) \in Rising(h)
  PROVE  ~(k < FirstChild(h, q))
<1> DEFINE P == Rising(h) \cup {1}
           M == {x \in P : \E s \in P : s < x /\ x < FirstChild(h, s) /\ FirstChild(h, s) \in P}
<1>1. P \subseteq Nat \ {0}
  BY RisingIsClosed
<1>2. M = {}
  <2> SUFFICES ASSUME M # {} PROVE FALSE
    OBVIOUS
  <2>1. PICK x \in M : \A y \in M : x <= y
    <3>1. M \in SUBSET Nat
      BY <1>1
    <3> HIDE DEF M
    <3> QED
      BY <3>1, LeastExists
  <2>2. PICK s \in P : s < x /\ x < FirstChild(h, s) /\ FirstChild(h, s) \in P
    BY <2>1
  <2>3. x \in Nat /\ s \in Nat \ {0} /\ x # 1 /\ x \in Rising(h)
    BY <1>1, <2>1, <2>2
  <2>4. PICK r \in P : x = FirstChild(h, r)
    BY <2>3, RisingIsClosed
  <2>5. r \in Nat \ {0}
    BY <1>1
  <2>6. r < s
    <3>1. s < r => FirstChild(h, s) < FirstChild(h, r)
      BY <2>3, <2>5, ChildrenOf
    <3>2. FirstChild(h, s) \in Nat /\ FirstChild(h, r) \in Nat
      BY SMTT(60), <2>3, <2>5, ChildrenOf
    <3> QED
      BY <2>2, <2>3, <2>4, <2>5, <3>1, <3>2
  <2>7. s \in M
    BY <2>1, <2>2, <2>4, <2>6
  <2> QED
    BY <2>1, <2>2, <2>3, <2>7
<1>3. FirstChild(h, q) \in P
  OBVIOUS
<1> QED
  BY <1>2, <1>3

LEMMA RisingHasNoGap ==
  ASSUME NEW n \in Nat, NEW h, Len(h) = n, NEW k \in Rising(h) \cup {1},
         NEW bottom \in Rising(h) \cup {1}, k < bottom
  PROVE  FirstChild(h, k) \in Rising(h)
<1> DEFINE P == Rising(h) \cup {1}
           B == {x \in P : x > k}
<1>1. P \subseteq Nat \ {0} /\ B \subseteq Nat /\ B # {}
  BY RisingIsClosed
<1>2. PICK t \in B : \A y \in B : t <= y
  BY <1>1, LeastExists
<1>3. t \in Nat /\ k \in Nat \ {0} /\ k < t /\ t \in Rising(h)
  BY <1>1, <1>2
<1>4. PICK q \in P : t = FirstChild(h, q)
  BY <1>3, RisingIsClosed
<1>5. q \in Nat \ {0} /\ q < t
  BY <1>1, <1>3, <1>4, ChildrenOf
<1>6. q <= k
  <2>1. q \notin B
    BY <1>2, <1>3, <1>5
  <2> QED
    BY <1>3, <1>5, <2>1
<1>7. ~(q < k)
  BY <1>3, <1>4, RisingIsLine
<1> QED
  BY <1>3, <1>4, <1>5, <1>6, <1>7

LEMMA DownAt ==
  ASSUME NEW n \in Nat, NEW h, Len(h) = n, DOMAIN h = 1..n
  PROVE  \E bottom \in Rising(h) \cup {1} :
           /\ \A a \in Rising(h) \cup {1} : a <= bottom
           /\ Down(h) = [i \in 1..n |->
                 IF i = bottom THEN h[1]
                 ELSE IF FirstChild(h, i) \in Rising(h) THEN h[FirstChild(h, i)] ELSE h[i]]
<1> DEFINE path == {1} \cup Rising(h)
<1>1. path \in SUBSET (0..n + 1) /\ path # {} /\ 0 \in Int /\ n + 1 \in Int
  BY RisingIsClosed
<1>2. Max(path) \in path /\ \A a \in path : Max(path) >= a
  BY <1>1, GreatestIsMax
<1>3. path = Rising(h) \cup {1} /\ \A a \in path : a \in Nat
  BY RisingIsClosed
<1> QED
  BY <1>2, <1>3 DEF Down

(* Down restores the order below the first, which may be anything.            *)
LEMMA DownOrders ==
  ASSUME NEW n \in Nat, NEW S \in SUBSET Entry, NEW h \in [1..n -> S], Len(h) = n, Ordered(h, 4, n)
  PROVE  Down(h) \in [1..n -> S] /\ Ordered(Down(h), 2, n)
<1> DEFINE P == Rising(h) \cup {1}
           d == Down(h)
           C(i) == FirstChild(h, i)
<1>1. PICK bottom \in P : /\ \A a \in P : a <= bottom
                          /\ d = [i \in 1..n |-> IF i = bottom THEN h[1]
                                 ELSE IF C(i) \in Rising(h) THEN h[C(i)] ELSE h[i]]
  BY DownAt
<1>2. Rising(h) \subseteq 2..n /\ P \subseteq 1..n + 1 /\ \A i \in P : i <= n \/ i = 1
  BY RisingIsClosed
<1>3. \A i \in P : i # bottom => C(i) \in Rising(h)
  BY <1>1, <1>2, RisingHasNoGap
<1>4. /\ \A c \in Rising(h) : Before(h[c], h[1]) /\ c \div 2 \in P /\ c = C(c \div 2)
      /\ \A c \in 2..n : Before(h[c], h[1]) /\ c \div 2 \in P /\ c = C(c \div 2)
                          => c \in Rising(h)
  BY RisingIsClosed
<1>5. \A i \in Nat \ {0} : C(i) \in {2 * i, 2 * i + 1} /\ C(i) \div 2 = i
  BY ChildrenOf
<1>6. \A k \in 1..n : h[k] \in Entry
  OBVIOUS
<1>7. \A k \in 2..n : ~Before(h[k], h[C(k \div 2)]) /\ C(k \div 2) \in 2..n
  <2> SUFFICES ASSUME NEW k \in 2..n PROVE ~Before(h[k], h[C(k \div 2)]) /\ C(k \div 2) \in 2..n
    OBVIOUS
  <2>1. PICK p \in 1..n : p = k \div 2 /\ (k = 2 * p \/ k = 2 * p + 1)
    OBVIOUS
  <2>2. CASE 2 * p + 1 <= n /\ Before(h[2 * p + 1], h[2 * p])
    BY <1>6, <2>1, <2>2, BeforeIsOrder DEF FirstChild
  <2>3. CASE ~(2 * p + 1 <= n /\ Before(h[2 * p + 1], h[2 * p]))
    BY <1>6, <2>1, <2>3, BeforeIsOrder DEF FirstChild
  <2> QED
    BY <2>2, <2>3
<1> HIDE DEF P, d, C
<1>8. d \in [1..n -> S]
  BY <1>1, <1>2
<1>9. ASSUME NEW i \in 2..n PROVE ~Before(d[i], d[i \div 2])
  <2> DEFINE p == i \div 2
  <2>1. p \in 1..n /\ p < i /\ (i >= 4 => p >= 2) /\ (i < 4 => p = 1)
    OBVIOUS
  <2>2. \A k \in 4..n : ~Before(h[k], h[k \div 2])
    BY DEF Ordered
  <2>3. d[i] \in {h[1], h[i], h[C(i)]} /\ d[p] \in {h[1], h[p], h[C(p)]}
    BY <1>1, <2>1
  <2>4. ASSUME C(i) \in Rising(h) PROVE ~Before(h[C(i)], h[i]) /\ C(i) \in 2..n
    <3>1. C(i) \in 2..n /\ C(i) \div 2 = i /\ C(i) >= 4
      BY <1>2, <1>5, <2>4
    <3> QED
      BY <2>2, <3>1
  <2>5. ~Before(h[i], h[C(p)]) /\ C(p) \in 2..n
    BY <1>7
  <2>6. CASE C(p) \in Rising(h)
    <3>1. p \in P /\ p # bottom
      <4>1. p \in P
        BY <1>4, <1>5, <2>1, <2>6
      <4>2. C(p) \in P /\ C(p) > p
        BY <1>5, <2>1, <2>6 DEF P
      <4>3. C(p) <= bottom
        BY <1>1, <4>2
      <4>4. bottom \in Nat /\ C(p) \in Nat
        BY <1>2, <2>5
      <4> QED
        BY <2>1, <4>1, <4>2, <4>3, <4>4
    <3>2. d[p] = h[C(p)]
      BY <1>1, <2>1, <2>6, <3>1
    <3>3. CASE i = bottom
      <4>1. d[i] = h[1]
        BY <1>1, <3>3
      <4>2. Before(h[C(p)], h[1])
        BY <1>4, <2>6
      <4> QED
        BY <1>6, <2>5, <3>2, <4>1, <4>2, BeforeIsOrder
    <3>4. CASE i # bottom /\ C(i) \in Rising(h)
      <4>1. d[i] = h[C(i)]
        BY <1>1, <3>4
      <4> QED
        BY <1>6, <2>4, <2>5, <3>2, <3>4, <4>1, BeforeIsOrder
    <3>5. CASE i # bottom /\ C(i) \notin Rising(h)
      <4>1. d[i] = h[i]
        BY <1>1, <3>5
      <4> QED
        BY <2>5, <3>2, <4>1
    <3> QED
      BY <3>3, <3>4, <3>5
  <2>7. CASE C(p) \notin Rising(h)
    <3>1. i \notin P
      <4>1. i \notin Rising(h)
        BY <1>4, <2>7
      <4> QED
        BY <4>1 DEF P
    <3>2. C(i) \notin Rising(h)
      <4>1. C(i) \in Rising(h) => C(i) \div 2 \in P
        BY <1>4
      <4> QED
        BY <1>5, <3>1, <4>1
    <3>3. d[i] = h[i]
      BY <1>1, <3>1, <3>2
    <3>4. CASE p = bottom
      <4>1. d[p] = h[1] /\ p \in P
        BY <1>1, <2>1, <3>4
      <4>2. ~Before(h[C(p)], h[1])
        <5>1. C(p) \div 2 = p
          BY <1>5, <2>1
        <5>2. C(p) = C(C(p) \div 2)
          BY <5>1
        <5> QED
          BY <1>4, <2>5, <2>7, <4>1, <5>1, <5>2
      <4> QED
        BY <1>2, <1>6, <2>5, <3>3, <4>1, <4>2, BeforeIsOrder
    <3>5. CASE p # bottom
      <4>1. d[p] = h[p] /\ p \notin P
        BY <1>1, <1>3, <2>1, <2>7, <3>5
      <4>2. p # 1
        BY <4>1 DEF P
      <4>3. ~Before(h[i], h[p])
        BY <2>1, <2>2, <4>2
      <4> QED
        BY <3>3, <4>1, <4>3
    <3> QED
      BY <3>4, <3>5
  <2> QED
    BY <2>6, <2>7
<1> QED
  BY <1>8, <1>9 DEF Ordered, d

(* Down loses nothing.                                                        *)
LEMMA DownKeeps ==
  ASSUME NEW n \in Nat, NEW h \in [1..n -> Entry], Len(h) = n
  PROVE  \A i \in 1..n : \E j \in 1..n : Down(h)[j] = h[i]
<1> DEFINE P == Rising(h) \cup {1}
<1>1. PICK bottom \in P : /\ \A a \in P : a <= bottom
                          /\ Down(h) = [i \in 1..n |-> IF i = bottom THEN h[1]
                                 ELSE IF FirstChild(h, i) \in Rising(h) THEN h[FirstChild(h, i)] ELSE h[i]]
  BY DownAt
<1>2. P \subseteq 1..n + 1 /\ \A i \in P : i <= n \/ i = 1
  BY RisingIsClosed
<1>3. ASSUME NEW i \in 1..n PROVE \E j \in 1..n : Down(h)[j] = h[i]
  <2>1. CASE i = 1
    BY <1>1, <1>2, <2>1
  <2>2. CASE i \in Rising(h)
    <3>1. i \div 2 \in P /\ i = FirstChild(h, i \div 2) /\ i \in 2..n /\ i \in P
      BY <2>2, RisingIsClosed
    <3>2. i \div 2 \in 1..n /\ i \div 2 < i /\ i <= bottom /\ bottom \in Nat
      BY <1>1, <1>2, <3>1
    <3>3. i \div 2 # bottom
      BY <3>1, <3>2
    <3>4. Down(h)[i \div 2] = h[i]
      BY <1>1, <2>2, <3>1, <3>2, <3>3
    <3> QED
      BY <3>2, <3>4
  <2>3. CASE i \notin P
    <3>1. FirstChild(h, i) \notin Rising(h)
      <4>1. FirstChild(h, i) \div 2 = i
        BY ChildrenOf
      <4> QED
        BY <2>3, <4>1, RisingIsClosed
    <3>2. i # bottom
      BY <2>3
    <3>3. Down(h)[i] = h[i]
      BY <1>1, <3>1, <3>2
    <3> QED
      BY <3>3
  <2> QED
    BY <2>1, <2>2, <2>3
<1> QED
  BY <1>3
LEMMA RootIsFirst ==
  ASSUME NEW n \in Nat, NEW h \in [1..n -> Entry], Ordered(h, 2, n)
  PROVE  \A i \in 1..n : ~Before(h[i], h[1])
<1> DEFINE Bad == {i \in 1..n : Before(h[i], h[1])}
<1>1. SUFFICES ASSUME Bad # {} PROVE FALSE
  OBVIOUS
<1>2. PICK i \in Bad : \A k \in Bad : i <= k
  <2>1. Bad \in SUBSET Nat
    OBVIOUS
  <2> HIDE DEF Bad
  <2> QED
    BY <1>1, <2>1, LeastExists
<1>3. i \in 2..n /\ i \div 2 \in 1..n /\ i \div 2 < i
  <2>1. i # 1
    BY <1>2, BeforeIsOrder
  <2> QED
    BY <1>2, <2>1
<1>4. i \div 2 \notin Bad
  BY <1>2, <1>3
<1>5. ~Before(h[i \div 2], h[1]) /\ ~Before(h[i], h[i \div 2])
  BY <1>3, <1>4 DEF Ordered
<1>6. h[1] \in Entry /\ h[i] \in Entry /\ h[i \div 2] \in Entry
  BY <1>3
<1> QED
  BY <1>2, <1>5, <1>6, BeforeIsOrder

-----------------------------------------------------------------------------
QueueIInv == PriorityQueueTypeOK /\ Ordered(heap, 2, Len(heap))

LEMMA ItemIsEntry == Item \in SUBSET Entry
<1>1. 1..MaxPushes \subseteq Nat /\ Priorities \subseteq Nat
  BY PriorityQueueAssumption
<1> QED
  BY <1>1 DEF Item, Entry

LEMMA InitQueue == PriorityQueueInit => QueueIInv
BY PriorityQueueAssumption DEF PriorityQueueInit, QueueIInv, PriorityQueueTypeOK, Ordered

LEMMA FrontOfHeap ==
  ASSUME NEW S, NEW s \in Seq(S), s # <<>>
  PROVE  /\ Front(s) \in Seq(S) /\ Len(Front(s)) = Len(s) - 1
         /\ \A i \in 1..Len(s) - 1 : Front(s)[i] = s[i]
<1>1. Len(s) \in Nat \ {0} /\ \A i \in 1..Len(s) - 1 : s[i] \in S
  OBVIOUS
<1>2. 1 \in Int /\ Len(s) - 1 \in Int
  BY <1>1
<1> DEFINE n == Len(s) - 1
<1>3. n \in Nat /\ n \in Int /\ \A i \in 1..n : s[i] \in S
  BY <1>1
<1>4. SubSeq(s, 1, n) \in Seq(S)
  BY <1>2, <1>3, SubSeqProperties, SMT
<1>5. Len(SubSeq(s, 1, n)) = IF 1 <= n THEN n - 1 + 1 ELSE 0
  BY <1>2, <1>3, SubSeqProperties, SMT
<1>6. \A i \in 1..n - 1 + 1 : SubSeq(s, 1, n)[i] = s[1 + i - 1]
  BY <1>2, <1>3, SubSeqProperties, SMT
<1>7. Front(s) = SubSeq(s, 1, n)
  BY DEF Front
<1> HIDE DEF n
<1>8. Front(s) \in Seq(S) /\ Len(Front(s)) = n
  BY <1>3, <1>4, <1>5, <1>7
<1>9. \A i \in 1..n : Front(s)[i] = s[i]
  <2> SUFFICES ASSUME NEW i \in 1..n PROVE Front(s)[i] = s[i]
    OBVIOUS
  <2>1. i \in 1..n - 1 + 1 /\ 1 + i - 1 = i
    BY <1>3
  <2> QED
    BY <1>6, <1>7, <2>1
<1> QED
  BY <1>8, <1>9 DEF n

LEMMA PushKeeps ==
  ASSUME QueueIInv, NEW p \in Priorities, Push(p) PROVE QueueIInv'
<1> USE PriorityQueueAssumption
<1>1. /\ heap \in Seq(Item) /\ Len(heap) <= MaxSize /\ Ordered(heap, 2, Len(heap))
      /\ clock' = clock + 1 /\ clock' \in 1..MaxPushes
  BY DEF QueueIInv, PriorityQueueTypeOK, Push
<1> DEFINE room == IF Full THEN Front(heap) ELSE heap
           item == [priority |-> p, time |-> clock']
           added == Append(room, item)
           n == Len(added)
<1>2. item \in Item
  BY <1>1 DEF Item
<1>3. CASE heap' = heap
  BY <1>1, <1>3 DEF QueueIInv, PriorityQueueTypeOK, Ordered
<1>4. CASE heap' = Up(added, n)
  <2>1. Full => heap # <<>>
    BY <1>1 DEF Full
  <2>2. /\ room \in Seq(Item) /\ Len(room) < MaxSize /\ Len(room) <= Len(heap)
        /\ \A i \in 1..Len(room) : room[i] = heap[i]
    <3>1. CASE Full
      BY <1>1, <2>1, <3>1, FrontOfHeap
    <3>2. CASE ~Full
      BY <1>1, <3>2 DEF Full
    <3> QED
      BY <3>1, <3>2
  <2> HIDE DEF room, item
  <2>3. /\ added \in Seq(Item) /\ n = Len(room) + 1
        /\ \A i \in 1..Len(room) : added[i] = room[i]
    BY <1>2, <2>2
  <2> HIDE DEF added
  <2>4. /\ n \in Nat \ {0} /\ n <= MaxSize /\ added \in [1..n -> Item]
        /\ \A i \in 1..n - 1 : added[i] = heap[i] /\ i <= Len(heap)
    BY <2>2, <2>3
  <2> HIDE DEF n
  <2>5. Ordered(added, 2, n - 1)
    <3> SUFFICES ASSUME NEW i \in 2..n - 1 PROVE ~Before(added[i], added[i \div 2])
      BY DEF Ordered
    <3>1. i \div 2 \in 1..n - 1
      BY <2>4
    <3>2. i \in 2..Len(heap)
      BY <1>1, <2>4
    <3> QED
      BY <1>1, <2>4, <3>1, <3>2 DEF Ordered
  <2>6. heap' \in [1..n -> Item] /\ Ordered(heap', 2, n)
    BY <1>4, <2>4, <2>5, ItemIsEntry, UpOrders
  <2>7. heap' \in Seq(Item) /\ Len(heap') = n
    BY <2>4, <2>6
  <2> QED
    BY <1>1, <2>4, <2>6, <2>7 DEF QueueIInv, PriorityQueueTypeOK
<1> QED
  BY <1>3, <1>4 DEF Push

(* A pop takes out the first position, and nothing else.                      *)
LEMMA PopKeeps ==
  ASSUME QueueIInv, Pop PROVE QueueIInv' /\ Gone \subseteq {heap[1]}
<1> USE PriorityQueueAssumption
<1>1. heap \in Seq(Item) /\ Len(heap) <= MaxSize /\ Ordered(heap, 2, Len(heap)) /\ heap # <<>>
  BY DEF QueueIInv, PriorityQueueTypeOK, Pop
<1> DEFINE m == Len(heap)
           swapped == Swap(heap, 1, m)
           h == Front(swapped)
           n == m - 1
<1>2. /\ m \in Nat \ {0} /\ heap \in [1..m -> Item] /\ swapped \in Seq(Item) /\ Len(swapped) = m
      /\ \A i \in 1..m : swapped[i] = IF i = m THEN heap[1] ELSE IF i = 1 THEN heap[m] ELSE heap[i]
  BY <1>1 DEF Swap
<1> HIDE DEF swapped, m
<1>3. h \in Seq(Item) /\ Len(h) = n /\ \A i \in 1..n : h[i] = swapped[i]
  <2>1. swapped # <<>>
    BY <1>2
  <2> QED
    BY <1>2, <2>1, FrontOfHeap
<1>4. /\ n \in Nat /\ h \in [1..n -> Item]
      /\ \A i \in 1..n : h[i] = IF i = 1 THEN heap[m] ELSE heap[i]
  BY <1>2, <1>3
<1>5. heap' = Down(h)
  BY DEF Pop, h, swapped, m
<1> HIDE DEF h
<1>6. Ordered(h, 4, n)
  <2> SUFFICES ASSUME NEW i \in 4..n PROVE ~Before(h[i], h[i \div 2])
    BY DEF Ordered
  <2>1. i \div 2 \in 2..n /\ i \in 2..m
    BY <1>2
  <2>2. ~Before(heap[i], heap[i \div 2])
    BY <1>1, <2>1 DEF Ordered, m
  <2> QED
    BY <1>4, <2>1, <2>2
<1>7. heap' \in [1..n -> Item] /\ Ordered(heap', 2, n)
  BY <1>3, <1>4, <1>5, <1>6, ItemIsEntry, DownOrders
<1>8. heap' \in Seq(Item) /\ Len(heap') = n
  BY <1>4, <1>7
<1>9. clock' = clock
  BY DEF Pop
<1>10. QueueIInv'
  <2>1. Len(heap') <= MaxSize /\ clock' \in 0..MaxPushes
    BY <1>1, <1>8, <1>9 DEF QueueIInv, PriorityQueueTypeOK, m
  <2> QED
    BY <1>7, <1>8, <2>1 DEF QueueIInv, PriorityQueueTypeOK
<1>11. ASSUME NEW i \in 2..m PROVE \E j \in DOMAIN heap' : heap'[j] = heap[i]
  <2>1. \E k \in 1..n : h[k] = heap[i]
    <3>1. CASE i = m
      <4>1. 1 \in 1..n /\ h[1] = heap[i]
        BY <1>2, <1>4, <3>1
      <4> QED
        BY <4>1
    <3>2. CASE i # m
      <4>1. i \in 1..n /\ h[i] = heap[i]
        BY <1>2, <1>4, <3>2
      <4> QED
        BY <4>1
    <3> QED
      BY <3>1, <3>2
  <2>2. h \in [1..n -> Entry]
    BY <1>4, ItemIsEntry
  <2> QED
    <3>1. PICK k \in 1..n : h[k] = heap[i]
      BY <2>1
    <3>2. \E j \in 1..n : Down(h)[j] = h[k]
      BY <1>3, <1>4, <2>2, DownKeeps
    <3>3. DOMAIN heap' = 1..n
      BY <1>7
    <3> QED
      BY <1>5, <3>1, <3>2, <3>3
<1>12. Gone \subseteq {heap[1]}
  <2> SUFFICES ASSUME NEW x \in Gone PROVE x = heap[1]
    OBVIOUS
  <2>1. PICK i \in 1..m : x = heap[i]
    BY <1>2 DEF Gone, Queued
  <2>2. i \notin 2..m
    BY <1>11, <2>1 DEF Gone
  <2> QED
    BY <1>2, <2>1, <2>2
<1> QED
  BY <1>10, <1>12

LEMMA NextQueue == QueueIInv /\ [PriorityQueueNext]_queueVars => QueueIInv'
<1>1. QueueIInv /\ UNCHANGED queueVars => QueueIInv'
  BY DEF QueueIInv, PriorityQueueTypeOK, Ordered, queueVars
<1> QED
  BY <1>1, PushKeeps, PopKeeps DEF PriorityQueueNext

LEMMA NextTakesTheFirst ==
  ASSUME QueueIInv, [PriorityQueueNext]_queueVars, clock' = clock
  PROVE  \A gone \in Gone : \A m \in Queued \ {gone} : Before(gone, m)
<1>1. CASE UNCHANGED queueVars
  BY <1>1 DEF Gone, Queued, queueVars
<1>2. ASSUME NEW p \in Priorities, Push(p) PROVE FALSE
  BY <1>2 DEF Push, QueueIInv, PriorityQueueTypeOK
<1>3. CASE Pop
  <2> SUFFICES ASSUME NEW gone \in Gone, NEW m \in Queued \ {gone} PROVE Before(gone, m)
    OBVIOUS
  <2>1. gone = heap[1]
    BY <1>3, PopKeeps
  <2>2. heap \in Seq(Item) /\ Ordered(heap, 2, Len(heap))
    BY DEF QueueIInv, PriorityQueueTypeOK
  <2>3. Len(heap) \in Nat /\ heap \in [1..Len(heap) -> Entry]
    BY <2>2, ItemIsEntry
  <2>4. PICK i \in 1..Len(heap) : m = heap[i]
    BY <2>3 DEF Queued
  <2>5. ~Before(m, gone)
    BY <2>1, <2>2, <2>3, <2>4, RootIsFirst
  <2>6. m \in Entry /\ gone \in Entry
    <3>1. 1 \in 1..Len(heap)
      BY <2>3, <2>4
    <3> QED
      BY <2>1, <2>3, <2>4, <3>1
  <2> QED
    BY <2>5, <2>6, BeforeIsOrder
<1> QED
  BY <1>1, <1>2, <1>3 DEF PriorityQueueNext

-----------------------------------------------------------------------------
(* Retries *)

(* Of one operation: where it is tells how often it has failed, and that all  *)
(* of its failures but perhaps the last could be tried again.                 *)
Retried(errors, k) == \A i \in 1..k : Action(errors[i]) = "retry"

AsFarAs(errors, tries, place, outcome) ==
  /\ Len(errors) <= MaxRetries + 1
  /\ place \in {"new", "trying"} => Len(errors) = tries /\ Retried(errors, tries)
  /\ place \in {"failed", "waiting"} => Len(errors) = tries + 1 /\ Retried(errors, tries)
  /\ place = "waiting" => Retried(errors, tries + 1) /\ tries < MaxRetries
  /\ place = "done" => outcome # "none" /\ Retried(errors, Len(errors) - 1)
  /\ place # "done" => outcome = "none"
  /\ outcome = "error" => \/ Len(errors) = MaxRetries + 1
                          \/ Action(Last(errors)) # "retry"

FollowsThePolicy ==
  \A o \in Operation : AsFarAs(lastErr[o], attempt[o], at[o], result[o])

EveryErrorCounted ==
  \A c \in Category : /\ errorStats[c].success = Cardinality(Recovered(c))
                      /\ errorStats[c].total = others[c] + Cardinality(Failures(c))

RetriesIInv == RetriesTypeOK /\ FollowsThePolicy /\ EveryErrorCounted

CategoryStats == [total : Nat, recent : Nat, success : Nat]

LEMMA PolicySays == RetriesIInv => RetriedAsThePolicySays
<1> SUFFICES ASSUME RetriesIInv PROVE RetriedAsThePolicySays
  OBVIOUS
<1>1. ASSUME NEW o \in Operation
      PROVE  /\ Len(lastErr[o]) <= MaxRetries + 1
             /\ Retried(lastErr[o], Len(lastErr[o]) - 1)
             /\ result[o] = "error" => \/ Len(lastErr[o]) = MaxRetries + 1
                                       \/ Action(Last(lastErr[o])) # "retry"
  <2>1. /\ AsFarAs(lastErr[o], attempt[o], at[o], result[o])
        /\ lastErr[o] \in Seq(Category) /\ attempt[o] \in Nat
        /\ at[o] \in {"new", "trying", "failed", "waiting", "done"}
    BY RetriesAssumption DEF RetriesIInv, RetriesTypeOK, FollowsThePolicy
  <2>2. Len(lastErr[o]) \in Nat
    BY <2>1
  <2>3. Retried(lastErr[o], Len(lastErr[o]) - 1)
    <3>1. CASE at[o] \in {"new", "trying"}
      BY <2>1, <2>2, <3>1 DEF AsFarAs, Retried
    <3>2. CASE at[o] \in {"failed", "waiting"}
      <4>1. Len(lastErr[o]) - 1 = attempt[o] /\ Retried(lastErr[o], attempt[o])
        BY <2>1, <2>2, <3>2 DEF AsFarAs
      <4> QED
        BY <4>1
    <3>3. CASE at[o] = "done"
      BY <2>1, <3>3 DEF AsFarAs
    <3> QED
      BY <2>1, <3>1, <3>2, <3>3
  <2> QED
    BY <2>1, <2>3 DEF AsFarAs
<1> QED
  BY <1>1 DEF RetriedAsThePolicySays, Retried, RetriesIInv, EveryErrorCounted

LEMMA FailuresAreFinite ==
  ASSUME RetriesTypeOK, FollowsThePolicy, NEW c
  PROVE  IsFiniteSet(Failures(c)) /\ IsFiniteSet(Recovered(c))
<1>1. Failures(c) \subseteq Operation \X (1..MaxRetries + 1)
  <2> SUFFICES ASSUME NEW o \in Operation PROVE DOMAIN lastErr[o] \subseteq 1..MaxRetries + 1
    BY DEF Failures
  <2>1. lastErr[o] \in Seq(Category) /\ Len(lastErr[o]) <= MaxRetries + 1
    BY DEF RetriesTypeOK, FollowsThePolicy, AsFarAs
  <2> QED
    BY <2>1, RetriesAssumption
<1>2. IsFiniteSet(Operation \X (1..MaxRetries + 1))
  <2>1. 1 \in Int /\ MaxRetries + 1 \in Int
    BY RetriesAssumption
  <2>2. IsFiniteSet(1..MaxRetries + 1)
    BY <2>1, FS_Interval
  <2> QED
    BY <2>2, RetriesAssumption, FS_Product
<1>3. Recovered(c) \subseteq Operation
  BY DEF Recovered
<1> QED
  BY <1>1, <1>2, <1>3, RetriesAssumption, FS_Subset

LEMMA InitRetries == RetriesInit => RetriesIInv
<1> SUFFICES ASSUME RetriesInit PROVE RetriesIInv
  OBVIOUS
<1>1. RetriesTypeOK
  <2>1. /\ attempt \in [Operation -> 0..MaxRetries] /\ others \in [Category -> 0..MaxOthers]
        /\ errorStats \in [Category -> CategoryStats] /\ Len(errorHistory) <= MaxHistory
    BY RetriesAssumption DEF RetriesInit, CategoryStats
  <2>2. errorHistory = <<>> /\ errorHistory \in Seq(Category)
    BY DEF RetriesInit
  <2>3. lastErr \in [Operation -> Seq(Category)]
    BY DEF RetriesInit
  <2>4. stopped \in BOOLEAN
    BY DEF RetriesInit
  <2>5. /\ at \in [Operation -> {"new", "trying", "failed", "waiting", "done"}]
        /\ result \in [Operation -> Results]
    BY DEF RetriesInit, Results
  <2> QED
    BY <2>1, <2>2, <2>3, <2>4, <2>5 DEF RetriesTypeOK, CategoryStats
<1>2. FollowsThePolicy
  <2> SUFFICES ASSUME NEW o \in Operation PROVE AsFarAs(lastErr[o], attempt[o], at[o], result[o])
    BY DEF FollowsThePolicy
  <2>1. lastErr[o] = <<>> /\ attempt[o] = 0 /\ at[o] = "new" /\ result[o] = "none"
    BY DEF RetriesInit
  <2>2. Len(lastErr[o]) = 0 /\ Retried(lastErr[o], 0)
    BY <2>1 DEF Retried
  <2> QED
    BY <2>1, <2>2, RetriesAssumption DEF AsFarAs
<1>3. EveryErrorCounted
  <2> SUFFICES ASSUME NEW c \in Category
               PROVE  /\ errorStats[c].success = Cardinality(Recovered(c))
                      /\ errorStats[c].total = others[c] + Cardinality(Failures(c))
    BY DEF EveryErrorCounted
  <2>1. Recovered(c) = {} /\ Failures(c) = {}
    BY DEF RetriesInit, Recovered, Failures
  <2>2. errorStats[c].success = 0 /\ errorStats[c].total = 0 /\ others[c] = 0
    BY DEF RetriesInit
  <2> QED
    BY <2>1, <2>2, FS_EmptySet
<1> QED
  BY <1>1, <1>2, <1>3 DEF RetriesIInv

(* What processError does to the statistics and to the history.               *)
LEMMA HandleErrorCounts ==
  ASSUME RetriesTypeOK, NEW c \in Category, HandleError(c)
  PROVE  /\ errorStats' \in [Category -> CategoryStats]
         /\ \A d \in Category : /\ errorStats'[d].success = errorStats[d].success
                                /\ errorStats'[d].total = errorStats[d].total + IF d = c THEN 1 ELSE 0
         /\ errorHistory' \in Seq(Category) /\ Len(errorHistory') <= MaxHistory
<1>1. errorStats \in [Category -> CategoryStats]
  BY DEF RetriesTypeOK, CategoryStats
<1> DEFINE s == [errorStats[c] EXCEPT !.total = @ + 1, !.recent = @ + 1]
<1>2. errorStats' = [errorStats EXCEPT ![c] = s]
  BY <1>1 DEF HandleError, UpdateStats
<1>3. s \in CategoryStats /\ s.success = errorStats[c].success /\ s.total = errorStats[c].total + 1
  <2>1. /\ errorStats[c] \in CategoryStats
        /\ errorStats[c].total \in Nat /\ errorStats[c].recent \in Nat
    BY <1>1 DEF CategoryStats
  <2>2. errorStats[c].total + 1 \in Nat /\ errorStats[c].recent + 1 \in Nat
    BY <2>1
  <2> QED
    BY <2>1, <2>2 DEF CategoryStats
<1> HIDE DEF s
<1>4. \A d \in Category : errorStats[d].total \in Nat
  BY <1>1 DEF CategoryStats
<1>5. /\ errorStats' \in [Category -> CategoryStats]
      /\ \A d \in Category : errorStats'[d] = IF d = c THEN s ELSE errorStats[d]
  BY <1>1, <1>2, <1>3
<1>6. \A d \in Category : /\ errorStats'[d].success = errorStats[d].success
                          /\ errorStats'[d].total = errorStats[d].total + IF d = c THEN 1 ELSE 0
  BY <1>3, <1>4, <1>5
<1>7. errorHistory' \in Seq(Category) /\ Len(errorHistory') <= MaxHistory
  <2> DEFINE h == Append(errorHistory, c)
             from == Len(h) - MaxHistory + 1
  <2>1. h \in Seq(Category) /\ Len(h) \in Nat
    BY DEF RetriesTypeOK
  <2>2. errorHistory' = IF Len(h) > MaxHistory THEN SubSeq(h, from, Len(h)) ELSE h
    BY DEF HandleError, AddToHistory
  <2> HIDE DEF h
  <2>3. CASE Len(h) > MaxHistory
    <3>1. from \in Int /\ from >= 1 /\ \A i \in from..Len(h) : h[i] \in Category
      BY <2>1, <2>3, RetriesAssumption
    <3>2. Len(h) \in Int
      BY <2>1
    <3>3. SubSeq(h, from, Len(h)) \in Seq(Category)
      BY <3>1, <3>2, SubSeqProperties, SMT
    <3>4. Len(SubSeq(h, from, Len(h))) = IF from <= Len(h) THEN Len(h) - from + 1 ELSE 0
      BY <3>1, <3>2, SubSeqProperties, SMT
    <3> QED
      BY <2>1, <2>2, <2>3, <3>1, <3>3, <3>4, RetriesAssumption
  <2>4. CASE ~(Len(h) > MaxHistory)
    BY <2>1, <2>2, <2>4, RetriesAssumption
  <2> QED
    BY <2>3, <2>4
<1> QED
  BY <1>5, <1>6, <1>7

LEMMA ReportKeeps == ASSUME RetriesIInv, NEW c \in Category, Report(c) PROVE RetriesIInv'
<1>1. /\ RetriesTypeOK /\ FollowsThePolicy /\ HandleError(c)
      /\ UNCHANGED <<attempt, at, lastErr, result, stopped>>
      /\ others[c] < MaxOthers /\ others' = [others EXCEPT ![c] = @ + 1]
  BY DEF RetriesIInv, Report
<1>2. /\ others' \in [Category -> 0..MaxOthers]
      /\ \A d \in Category : others'[d] = others[d] + IF d = c THEN 1 ELSE 0
  BY <1>1, RetriesAssumption DEF RetriesTypeOK
<1>3. RetriesTypeOK'
  BY <1>1, <1>2, HandleErrorCounts DEF RetriesTypeOK, CategoryStats
<1>4. EveryErrorCounted'
  <2> SUFFICES ASSUME NEW d \in Category
               PROVE  /\ errorStats'[d].success = Cardinality(Recovered(d))'
                      /\ errorStats'[d].total = others'[d] + Cardinality(Failures(d))'
    BY DEF EveryErrorCounted
  <2>1. Recovered(d)' = Recovered(d) /\ Failures(d)' = Failures(d)
    BY <1>1 DEF Recovered, Failures
  <2>2. /\ errorStats[d].success = Cardinality(Recovered(d))
        /\ errorStats[d].total = others[d] + Cardinality(Failures(d))
    BY DEF RetriesIInv, EveryErrorCounted
  <2>3. others[d] \in Nat /\ Cardinality(Failures(d)) \in Nat
    BY <1>1, FailuresAreFinite, FS_CardinalityType DEF RetriesTypeOK
  <2>4. /\ errorStats'[d].success = errorStats[d].success
        /\ errorStats'[d].total = errorStats[d].total + IF d = c THEN 1 ELSE 0
    BY <1>1, HandleErrorCounts
  <2>5. Cardinality(Recovered(d))' = Cardinality(Recovered(d))
        /\ Cardinality(Failures(d))' = Cardinality(Failures(d))
    BY <2>1
  <2> QED
    BY <1>2, <2>2, <2>3, <2>4, <2>5
<1> QED
  BY <1>1, <1>3, <1>4 DEF RetriesIInv, FollowsThePolicy

LEMMA FailsKeeps ==
  ASSUME RetriesIInv, NEW o \in Operation, NEW c \in Category, Fails(o, c) PROVE RetriesIInv'
<1>1. /\ RetriesTypeOK /\ FollowsThePolicy /\ HandleError(c) /\ at[o] \in {"new", "trying"}
      /\ lastErr' = [lastErr EXCEPT ![o] = Append(@, c)]
      /\ at' = [at EXCEPT ![o] = "failed"]
      /\ UNCHANGED <<attempt, result, stopped, others>>
  BY DEF RetriesIInv, Fails
<1> DEFINE errors == lastErr[o]
           more == Append(errors, c)
           n == Len(errors)
<1>2. /\ errors \in Seq(Category) /\ n \in Nat /\ DOMAIN errors = 1..n
      /\ AsFarAs(errors, attempt[o], at[o], result[o]) /\ attempt[o] \in 0..MaxRetries
  BY <1>1 DEF RetriesTypeOK, FollowsThePolicy
<1>3. /\ more \in Seq(Category) /\ Len(more) = n + 1 /\ DOMAIN more = 1..n + 1
      /\ more[n + 1] = c /\ \A i \in 1..n : more[i] = errors[i]
  BY <1>2
<1>4. \A p \in Operation : lastErr'[p] = IF p = o THEN more ELSE lastErr[p]
  BY <1>1 DEF RetriesTypeOK
<1>5. lastErr' \in [Operation -> Seq(Category)]
  BY <1>1, <1>3 DEF RetriesTypeOK
<1> HIDE DEF more
<1>6. RetriesTypeOK'
  <2>1. at' \in [Operation -> {"new", "trying", "failed", "waiting", "done"}]
    BY <1>1 DEF RetriesTypeOK
  <2> QED
    BY <1>1, <1>5, <2>1, HandleErrorCounts DEF RetriesTypeOK, CategoryStats
<1>7. FollowsThePolicy'
  <2> SUFFICES ASSUME NEW p \in Operation
               PROVE  AsFarAs(lastErr'[p], attempt'[p], at'[p], result'[p])
    BY DEF FollowsThePolicy
  <2>1. CASE p = o
    <3>1. lastErr'[p] = more /\ attempt'[p] = attempt[o] /\ at'[p] = "failed" /\ result'[p] = result[o]
      BY <1>1, <1>4, <2>1 DEF RetriesTypeOK
    <3>2. n = attempt[o] /\ Retried(errors, attempt[o]) /\ result[o] = "none"
      BY <1>1, <1>2 DEF AsFarAs
    <3>3. Len(more) = attempt[o] + 1 /\ Retried(more, attempt[o])
      BY <1>2, <1>3, <3>2 DEF Retried
    <3>4. Len(more) <= MaxRetries + 1
      BY <1>2, <3>3, RetriesAssumption
    <3> QED
      BY <3>1, <3>2, <3>3, <3>4 DEF AsFarAs
  <2>2. CASE p # o
    BY <1>1, <1>4, <2>2 DEF RetriesTypeOK, FollowsThePolicy
  <2> QED
    BY <2>1, <2>2
<1>8. EveryErrorCounted'
  <2> SUFFICES ASSUME NEW d \in Category
               PROVE  /\ errorStats'[d].success = Cardinality(Recovered(d))'
                      /\ errorStats'[d].total = others'[d] + Cardinality(Failures(d))'
    BY DEF EveryErrorCounted
  <2>1. Recovered(d)' = Recovered(d)
    <3>1. result[o] = "none"
      BY <1>1, <1>2 DEF AsFarAs
    <3> QED
      BY <1>1, <1>4, <3>1 DEF Recovered
  <2>2. Failures(d)' = Failures(d) \cup IF d = c THEN {<<o, n + 1>>} ELSE {}
    <3>1. Failures(d)' =
            UNION {{p} \X {i \in DOMAIN lastErr'[p] : lastErr'[p][i] = d} : p \in Operation}
      BY DEF Failures
    <3>2. \A p \in Operation : p # o => lastErr'[p] = lastErr[p]
      BY <1>4
    <3>3. {i \in DOMAIN more : more[i] = d} =
            {i \in DOMAIN errors : errors[i] = d} \cup IF d = c THEN {n + 1} ELSE {}
      BY <1>2, <1>3
    <3>4. lastErr'[o] = more
      BY <1>4
    <3> HIDE DEF n
    <3>5. \A p, i : <<p, i>> \in Failures(d)' <=>
                      p \in Operation /\ i \in DOMAIN lastErr'[p] /\ lastErr'[p][i] = d
      BY <3>1
    <3>6. \A p, i : <<p, i>> \in Failures(d) <=>
                      p \in Operation /\ i \in DOMAIN lastErr[p] /\ lastErr[p][i] = d
      BY DEF Failures
    <3>7. \A i : <<o, i>> \in Failures(d)' <=> <<o, i>> \in Failures(d) \/ (d = c /\ i = n + 1)
      BY <3>3, <3>4, <3>5, <3>6
    <3>8. \A p, i : p # o => (<<p, i>> \in Failures(d)' <=> <<p, i>> \in Failures(d))
      BY <3>2, <3>5, <3>6
    <3>9. /\ \A x \in Failures(d)' : x = <<x[1], x[2]>>
          /\ \A x \in Failures(d) : x = <<x[1], x[2]>>
      BY <3>1 DEF Failures
    <3>10. CASE d = c
      BY <3>7, <3>8, <3>9, <3>10
    <3>11. CASE d # c
      BY <3>7, <3>8, <3>9, <3>11
    <3> QED
      BY <3>10, <3>11
  <2>3. <<o, n + 1>> \notin Failures(d)
    BY <1>2 DEF Failures
  <2>4. IsFiniteSet(Failures(d)) /\ Cardinality(Failures(d)) \in Nat
    BY <1>1, FailuresAreFinite, FS_CardinalityType
  <2>5. Cardinality(Failures(d))' = Cardinality(Failures(d)) + IF d = c THEN 1 ELSE 0
    <3>1. CASE d = c
      BY <2>2, <2>3, <2>4, <3>1, FS_AddElement
    <3>2. CASE d # c
      BY <2>2, <2>4, <3>2
    <3> QED
      BY <3>1, <3>2
  <2>6. Cardinality(Recovered(d))' = Cardinality(Recovered(d))
    BY <2>1
  <2>7. /\ errorStats'[d].success = errorStats[d].success
        /\ errorStats'[d].total = errorStats[d].total + IF d = c THEN 1 ELSE 0
    BY <1>1, HandleErrorCounts
  <2>8. /\ errorStats[d].success = Cardinality(Recovered(d))
        /\ errorStats[d].total = others[d] + Cardinality(Failures(d))
    BY DEF RetriesIInv, EveryErrorCounted
  <2>9. others[d] \in Nat /\ others'[d] = others[d]
    BY <1>1 DEF RetriesTypeOK
  <2> QED
    BY <2>4, <2>5, <2>6, <2>7, <2>8, <2>9
<1> QED
  BY <1>6, <1>7, <1>8 DEF RetriesIInv
LEMMA SucceedsKeeps ==
  ASSUME RetriesIInv, NEW o \in Operation, Succeeds(o) PROVE RetriesIInv'
<1>1. /\ RetriesTypeOK /\ FollowsThePolicy /\ at[o] \in {"new", "trying"}
      /\ at' = [at EXCEPT ![o] = "done"] /\ result' = [result EXCEPT ![o] = "success"]
      /\ UNCHANGED <<attempt, lastErr, errorHistory, stopped, others>>
  BY DEF RetriesIInv, Succeeds, Finish
<1> DEFINE errors == lastErr[o]
           n == Len(errors)
<1>2. /\ errors \in Seq(Category) /\ n \in Nat
      /\ AsFarAs(errors, attempt[o], at[o], result[o]) /\ attempt[o] \in 0..MaxRetries
  BY <1>1 DEF RetriesTypeOK, FollowsThePolicy
<1>3. result[o] = "none"
  BY <1>1, <1>2 DEF AsFarAs
<1>4. /\ at' \in [Operation -> {"new", "trying", "failed", "waiting", "done"}]
      /\ result' \in [Operation -> Results]
  BY <1>1 DEF RetriesTypeOK, Results
<1>5. FollowsThePolicy'
  <2> SUFFICES ASSUME NEW p \in Operation
               PROVE  AsFarAs(lastErr'[p], attempt'[p], at'[p], result'[p])
    BY DEF FollowsThePolicy
  <2>1. CASE p = o
    <3>1. lastErr'[p] = errors /\ attempt'[p] = attempt[o] /\ at'[p] = "done" /\ result'[p] = "success"
      BY <1>1, <2>1 DEF RetriesTypeOK
    <3>2. n = attempt[o] /\ Retried(errors, n) /\ n <= MaxRetries + 1
      BY <1>1, <1>2 DEF AsFarAs
    <3>3. Retried(errors, n - 1)
      BY <1>2, <3>2 DEF Retried
    <3> QED
      BY <3>1, <3>2, <3>3 DEF AsFarAs
  <2>2. CASE p # o
    BY <1>1, <2>2 DEF RetriesTypeOK, FollowsThePolicy
  <2> QED
    BY <2>1, <2>2
<1>6. \A d \in Category : Failures(d)' = Failures(d)
  BY <1>1 DEF Failures
<1>7. CASE errors = <<>>
  <2>1. UNCHANGED errorStats
    BY <1>7 DEF Succeeds
  <2>2. \A d \in Category : Recovered(d)' = Recovered(d)
    BY <1>1, <1>7 DEF Recovered, RetriesTypeOK
  <2>3. RetriesTypeOK'
    BY <1>1, <1>4, <2>1 DEF RetriesTypeOK
  <2> QED
    BY <1>1, <1>5, <1>6, <2>1, <2>2, <2>3 DEF RetriesIInv, EveryErrorCounted
<1>8. CASE errors # <<>>
  <2> DEFINE c == Last(errors)
             s == [errorStats[c] EXCEPT !.success = @ + 1]
  <2>1. c \in Category /\ errorStats \in [Category -> CategoryStats]
    BY <1>1, <1>2, <1>8 DEF Last, RetriesTypeOK, CategoryStats
  <2>2. errorStats' = [errorStats EXCEPT ![c] = s]
    BY <1>8, <2>1 DEF Succeeds
  <2> HIDE DEF c
  <2>3. s \in CategoryStats /\ s.success = errorStats[c].success + 1 /\ s.total = errorStats[c].total
    <3>1. errorStats[c] \in CategoryStats /\ errorStats[c].success \in Nat
      BY <2>1 DEF CategoryStats
    <3>2. errorStats[c].success + 1 \in Nat
      BY <3>1
    <3> QED
      BY <3>1, <3>2 DEF CategoryStats
  <2> HIDE DEF s
  <2>4. /\ errorStats' \in [Category -> CategoryStats]
        /\ \A d \in Category : errorStats'[d] = IF d = c THEN s ELSE errorStats[d]
    BY <2>1, <2>2, <2>3
  <2>5. RetriesTypeOK'
    BY <1>1, <1>4, <2>4 DEF RetriesTypeOK, CategoryStats
  <2>6. ASSUME NEW d \in Category
        PROVE  /\ errorStats'[d].success = Cardinality(Recovered(d))'
               /\ errorStats'[d].total = others'[d] + Cardinality(Failures(d))'
    <3>1. /\ errorStats[d].success = Cardinality(Recovered(d))
          /\ errorStats[d].total = others[d] + Cardinality(Failures(d))
      BY DEF RetriesIInv, EveryErrorCounted
    <3>2. Cardinality(Failures(d))' = Cardinality(Failures(d)) /\ others'[d] = others[d]
      BY <1>1, <1>6
    <3>3. o \notin Recovered(d) /\ IsFiniteSet(Recovered(d))
      BY <1>1, <1>3, FailuresAreFinite DEF Recovered
    <3>4. CASE d = c
      <4>1. Recovered(d)' = Recovered(d) \cup {o}
        BY <1>1, <1>8, <3>4 DEF Recovered, RetriesTypeOK, c
      <4>2. Cardinality(Recovered(d))' = Cardinality(Recovered(d)) + 1
        BY <3>3, <4>1, FS_AddElement
      <4>3. errorStats'[d].success = errorStats[d].success + 1 /\ errorStats'[d].total = errorStats[d].total
        BY <2>3, <2>4, <3>4
      <4> QED
        BY <3>1, <3>2, <4>2, <4>3
    <3>5. CASE d # c
      <4>1. Recovered(d)' = Recovered(d)
        BY <1>1, <1>3, <3>5 DEF Recovered, RetriesTypeOK, c
      <4>2. errorStats'[d] = errorStats[d]
        BY <2>4, <3>5
      <4> QED
        BY <3>1, <3>2, <4>1, <4>2
    <3> QED
      BY <3>4, <3>5
  <2> QED
    BY <1>5, <2>5, <2>6 DEF RetriesIInv, EveryErrorCounted
<1> QED
  BY <1>7, <1>8

(* A step that counts nothing: the operation o goes on, or ends without       *)
(* success.                                                                   *)
LEMMA MovesOn ==
  ASSUME RetriesIInv, NEW o \in Operation,
         UNCHANGED <<lastErr, errorStats, errorHistory, stopped, others>>,
         NEW tries \in 0..MaxRetries, NEW place \in {"trying", "waiting", "done"},
         NEW outcome \in {"none", "error", "cancelled"},
         attempt' = [attempt EXCEPT ![o] = tries], at' = [at EXCEPT ![o] = place],
         result' = [result EXCEPT ![o] = outcome],
         at[o] \in {"failed", "waiting"}, AsFarAs(lastErr[o], tries, place, outcome)
  PROVE  RetriesIInv'
<1>1. RetriesTypeOK /\ FollowsThePolicy /\ AsFarAs(lastErr[o], attempt[o], at[o], result[o])
  BY DEF RetriesIInv, FollowsThePolicy
<1>2. /\ attempt' \in [Operation -> 0..MaxRetries]
      /\ at' \in [Operation -> {"new", "trying", "failed", "waiting", "done"}]
      /\ result' \in [Operation -> Results]
  BY <1>1 DEF RetriesTypeOK, Results
<1>3. RetriesTypeOK'
  BY <1>1, <1>2 DEF RetriesTypeOK
<1>4. ASSUME NEW p \in Operation PROVE AsFarAs(lastErr'[p], attempt'[p], at'[p], result'[p])
  <2>1. CASE p = o
    <3>1. lastErr'[p] = lastErr[o] /\ attempt'[p] = tries /\ at'[p] = place /\ result'[p] = outcome
      BY <1>1, <2>1 DEF RetriesTypeOK
    <3> QED
      BY <3>1
  <2>2. CASE p # o
    BY <1>1, <2>2 DEF RetriesTypeOK, FollowsThePolicy
  <2> QED
    BY <2>1, <2>2
<1>5. result[o] = "none"
  BY <1>1 DEF AsFarAs
<1>6. ASSUME NEW c \in Category PROVE Recovered(c)' = Recovered(c) /\ Failures(c)' = Failures(c)
  BY <1>1, <1>5 DEF Recovered, Failures, RetriesTypeOK
<1> QED
  BY <1>3, <1>4, <1>6 DEF RetriesIInv, FollowsThePolicy, EveryErrorCounted

LEMMA GoesOnKeeps ==
  ASSUME RetriesIInv, NEW o \in Operation,
         Wait(o) \/ GiveUp(o) \/ TryAgain(o) \/ Cancelled(o)
  PROVE  RetriesIInv'
<1> DEFINE errors == lastErr[o]
           n == Len(errors)
<1>1. /\ RetriesTypeOK /\ AsFarAs(errors, attempt[o], at[o], result[o])
      /\ errors \in Seq(Category) /\ n \in Nat /\ attempt[o] \in 0..MaxRetries
  BY DEF RetriesIInv, RetriesTypeOK, FollowsThePolicy
<1>2. at[o] \in {"failed", "waiting"}
  BY DEF Wait, GiveUp, TryAgain, Cancelled
<1>3. /\ n = attempt[o] + 1 /\ Retried(errors, attempt[o]) /\ result[o] = "none"
      /\ n <= MaxRetries + 1
  BY <1>1, <1>2 DEF AsFarAs
<1>4. Last(errors) = errors[n] /\ errors[n] \in Category
  BY <1>1, <1>3 DEF Last
<1>5. attempt = [attempt EXCEPT ![o] = attempt[o]] /\ result = [result EXCEPT ![o] = result[o]]
  BY <1>1 DEF RetriesTypeOK
<1>6. /\ UNCHANGED <<lastErr, errorStats, errorHistory, stopped, others>>
  BY DEF Wait, GiveUp, TryAgain, Cancelled
<1>7. \A out \in {"error", "cancelled"} :
        (out = "error" => n = MaxRetries + 1 \/ Action(Last(errors)) # "retry")
          => AsFarAs(errors, attempt[o], "done", out)
  <2>1. Retried(errors, n - 1)
    BY <1>1, <1>3 DEF Retried
  <2> QED
    BY <1>3, <2>1 DEF AsFarAs
<1>8. CASE Wait(o)
  <2>1. Action(errors[n]) = "retry" /\ attempt[o] < MaxRetries
    BY <1>4, <1>8 DEF Wait, MayTryAgain, IsRetryable
  <2>2. Retried(errors, attempt[o] + 1)
    BY <1>1, <1>3, <2>1 DEF Retried
  <2>3. AsFarAs(errors, attempt[o], "waiting", "none")
    BY <1>3, <2>1, <2>2 DEF AsFarAs
  <2>4. /\ attempt' = [attempt EXCEPT ![o] = attempt[o]] /\ result' = [result EXCEPT ![o] = "none"]
        /\ at' = [at EXCEPT ![o] = "waiting"]
    BY <1>3, <1>5, <1>8 DEF Wait
  <2> QED
    BY <1>1, <1>2, <1>6, <2>3, <2>4, MovesOn
<1>9. CASE GiveUp(o)
  <2>1. n = MaxRetries + 1 \/ Action(Last(errors)) # "retry"
    <3>1. ~(Action(Last(errors)) = "retry" /\ attempt[o] < MaxRetries)
      BY <1>9 DEF GiveUp, MayTryAgain, IsRetryable
    <3> QED
      BY <1>1, <1>3, <3>1, RetriesAssumption
  <2>2. AsFarAs(errors, attempt[o], "done", "error")
    BY <1>7, <2>1
  <2>3. /\ attempt' = [attempt EXCEPT ![o] = attempt[o]] /\ result' = [result EXCEPT ![o] = "error"]
        /\ at' = [at EXCEPT ![o] = "done"]
    BY <1>5, <1>9 DEF GiveUp, Finish
  <2> QED
    BY <1>1, <1>2, <1>6, <2>2, <2>3, MovesOn
<1>10. CASE TryAgain(o)
  <2>1. at[o] = "waiting" /\ Retried(errors, attempt[o] + 1) /\ attempt[o] < MaxRetries
    BY <1>1, <1>10 DEF TryAgain, AsFarAs
  <2>2. AsFarAs(errors, attempt[o] + 1, "trying", "none") /\ attempt[o] + 1 \in 0..MaxRetries
    BY <1>1, <1>3, <2>1, RetriesAssumption DEF AsFarAs
  <2>3. /\ attempt' = [attempt EXCEPT ![o] = attempt[o] + 1] /\ result' = [result EXCEPT ![o] = "none"]
        /\ at' = [at EXCEPT ![o] = "trying"]
    BY <1>3, <1>5, <1>10 DEF TryAgain
  <2> QED
    BY <1>1, <1>2, <1>6, <2>2, <2>3, MovesOn
<1>11. CASE Cancelled(o)
  <2>1. AsFarAs(errors, attempt[o], "done", "cancelled")
    BY <1>7
  <2>2. /\ attempt' = [attempt EXCEPT ![o] = attempt[o]] /\ result' = [result EXCEPT ![o] = "cancelled"]
        /\ at' = [at EXCEPT ![o] = "done"]
    BY <1>5, <1>11 DEF Cancelled, Finish
  <2> QED
    BY <1>1, <1>2, <1>6, <2>1, <2>2, MovesOn
<1> QED
  BY <1>8, <1>9, <1>10, <1>11

LEMMA NextRetries == RetriesIInv /\ [RetriesNext]_retryVars => RetriesIInv'
<1> SUFFICES ASSUME RetriesIInv, [RetriesNext]_retryVars PROVE RetriesIInv'
  OBVIOUS
<1>1. ASSUME NEW c \in Error, Report(c) PROVE RetriesIInv'
  BY <1>1, RetriesAssumption, ReportKeeps
<1>2. ASSUME NEW c \in Error, NEW o \in Operation, Fails(o, c) PROVE RetriesIInv'
  BY <1>2, RetriesAssumption, FailsKeeps
<1>3. CASE ClearStats
  <2>1. /\ errorStats' = [c \in Category |-> [errorStats[c] EXCEPT !.recent = 0]]
        /\ UNCHANGED <<attempt, at, lastErr, result, errorHistory, stopped, others>>
    BY <1>3 DEF ClearStats
  <2>2. errorStats \in [Category -> CategoryStats]
    BY DEF RetriesIInv, RetriesTypeOK, CategoryStats
  <2>3. \A c \in Category : /\ [errorStats[c] EXCEPT !.recent = 0] \in CategoryStats
                            /\ [errorStats[c] EXCEPT !.recent = 0].success = errorStats[c].success
                            /\ [errorStats[c] EXCEPT !.recent = 0].total = errorStats[c].total
    BY <2>2 DEF CategoryStats
  <2>4. /\ errorStats' \in [Category -> CategoryStats]
        /\ \A c \in Category : /\ errorStats'[c].success = errorStats[c].success
                               /\ errorStats'[c].total = errorStats[c].total
    BY <2>1, <2>3
  <2>5. RetriesTypeOK'
    BY <2>1, <2>4 DEF RetriesIInv, RetriesTypeOK, CategoryStats
  <2>6. \A c : Recovered(c)' = Recovered(c) /\ Failures(c)' = Failures(c)
    BY <2>1 DEF Recovered, Failures
  <2> QED
    BY <2>1, <2>4, <2>5, <2>6 DEF RetriesIInv, FollowsThePolicy, EveryErrorCounted
<1>4. CASE UNCHANGED <<attempt, at, lastErr, result, errorStats, errorHistory, others>>
           /\ stopped' \in BOOLEAN
  <2>1. RetriesTypeOK'
    BY <1>4 DEF RetriesIInv, RetriesTypeOK
  <2>2. FollowsThePolicy'
    BY <1>4 DEF RetriesIInv, FollowsThePolicy
  <2>3. \A c : Recovered(c)' = Recovered(c) /\ Failures(c)' = Failures(c)
    BY <1>4 DEF Recovered, Failures
  <2> QED
    BY <1>4, <2>1, <2>2, <2>3 DEF RetriesIInv, EveryErrorCounted
<1>5. CASE StopHandler
  <2>1. stopped' \in BOOLEAN
    BY <1>5 DEF StopHandler
  <2> QED
    BY <1>4, <1>5, <2>1 DEF StopHandler
<1>6. CASE UNCHANGED retryVars
  <2>1. stopped' \in BOOLEAN
    BY <1>6 DEF retryVars, RetriesIInv, RetriesTypeOK
  <2> QED
    BY <1>4, <1>6, <2>1 DEF retryVars
<1> QED
  BY <1>1, <1>2, <1>3, <1>5, <1>6, SucceedsKeeps, GoesOnKeeps DEF RetriesNext

-----------------------------------------------------------------------------
(* The direct transfer *)

LEMMA DirectBounds ==
  /\ Chunks \in Nat /\ MaxAttempts \in Nat \ {0} /\ {0, 1} \subseteq Nat
  /\ 0 \in 0..Chunks + 1 /\ 0 \in -1..Chunks /\ FALSE \in BOOLEAN
BY DirectTransferAssumption

LEMMA InitDirect == DirectInit => DirectTypeOK
<1> SUFFICES ASSUME DirectInit PROVE DirectTypeOK
  OBVIOUS
<1>1. attempts \in 1..MaxAttempts
  BY DirectBounds DEF DirectInit
<1>2. sender \in [step : {"idle", "response", "sending"} \cup Ended,
                  next : 0..Chunks + 1, window : SUBSET (0..Chunks)]
  BY DirectBounds DEF DirectInit, IdleSender
<1>3. receiver \in [step : {"idle", "receiving"} \cup Ended, need : -1..Chunks]
  BY DirectBounds DEF DirectInit, IdleReceiver
<1> QED
  BY <1>1, <1>2, <1>3 DEF DirectInit, DirectTypeOK

LEMMA NextDirect == DirectTypeOK /\ [DirectNext]_directVars => DirectTypeOK'
<1> DEFINE SenderType == [step : {"idle", "response", "sending"} \cup Ended,
                          next : 0..Chunks + 1, window : SUBSET (0..Chunks)]
           ReceiverType == [step : {"idle", "receiving"} \cup Ended, need : -1..Chunks]
           Responses == {<<>>} \cup {<<point>> : point \in 0..Chunks + 1}
<1> SUFFICES ASSUME DirectTypeOK, [DirectNext]_directVars PROVE DirectTypeOK'
  OBVIOUS
<1>1. /\ sender \in SenderType /\ receiver \in ReceiverType /\ response \in Responses
      /\ exists \in BOOLEAN /\ older \in 0..Chunks + 1
      /\ broken \in BOOLEAN /\ attempts \in 1..MaxAttempts
      /\ sender.next \in 0..Chunks + 1 /\ sender.window \in SUBSET (0..Chunks)
  BY DEF DirectTypeOK
<1>2. \A step \in Ended : /\ [sender EXCEPT !.step = step] \in SenderType
                          /\ [receiver EXCEPT !.step = step] \in ReceiverType
  BY <1>1
<1>3. older' = older
  BY DEF DirectNext, SendRequest, ReceiveRequest, ReceiveResponse, SendChunk, WaitForAck,
         FinalizeTransfer, ReceiveChunk, EndReceive, Break, SenderFails, ReceiverFails, Reconnect,
         directVars
<1>4. exists' \in BOOLEAN /\ broken' \in BOOLEAN
  BY <1>1 DEF DirectNext, SendRequest, ReceiveRequest, ReceiveResponse, SendChunk, WaitForAck,
         FinalizeTransfer, ReceiveChunk, EndReceive, Break, SenderFails, ReceiverFails, Reconnect,
         directVars
<1>5. sender' \in SenderType
  <2>1. CASE SendRequest
    BY <1>1, <2>1 DEF SendRequest
  <2>2. CASE ReceiveResponse
    <3>1. sender' = [sender EXCEPT !.step = "sending", !.next = response[1]] /\ response # <<>>
      BY <2>2 DEF ReceiveResponse
    <3>2. response[1] \in 0..Chunks + 1
      BY <1>1, <3>1
    <3> QED
      BY <1>1, <3>1, <3>2
  <2>3. CASE SendChunk
    <3>1. ~(sender.next >= Chunks)
          /\ sender' = [sender EXCEPT !.next = sender.next + 1,
                                      !.window = sender.window \cup {sender.next}]
      BY <2>3 DEF SendChunk, AllSent
    <3>2. sender.next + 1 \in 0..Chunks + 1 /\ sender.next \in 0..Chunks
      BY <1>1, <3>1, DirectBounds
    <3>3. sender.window \cup {sender.next} \in SUBSET (0..Chunks)
      BY <1>1, <3>2
    <3> QED
      BY <1>1, <3>1, <3>2, <3>3
  <2>4. CASE WaitForAck \/ FinalizeTransfer \/ SenderFails
    BY <1>2, <2>4 DEF WaitForAck, FinalizeTransfer, SenderFails, Ended
  <2>5. CASE Reconnect
    BY <2>5, DirectBounds DEF Reconnect, IdleSender
  <2> QED
    BY <1>1, <2>1, <2>2, <2>3, <2>4, <2>5
    DEF DirectNext, ReceiveRequest, ReceiveChunk, EndReceive, Break, ReceiverFails, directVars
<1>6. receiver' \in ReceiverType
  <2>1. CASE ReceiveRequest
    <3>1. receiver' = [step |-> "receiving", need |-> Chunks - older]
      BY <2>1 DEF ReceiveRequest
    <3>2. Chunks - older \in -1..Chunks
      BY <1>1, DirectBounds
    <3> QED
      BY <3>1, <3>2
  <2>2. CASE ReceiveChunk \/ EndReceive \/ ReceiverFails
    BY <1>2, <2>2 DEF ReceiveChunk, EndReceive, ReceiverFails, Ended
  <2>3. CASE Reconnect
    BY <2>3, DirectBounds DEF Reconnect, IdleReceiver
  <2> QED
    BY <1>1, <2>1, <2>2, <2>3
    DEF DirectNext, SendRequest, ReceiveResponse, SendChunk, WaitForAck, FinalizeTransfer, Break,
        SenderFails, directVars
<1>7. response' \in Responses
  BY <1>1 DEF DirectNext, SendRequest, ReceiveRequest, ReceiveResponse, SendChunk, WaitForAck,
         FinalizeTransfer, ReceiveChunk, EndReceive, Break, SenderFails, ReceiverFails, Reconnect,
         directVars
<1>8. attempts' \in 1..MaxAttempts
  <2>1. CASE Reconnect
    BY <1>1, <2>1, DirectBounds DEF Reconnect
  <2> QED
    BY <1>1, <2>1 DEF DirectNext, SendRequest, ReceiveRequest, ReceiveResponse, SendChunk,
         WaitForAck, FinalizeTransfer, ReceiveChunk, EndReceive, Break, SenderFails, ReceiverFails,
         directVars
<1> QED
  BY <1>1, <1>3, <1>4, <1>5, <1>6, <1>7, <1>8 DEF DirectTypeOK

-----------------------------------------------------------------------------
(* The sending window *)

LEMMA CommandBounds ==
  /\ TotalChunks \in Nat /\ MaxSends \in Nat /\ maxConcurrentChunks \in Nat
  /\ Index = 0..TotalChunks - 1 /\ Sends = 1..MaxSends /\ Request = -1
  /\ \A m \in Ack \cup {other} : m.index \in Int
BY CommandAssumption DEF Index, Sends, Request, Ack, other

CommandIInv == CommandTypeOK /\ WindowHolds /\ (stage # "idle" => sends \in Sends)

LEMMA InitCommand == CommandInit => CommandIInv
<1> SUFFICES ASSUME CommandInit PROVE CommandIInv
  OBVIOUS
<1>1. /\ sends \in 0..MaxSends /\ currentIdx \in 0..TotalChunks /\ inflight \in 0..TotalChunks
      /\ stage = "idle"
  BY CommandBounds DEF CommandInit
<1>2. handing \in [Sends -> Seq(Int)] /\ ackCh \in [Sends -> Seq(Int)] /\ inbox \in Seq(Ack \cup {other})
  BY DEF CommandInit
<1> QED
  BY <1>1, <1>2 DEF CommandInit, CommandIInv, CommandTypeOK, WindowHolds

(* How many chunks can be pending.                                            *)
LEMMA PendingFits ==
  ASSUME NEW n \in 0..TotalChunks, NEW S \in SUBSET (0..n - 1)
  PROVE  IsFiniteSet(S) /\ Cardinality(S) \in 0..TotalChunks
<1>1. 0 \in Int /\ n - 1 \in Int /\ n \in Nat
  BY CommandBounds
<1>2. /\ IsFiniteSet(0..n - 1)
      /\ Cardinality(0..n - 1) = IF 0 > n - 1 THEN 0 ELSE n - 1 - 0 + 1
  BY <1>1, FS_Interval
<1>3. Cardinality(0..n - 1) = n
  BY <1>1, <1>2
<1>4. IsFiniteSet(S) /\ Cardinality(S) <= n
  BY ZenonT(60), <1>2, <1>3, FS_Subset
<1>5. Cardinality(S) \in Nat
  BY <1>4, FS_CardinalityType
<1> QED
  BY <1>1, <1>4, <1>5, CommandBounds

(* The steps of the goroutines, and of the network.                           *)
LEMMA ListenerKeeps ==
  ASSUME CommandIInv,
         \/ \E m \in Ack \cup {other} : MessageArrives(m)
         \/ \E s \in Sends : Listen(s) \/ HandAck(s)
  PROVE  CommandIInv'
<1>1. UNCHANGED loopVars
  BY DEF MessageArrives, Listen, HandAck
<1>2. /\ inbox \in Seq(Ack \cup {other}) /\ listening \subseteq Sends
      /\ handing \in [Sends -> Seq(Int)] /\ ackCh \in [Sends -> Seq(Int)]
  BY DEF CommandIInv, CommandTypeOK
<1>3. SUFFICES /\ inbox' \in Seq(Ack \cup {other}) /\ listening' \subseteq Sends
               /\ handing' \in [Sends -> Seq(Int)] /\ ackCh' \in [Sends -> Seq(Int)]
  BY <1>1 DEF CommandIInv, CommandTypeOK, WindowHolds, loopVars
<1>4. ASSUME NEW m \in Ack \cup {other}, MessageArrives(m)
      PROVE  /\ inbox' \in Seq(Ack \cup {other}) /\ listening' \subseteq Sends
             /\ handing' \in [Sends -> Seq(Int)] /\ ackCh' \in [Sends -> Seq(Int)]
  BY <1>2, <1>4 DEF MessageArrives
<1>5. ASSUME NEW s \in Sends, Listen(s)
      PROVE  /\ inbox' \in Seq(Ack \cup {other}) /\ listening' \subseteq Sends
             /\ handing' \in [Sends -> Seq(Int)] /\ ackCh' \in [Sends -> Seq(Int)]
  <2> DEFINE m == Head(inbox)
  <2>1. /\ inbox # <<>> /\ inbox' = Tail(inbox) /\ UNCHANGED ackCh
        /\ listening' \subseteq listening
        /\ handing' \in {handing, [handing EXCEPT ![s] = <<m.index>>]}
    BY <1>5 DEF Listen
  <2>2. m \in Ack \cup {other} /\ inbox' \in Seq(Ack \cup {other})
    BY <1>2, <2>1
  <2>3. m.index \in Int
    BY <2>2, CommandBounds
  <2>4. <<m.index>> \in Seq(Int)
    BY <2>3
  <2> HIDE DEF m
  <2>5. handing' \in [Sends -> Seq(Int)]
    BY <1>2, <2>1, <2>4
  <2> QED
    BY <1>2, <2>1, <2>2, <2>5
<1>6. ASSUME NEW s \in Sends, HandAck(s)
      PROVE  /\ inbox' \in Seq(Ack \cup {other}) /\ listening' \subseteq Sends
             /\ handing' \in [Sends -> Seq(Int)] /\ ackCh' \in [Sends -> Seq(Int)]
  <2>1. /\ ackCh' = [ackCh EXCEPT ![s] = handing[s]] /\ handing' = [handing EXCEPT ![s] = <<>>]
        /\ listening' = listening \cup {s} /\ UNCHANGED inbox
    BY <1>6 DEF HandAck
  <2>2. handing[s] \in Seq(Int) /\ <<>> \in Seq(Int)
    BY <1>2
  <2> QED
    BY <1>2, <2>1, <2>2
<1> QED
  BY <1>4, <1>5, <1>6

LEMMA LoopKeeps ==
  ASSUME CommandIInv, SendFile \/ SendNext \/ WindowIsFull \/ ReceiveAck \/ TimeOut
  PROVE  CommandIInv'
<1>1. /\ CommandTypeOK /\ WindowHolds /\ (stage # "idle" => sends \in Sends)
      /\ sends \in 0..MaxSends /\ currentIdx \in 0..TotalChunks /\ inflight \in 0..TotalChunks
      /\ pendingChunks \subseteq Index /\ ackMap \subseteq Index /\ onTheWire \subseteq Ack
      /\ completed \subseteq Sends /\ listening \subseteq Sends
      /\ inbox \in Seq(Ack \cup {other})
      /\ handing \in [Sends -> Seq(Int)] /\ ackCh \in [Sends -> Seq(Int)]
  BY DEF CommandIInv, CommandTypeOK
<1>2. \A i \in Index, s \in Sends : [send |-> s, index |-> i] \in Ack
  BY DEF Ack
<1>3. CASE SendFile
  <2>1. /\ sends' = sends + 1 /\ sends + 1 \in Sends /\ sends + 1 \in 0..MaxSends /\ stage' = "sending"
        /\ currentIdx' = 0 /\ 0 \in 0..TotalChunks /\ inflight' = 0
        /\ pendingChunks' = {} /\ ackMap' = {} /\ listening' = listening \cup {sends + 1}
        /\ UNCHANGED <<onTheWire, completed, inbox, handing, ackCh>>
    BY <1>1, <1>3, CommandBounds DEF SendFile
  <2>2. CommandTypeOK'
    BY <1>1, <2>1 DEF CommandTypeOK
  <2>3. WindowHolds'
    <3>1. 0..0 - 1 = {} /\ Cardinality({}) = 0
      BY FS_EmptySet
    <3>2. 0 <= maxConcurrentChunks
      BY CommandBounds
    <3>3. Cardinality(pendingChunks') = 0
      BY <2>1, <3>1
    <3>4. 0..currentIdx' - 1 = {}
      BY <2>1
    <3> QED
      BY <2>1, <3>2, <3>3, <3>4 DEF WindowHolds
  <2> QED
    BY <2>1, <2>2, <2>3 DEF CommandIInv
<1>4. CASE SendNext
  <2>1. /\ stage = "sending" /\ currentIdx < TotalChunks /\ inflight < maxConcurrentChunks
        /\ currentIdx' = currentIdx + 1
        /\ UNCHANGED <<sends, stage, ackMap, completed, inbox, listening, handing, ackCh>>
    BY <1>4 DEF SendNext, listenerVars
  <2>2. /\ pendingChunks \cup ackMap = 0..currentIdx - 1 /\ pendingChunks \cap ackMap = {}
        /\ Cardinality(pendingChunks) = inflight
    BY <1>1, <2>1 DEF WindowHolds
  <2>3. currentIdx \notin pendingChunks /\ currentIdx \notin ackMap /\ currentIdx \in Index
    BY <1>1, <2>1, <2>2, CommandBounds
  <2>4. /\ pendingChunks' = pendingChunks \cup {currentIdx} /\ inflight' = inflight + 1
        /\ onTheWire' = onTheWire \cup {[send |-> sends, index |-> currentIdx]}
    BY <1>4, <2>3 DEF SendNext
  <2>5. 0..currentIdx = (0..currentIdx - 1) \cup {currentIdx} /\ currentIdx' - 1 = currentIdx
        /\ currentIdx' \in 0..TotalChunks
    BY <1>1, <2>1, CommandBounds
  <2>6. pendingChunks' \cup ackMap' = 0..currentIdx' - 1 /\ pendingChunks' \cap ackMap' = {}
    BY <2>1, <2>2, <2>3, <2>4, <2>5
  <2>7. IsFiniteSet(pendingChunks)
    BY <1>1, <2>2, PendingFits
  <2>8. Cardinality(pendingChunks') = inflight' /\ Cardinality(pendingChunks') \in 0..TotalChunks
    <3>1. Cardinality(pendingChunks \cup {currentIdx}) = Cardinality(pendingChunks) + 1
      BY <2>3, <2>7, FS_AddElement
    <3>2. Cardinality(pendingChunks') \in 0..TotalChunks
      BY <2>5, <2>6, PendingFits
    <3> QED
      BY <2>2, <2>4, <3>1, <3>2
  <2>9. inflight' <= maxConcurrentChunks
    BY <1>1, <2>1, <2>4, CommandBounds
  <2>10. WindowHolds'
    BY <2>6, <2>8, <2>9 DEF WindowHolds
  <2>11. onTheWire' \subseteq Ack /\ pendingChunks' \subseteq Index
    BY <1>1, <1>2, <2>1, <2>3, <2>4
  <2>12. CommandTypeOK'
    BY <1>1, <2>1, <2>5, <2>8, <2>11 DEF CommandTypeOK
  <2> QED
    BY <1>1, <2>1, <2>10, <2>12 DEF CommandIInv
<1>5. CASE WindowIsFull
  <2>1. /\ stage = "sending" /\ stage' = "waiting"
        /\ UNCHANGED <<sends, currentIdx, inflight, pendingChunks, ackMap, onTheWire, completed,
                       inbox, listening, handing, ackCh>>
    BY <1>5 DEF WindowIsFull, listenerVars
  <2>2. CommandTypeOK'
    BY <1>1, <2>1 DEF CommandTypeOK
  <2>3. WindowHolds'
    BY <1>1, <2>1 DEF WindowHolds
  <2> QED
    BY <1>1, <2>1, <2>2, <2>3 DEF CommandIInv
<1>6. CASE ReceiveAck
  <2> DEFINE i == Head(ackCh[sends])
  <2>1. /\ stage = "waiting" /\ ackCh[sends] # <<>> /\ CountAck(i) /\ GoesOn
        /\ ackCh' = [ackCh EXCEPT ![sends] = Tail(@)]
        /\ UNCHANGED <<sends, currentIdx, onTheWire, inbox, listening, handing>>
    BY <1>6 DEF ReceiveAck
  <2>2. /\ sends \in Sends /\ pendingChunks \cup ackMap = 0..currentIdx - 1
        /\ pendingChunks \cap ackMap = {} /\ Cardinality(pendingChunks) = inflight
        /\ inflight <= maxConcurrentChunks
    BY <1>1, <2>1 DEF WindowHolds
  <2>3. ackCh' \in [Sends -> Seq(Int)]
    BY <1>1, <2>1, <2>2
  <2>4. stage' \in {"idle", "sending"} /\ completed' \subseteq Sends
    BY <1>1, <2>1, <2>2 DEF GoesOn
  <2>5. IsFiniteSet(pendingChunks)
    BY <1>1, <2>2, PendingFits
  <2>6. /\ pendingChunks' \cup ackMap' = 0..currentIdx' - 1 /\ pendingChunks' \cap ackMap' = {}
        /\ Cardinality(pendingChunks') = inflight' /\ inflight' <= maxConcurrentChunks
        /\ inflight' \in 0..TotalChunks /\ pendingChunks' \subseteq Index /\ ackMap' \subseteq Index
    <3> HIDE DEF i
    <3>1. CASE i \in pendingChunks
      <4>1. /\ inflight' = inflight - 1 /\ pendingChunks' = pendingChunks \ {i}
            /\ ackMap' = ackMap \cup {i}
        BY <2>1, <3>1 DEF CountAck
      <4>2. Cardinality(pendingChunks \ {i}) = Cardinality(pendingChunks) - 1
        BY <2>5, <3>1, FS_RemoveElement
      <4>3. Cardinality(pendingChunks') \in 0..TotalChunks
        BY <1>1, <2>2, <4>1, PendingFits
      <4>4. Cardinality(pendingChunks') = inflight' /\ inflight' \in 0..TotalChunks
        BY <2>2, <4>1, <4>2, <4>3
      <4>5. inflight' <= maxConcurrentChunks
        BY <1>1, <2>2, <4>1, CommandBounds
      <4> QED
        BY <1>1, <2>1, <2>2, <3>1, <4>1, <4>4, <4>5
    <3>2. CASE i \notin pendingChunks
      BY <1>1, <2>1, <2>2, <3>2 DEF CountAck
    <3> QED
      BY <3>1, <3>2
  <2> HIDE DEF i
  <2>7. CommandTypeOK'
    BY <1>1, <2>1, <2>3, <2>4, <2>6 DEF CommandTypeOK
  <2> QED
    BY <2>1, <2>2, <2>6, <2>7 DEF CommandIInv, WindowHolds
<1>7. CASE TimeOut
  <2>1. /\ stage = "waiting" /\ GoesOn
        /\ onTheWire' = onTheWire \cup {[send |-> sends, index |-> i] : i \in pendingChunks}
        /\ UNCHANGED <<sends, currentIdx, inflight, pendingChunks, ackMap, inbox, listening,
                       handing, ackCh>>
    BY <1>7 DEF TimeOut, listenerVars
  <2>2. stage' \in {"idle", "sending"} /\ completed' \subseteq Sends
    BY <1>1, <2>1 DEF GoesOn
  <2>3. onTheWire' \subseteq Ack
    BY <1>1, <1>2, <2>1
  <2>4. CommandTypeOK'
    BY <1>1, <2>1, <2>2, <2>3 DEF CommandTypeOK
  <2>5. WindowHolds'
    BY <1>1, <2>1 DEF WindowHolds
  <2> QED
    BY <1>1, <2>1, <2>4, <2>5 DEF CommandIInv
<1> QED
  BY <1>3, <1>4, <1>5, <1>6, <1>7

LEMMA NextCommand == CommandIInv /\ [CommandNext]_commandVars => CommandIInv'
<1>1. CommandIInv /\ UNCHANGED commandVars => CommandIInv'
  BY DEF commandVars, CommandIInv, CommandTypeOK, WindowHolds
<1> QED
  BY <1>1, ListenerKeeps, LoopKeeps DEF CommandNext

-----------------------------------------------------------------------------
(* The components side by side *)

(* A step of the node is a step of one component, and leaves the others.      *)
LEMMA StepOfEach ==
  ASSUME [ApplicationNext]_applicationVars
  PROVE  /\ turn' = turn
         /\ [MessagingNext]_messagingVars /\ [PoolsNext]_poolVars
         /\ [HandlersNext]_handlersVars /\ [RetriesNext]_retryVars
         /\ [PriorityQueueNext]_queueVars /\ [DirectNext]_directVars
         /\ [FileStoreNext]_fileStoreVars /\ [CommandNext]_commandVars
         /\ [ChatNext]_chatVars /\ [AccountsNext]_accountsVars
BY DEF ApplicationNext, applicationVars, Only

ApplicationIInv ==
  /\ turn \in Components
  /\ Types /\ PingsWait /\ PoolsIInv /\ HandlersIInv /\ RetriesIInv /\ QueueIInv /\ DirectTypeOK
  /\ StoreIInv /\ CommandIInv /\ ChatIInv /\ ChatSets /\ AccountsIInv

LEMMA InitApplication == ApplicationInit => ApplicationIInv
BY InitTypes, InitPings, InitPools, InitHandlers, InitRetries, InitQueue, InitDirect, InitStore,
   InitCommand, InitChat, InitChatSets, InitAccounts
DEF ApplicationInit, ApplicationIInv

LEMMA NextApplication == ApplicationIInv /\ [ApplicationNext]_applicationVars => ApplicationIInv'
<1> SUFFICES ASSUME ApplicationIInv, [ApplicationNext]_applicationVars PROVE ApplicationIInv'
  OBVIOUS
<1> QED
  BY StepOfEach, NextTypes, NextPings, NextPools, NextHandlers, NextRetries, NextQueue, NextDirect,
     NextStore, NextCommand, NextChat, NextChatSets, NextAccounts
  DEF ApplicationIInv

LEMMA AllTypes == ApplicationIInv => ApplicationTypeOK
<1> SUFFICES ASSUME ApplicationIInv PROVE ApplicationTypeOK
  OBVIOUS
<1>1. MessagingTypeOK
  BY DEF ApplicationIInv, Types, MessagingTypeOK, Command, Place, Service, WorkerState
<1>2. PoolsTypeOK /\ DirectTypeOK /\ ChatTypeOK
  BY PoolsKeep, TypesAndSets DEF ApplicationIInv
<1>3. /\ HandlersTypeOK /\ RetriesTypeOK /\ PriorityQueueTypeOK /\ FileStoreTypeOK /\ CommandTypeOK
      /\ AccountsTypeOK
  BY DEF ApplicationIInv, HandlersIInv, RetriesIInv, QueueIInv, StoreIInv, CommandIInv, AccountsIInv
<1> QED
  BY <1>1, <1>2, <1>3 DEF ApplicationIInv, ApplicationTypeOK

(* In every reachable state of the ten components each is well typed: no      *)
(* queue, channel, pool, window or counter passes its limit, and the pools    *)
(* hold nothing that a goroutine holds.                                       *)
THEOREM ApplicationTypes == ApplicationSpec => []ApplicationTypeOK
BY InitApplication, NextApplication, AllTypes, PTL DEF ApplicationSpec

(* Bytes on their way to the router still say what their packet said, and a   *)
(* queued or taken message keeps its metadata, whatever the pools give to     *)
(* others meanwhile (MarshalJSONOptimized, handleTextMessagePacket,           *)
(* ReleaseMessagePacket): what a goroutine holds is its own, and no two       *)
(* packets in use share a map.                                                *)
THEOREM HandedOverStays == ApplicationSpec => []HandedOverIsKept
<1>1. ApplicationIInv => HandedOverIsKept
  BY PoolsKeep DEF ApplicationIInv
<1> QED
  BY <1>1, InitApplication, NextApplication, PTL DEF ApplicationSpec

(* Every file that the table lists, and every assembled file, is whole,       *)
(* whatever chunks come late, twice, wrong or not at all, whichever session   *)
(* is used again, and wherever the process is killed (SaveFileChunk,          *)
(* assembleFile, SaveFile, loadFileInfo): a listed name is never written      *)
(* again, although the saved table may list less than the directory holds.    *)
THEOREM CompleteFilesAreWhole == ApplicationSpec => []FilesAreWhole
<1>1. ApplicationIInv => FilesAreWhole
  BY DEF ApplicationIInv, StoreIInv
<1> QED
  BY <1>1, InitApplication, NextApplication, PTL DEF ApplicationSpec

(* What three loops remember of their calls is what became of them: the       *)
(* retries follow the policy error by error and their statistics count every  *)
(* one (HandleError, ExecuteWithRetry), a pending ping has a caller, and the  *)
(* sending window holds what was sent and not acknowledged.                   *)
THEOREM BookkeepingStaysTrue == ApplicationSpec => []BookkeepingIsTrue
<1>1. ApplicationIInv => BookkeepingIsTrue
  BY PolicySays, PingsOpen DEF ApplicationIInv, CommandIInv, BookkeepingIsTrue
<1> QED
  BY <1>1, InitApplication, NextApplication, PTL DEF ApplicationSpec

(* What Pop takes out comes before everything that stays, in priority and,    *)
(* among equals, in arrival: pushes, pops and the replacement of the last of  *)
(* the array all keep the order of the heap (Push, Pop, Less).                *)
THEOREM PopsTheFirst == ApplicationSpec => PopTakesTheFirst
<1>1. /\ ApplicationIInv /\ [ApplicationNext]_applicationVars
      => [clock' = clock => \A gone \in Gone : \A m \in Queued \ {gone} : Before(gone, m)]_queueVars
  BY StepOfEach, NextTakesTheFirst DEF ApplicationIInv
<1> QED
  BY <1>1, InitApplication, NextApplication, PTL DEF ApplicationSpec, PopTakesTheFirst

=============================================================================
