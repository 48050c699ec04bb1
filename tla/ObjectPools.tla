----------------------------- MODULE ObjectPools -----------------------------
(***************************************************************************)
(* The pools behind every message: MessagePacket objects and JSON buffers  *)
(* are taken from a sync.Pool, used and put back, by every goroutine that  *)
(* sends and every goroutine that receives.                                *)
(*                                                                         *)
(* Who still points at what was put back is the whole question, so objects *)
(* have an identity here: a packet points at its Metadata map, a message   *)
(* made of a received packet points at the same map, and bytes handed to   *)
(* the router are either a value of their own or somebody's buffer.  What  *)
(* is not pointed at can be collected, so an identity nobody knows serves  *)
(* as the new object; a pool forgets nothing else.                         *)
(***************************************************************************)
EXTENDS Naturals, Sequences, FiniteSets

CONSTANTS Goroutine, Packet, Map, Buffer,
          Content,      \* what a message says, its metadata included
          nil,          \* no packet, map, buffer or content
          ChannelSize,  \* capacity of messageChannel
          MaxFrames     \* bound: frames the router holds

ASSUME PoolsAssumption ==
  /\ nil \notin Packet \cup Map \cup Buffer \cup Content /\ Buffer \cap Content = {}
  /\ ChannelSize \in Nat /\ MaxFrames \in Nat

PacketKinds == {"text", "ack"} \* kept by the message channel, or only dispatched
Nothing == [at |-> "idle", packet |-> nil, buffer |-> nil, says |-> nil, bytes |-> nil, kind |-> "ack"]

VARIABLES fields,         \* of each packet: its content
          metadata,       \* of each packet: its map
          entries,        \* of each map
          written,        \* of each buffer
          packetPool, bufferPool,
          doing,          \* of each goroutine: where it is and what it holds
          frames,         \* handed to the router: what was meant, and the bytes
          messageChannel, \* messages: what they said when queued, and their map
          beingRead         \* the message a command took and still reads

poolVars == <<fields, metadata, entries, written, packetPool, bufferPool, doing, frames,
              messageChannel, beingRead>>

Held(part) == {doing[g][part] : g \in Goroutine} \ {nil}
Messages == {messageChannel[i] : i \in DOMAIN messageChannel} \cup beingRead
KnownMaps == {metadata[p] : p \in packetPool \cup Held("packet")} \cup {m.map : m \in Messages}
FreshPackets == Packet \ (packetPool \cup Held("packet"))
FreshMaps == Map \ KnownMaps
FreshBuffers ==
  Buffer \ (bufferPool \cup Held("buffer") \cup Held("bytes")
              \cup {frames[i].bytes : i \in DOMAIN frames})

Bytes(b) == IF b \in Buffer THEN written[b] ELSE b

PoolsInit ==
  /\ fields = [p \in Packet |-> nil] /\ metadata = [p \in Packet |-> nil]
  /\ entries = [m \in Map |-> nil] /\ written = [b \in Buffer |-> nil]
  /\ packetPool = {} /\ bufferPool = {} /\ frames = <<>>
  /\ doing = [g \in Goroutine |-> Nothing]
  /\ messageChannel = <<>> /\ beingRead = {}

(* a pooled packet with its map, or a new map where the handler left none;
   or a new packet, when the pool is empty or was collected *)
NewMessagePacket(p, m) ==
  /\ p \in packetPool \cup FreshPackets
  /\ m \in IF p \in packetPool /\ metadata[p] # nil THEN {metadata[p]} ELSE FreshMaps
  /\ packetPool' = packetPool \ {p}

(* the packet is cleared, the setters fill it and Build hands it over *)
Build(g, p, m, c) ==
  /\ NewMessagePacket(p, m)
  /\ fields' = [fields EXCEPT ![p] = c] /\ metadata' = [metadata EXCEPT ![p] = m]
  /\ entries' = [entries EXCEPT ![m] = c]
  /\ doing' = [doing EXCEPT ![g] = [@ EXCEPT !.at = "built", !.packet = p, !.says = c]]
  /\ UNCHANGED <<written, bufferPool, frames, messageChannel, beingRead>>

(* a text, a file, a command and so on: each is built, and given to
   SendMessagePacket *)
SendPacket(g, p, m, c) == doing[g].at = "idle" /\ Build(g, p, m, c)

GetJSONEncoder(b) == b \in bufferPool \cup FreshBuffers /\ bufferPool' = bufferPool \ {b}
PutJSONEncoder(b) == bufferPool' = bufferPool \cup {b}

(* the packet as it is now, or nothing that makes sense when its map is another's *)
Encoded(p) == IF fields[p] = entries[metadata[p]] THEN fields[p] ELSE nil

(* MarshalJSONPooled: the packet is encoded into a pooled buffer *)
Encode(g, b) ==
  /\ doing[g].at = "built" /\ GetJSONEncoder(b)
  /\ written' = [written EXCEPT ![b] = Encoded(doing[g].packet)]
  /\ doing' = [doing EXCEPT ![g] = [@ EXCEPT !.at = "encoded", !.buffer = b]]
  /\ UNCHANGED <<fields, metadata, entries, packetPool, frames, messageChannel, beingRead>>

(* Mutant: the router is given the buffer itself. *)
CopiesNothing(b) == b

Copies(b) == written[b]

(* the bytes are copied, and the buffer goes back before they are sent *)
PutBuffer(g) ==
  LET b == doing[g].buffer IN
  /\ doing[g].at = "encoded"
  /\ PutJSONEncoder(b)
  /\ doing' = [doing EXCEPT ![g] =
                 [@ EXCEPT !.at = "marshalled", !.buffer = nil, !.bytes = Copies(b)]]
  /\ UNCHANGED <<fields, metadata, entries, written, packetPool, frames, messageChannel, beingRead>>

(* WriteTo queues the bytes as they are *)
WriteTo(g) ==
  /\ doing[g].at = "marshalled" /\ Len(frames) < MaxFrames
  /\ frames' = Append(frames, [says |-> doing[g].says, bytes |-> doing[g].bytes])
  /\ doing' = [doing EXCEPT ![g] = [@ EXCEPT !.at = "done", !.bytes = nil]]
  /\ UNCHANGED <<fields, metadata, entries, written, packetPool, bufferPool,
                 messageChannel, beingRead>>

(* A packet that still says something is cleared, and its map emptied; one
   its handler cleared goes back as it is. *)
ReleaseMessagePacket(p) ==
  /\ packetPool' = packetPool \cup {p}
  /\ fields' = [fields EXCEPT ![p] = nil]
  /\ IF metadata[p] = nil
       THEN UNCHANGED entries
       ELSE entries' = [entries EXCEPT ![metadata[p]] = nil]
  /\ UNCHANGED metadata

(* the deferred release of SendMessagePacket, the last line of handleReceivedMessage *)
Return(g) ==
  /\ doing[g].at = "done"
  /\ ReleaseMessagePacket(doing[g].packet)
  /\ doing' = [doing EXCEPT ![g] = Nothing]
  /\ UNCHANGED <<written, bufferPool, frames, messageChannel, beingRead>>

WriteFrame ==
  /\ frames # <<>> /\ frames' = Tail(frames)
  /\ UNCHANGED <<fields, metadata, entries, written, packetPool, bufferPool, doing,
                 messageChannel, beingRead>>

(* another node's packet is decoded into a packet and a map of its own *)
ReadMessage(g, p, m, c, kind) ==
  /\ doing[g].at = "idle"
  /\ p \in FreshPackets /\ m \in FreshMaps
  /\ fields' = [fields EXCEPT ![p] = c] /\ entries' = [entries EXCEPT ![m] = c]
  /\ metadata' = [metadata EXCEPT ![p] = m]
  /\ doing' = [doing EXCEPT ![g] =
                 [@ EXCEPT !.at = "received", !.packet = p, !.says = c, !.kind = kind]]
  /\ UNCHANGED <<written, packetPool, bufferPool, frames, messageChannel, beingRead>>

(* the packet is cleared for the pool; the map stays with the message *)
Cleared(p) ==
  /\ fields' = [fields EXCEPT ![p] = nil]
  /\ metadata' = [metadata EXCEPT ![p] = nil]
  /\ UNCHANGED entries

(* the message made of the packet is queued, or lost when the channel is full *)
Enqueue(g, next) ==
  /\ doing[g].kind = "text"
  /\ doing' = [doing EXCEPT ![g] = [@ EXCEPT !.at = next]]
  /\ messageChannel' =
       IF Len(messageChannel) = ChannelSize THEN messageChannel
       ELSE Append(messageChannel,
                   [says |-> doing[g].says, map |-> metadata[doing[g].packet]])
  /\ UNCHANGED <<fields, metadata, entries, written, packetPool, bufferPool, frames, beingRead>>

(* the handler of texts queues the message that is dispatched to it ... *)
DispatchText(g) == doing[g].at = "received" /\ Enqueue(g, "dispatched")

(* ... and handleTextMessagePacket queues it again; a file, and a text without
   content, is queued only here *)
Queue(g) == doing[g].at \in {"received", "dispatched"} /\ Enqueue(g, "queued")

(* a packet that contradicts itself is not handled, and not put into the pool *)
Reject(g) ==
  /\ doing[g].at = "received"
  /\ doing' = [doing EXCEPT ![g] = Nothing]
  /\ UNCHANGED <<fields, metadata, entries, written, packetPool, bufferPool, frames,
                 messageChannel, beingRead>>

ClearPacket(g) ==
  /\ doing[g].at = "queued"
  /\ Cleared(doing[g].packet)
  /\ doing' = [doing EXCEPT ![g] = [@ EXCEPT !.at = "done"]]
  /\ UNCHANGED <<written, packetPool, bufferPool, frames, messageChannel, beingRead>>

DispatchAck(g) ==
  /\ doing[g].at = "received" /\ doing[g].kind = "ack"
  /\ doing' = [doing EXCEPT ![g] = [@ EXCEPT !.at = "done"]]
  /\ UNCHANGED <<fields, metadata, entries, written, packetPool, bufferPool, frames,
                 messageChannel, beingRead>>

(* a command reads the channel, and the message for as long as it likes *)
TakeMessage ==
  /\ messageChannel # <<>> /\ beingRead = {}
  /\ beingRead' = {Head(messageChannel)} /\ messageChannel' = Tail(messageChannel)
  /\ UNCHANGED <<fields, metadata, entries, written, packetPool, bufferPool, doing, frames>>

DropMessage ==
  /\ beingRead # {} /\ beingRead' = {}
  /\ UNCHANGED <<fields, metadata, entries, written, packetPool, bufferPool, doing, frames,
                 messageChannel>>

PoolsNext ==
  \/ \E g \in Goroutine :
       \/ \E p \in Packet, m \in Map, c \in Content : SendPacket(g, p, m, c)
       \/ \E b \in Buffer : Encode(g, b)
       \/ PutBuffer(g) \/ WriteTo(g) \/ Return(g)
       \/ \E p \in Packet, m \in Map, c \in Content, kind \in PacketKinds : ReadMessage(g, p, m, c, kind)
       \/ DispatchText(g) \/ Queue(g) \/ ClearPacket(g) \/ DispatchAck(g) \/ Reject(g)
  \/ WriteFrame \/ TakeMessage \/ DropMessage

PoolsSpec == PoolsInit /\ [][PoolsNext]_poolVars

-----------------------------------------------------------------------------
PoolsTypeOK ==
  /\ fields \in [Packet -> Content \cup {nil}] /\ metadata \in [Packet -> Map \cup {nil}]
  /\ entries \in [Map -> Content \cup {nil}] /\ written \in [Buffer -> Content \cup {nil}]
  /\ packetPool \subseteq Packet /\ bufferPool \subseteq Buffer
  /\ Len(frames) <= MaxFrames /\ Len(messageChannel) <= ChannelSize
  /\ packetPool \cap Held("packet") = {} /\ bufferPool \cap Held("buffer") = {}

(* What was handed over stays what it was, whatever the pools do meanwhile:
   bytes on their way to the network still say what their packet said, and a
   queued message keeps its metadata after its packet was put back, cleared
   and taken by somebody else (MarshalJSONOptimized, handleTextMessagePacket,
   ReleaseMessagePacket). *)
HandedOverIsKept ==
  /\ \A i \in DOMAIN frames : Bytes(frames[i].bytes) = frames[i].says
  /\ \A m \in Messages : entries[m.map] = m.says
=============================================================================
