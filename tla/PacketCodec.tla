---------------------------- MODULE PacketCodec -----------------------------
(***************************************************************************)
(* rss::protocol::PacketCodec (libs/protocol/src/PacketCodec.cpp): packets   *)
(* are encoded with a big-endian 16-bit size and type, and cut out of a byte *)
(* stream that arrives in pieces of any length.  The server peeks at a       *)
(* packet and consumes it when it has been handed on; the client drains.     *)
(* Bytes count up to Base instead of 256, and sizes up to Base^2.            *)
(***************************************************************************)
EXTENDS Naturals, Sequences, SequencesExt

CONSTANTS Base,            \* values of a byte
          MaxPacketSize,   \* kMaxPacketSize
          Threshold,       \* kCompactionThreshold
          Payloads,        \* the payloads sent
          BadSizes,        \* sizes a malformed header may have
          MaxPackets       \* bound: frames sent

kPacketHeaderSize == 4

ASSUME CodecAssumption ==
    /\ Base \in Nat \ {0} /\ MaxPacketSize \in kPacketHeaderSize..(Base * Base - 1)
    /\ Threshold \in Nat \ {0}
    /\ \A p \in Payloads : p \in Seq(0..(Base - 1))
    /\ \A b \in BadSizes : b \in Nat /\ (b < kPacketHeaderSize \/ b > MaxPacketSize)

VARIABLES
    wire,          \* bytes that have not been fed
    buffer, head,  \* buffer_ and head_
    sent,          \* history: packets sent, "bad" for a malformed header
    received,      \* history: packets handed on by the codec
    failed         \* a ProtocolError was thrown

codecVars == <<wire, buffer, head, sent, received, failed>>

CodecInit ==
    /\ wire = <<>> /\ buffer = <<>> /\ head = 0
    /\ sent = <<>> /\ received = <<>> /\ failed = FALSE

WriteU16(n) == <<n \div Base, n % Base>>
ReadU16(bytes, at) == bytes[at + 1] * Base + bytes[at + 2]

\* encode refuses a packet that is too large.
Encodable(payload) == Len(payload) + kPacketHeaderSize <= MaxPacketSize
Encode(p) == WriteU16(Len(p.payload) + kPacketHeaderSize) \o WriteU16(p.type) \o p.payload

SendPacket ==
    /\ Len(sent) < MaxPackets
    /\ \E p \in [type : {1}, payload : Payloads] :
         /\ Encodable(p.payload)
         /\ wire' = wire \o Encode(p)
         /\ sent' = Append(sent, p)
    /\ UNCHANGED <<buffer, head, received, failed>>

SendGarbage ==
    /\ Len(sent) < MaxPackets
    /\ \E b \in BadSizes : wire' = wire \o WriteU16(b) \o WriteU16(0)
    /\ sent' = Append(sent, [type |-> 0, payload |-> <<>>])
    /\ UNCHANGED <<buffer, head, received, failed>>

-----------------------------------------------------------------------------
CompactMutant(b, h) ==
    IF h = Len(b) THEN [buffer |-> <<>>, head |-> 0] ELSE [buffer |-> b, head |-> h]

\* compactConsumedPrefix.
Compact(b, h) ==
    IF h = Len(b) \/ (h >= Threshold /\ h >= Len(b) \div 2)
    THEN [buffer |-> SubSeq(b, h + 1, Len(b)), head |-> 0]
    ELSE [buffer |-> b, head |-> h]

\* feed, with the next n bytes of the stream.
Feed ==
    /\ ~failed
    /\ \E n \in 1..Len(wire) :
         LET c == Compact(buffer, head) IN
         /\ buffer' = c.buffer \o SubSeq(wire, 1, n) /\ head' = c.head
         /\ wire' = SubSeq(wire, n + 1, Len(wire))
    /\ UNCHANGED <<sent, received, failed>>

Available(offset) == Len(buffer) - head - offset

\* packetFrameAt: the size at offset, once the header is there.
SizeAt(offset) == ReadU16(buffer, head + offset)
HasHeader(offset) == Available(offset) >= kPacketHeaderSize

MalformedMutant(offset) ==
    HasHeader(offset) /\ SizeAt(offset) \notin (kPacketHeaderSize + 1)..MaxPacketSize

Malformed(offset) ==
    HasHeader(offset) /\ SizeAt(offset) \notin kPacketHeaderSize..MaxPacketSize

HasFrame(offset) ==
    HasHeader(offset) /\ ~Malformed(offset) /\ Available(offset) >= SizeAt(offset)

PacketAtMutant(offset) ==
    [type |-> ReadU16(buffer, head + offset + 2),
     payload |-> SubSeq(buffer, head + kPacketHeaderSize + 1, head + SizeAt(offset))]

PacketAt(offset) ==
    [type |-> ReadU16(buffer, head + offset + 2),
     payload |-> SubSeq(buffer, head + offset + kPacketHeaderSize + 1,
                        head + offset + SizeAt(offset))]

Take(packets, size) ==
    LET c == Compact(buffer, head + size) IN
    /\ received' = received \o packets
    /\ buffer' = c.buffer /\ head' = c.head
    /\ UNCHANGED <<wire, sent, failed>>

\* A ProtocolError leaves the buffer as it is.
Throw ==
    /\ failed' = TRUE
    /\ UNCHANGED <<wire, buffer, head, sent, received>>

\* peekPacket, and consumePacket once the packet has been handed on.
PeekAndConsume ==
    /\ ~failed
    /\ \/ HasFrame(0) /\ Take(<<PacketAt(0)>>, SizeAt(0))
       \/ Malformed(0) /\ Throw

\* The loop of drainPackets: the offset after i turns, and how many find a frame.
Offsets[i \in 0..Len(buffer)] ==
    IF i = 0 THEN 0
    ELSE LET o == Offsets[i - 1] IN IF HasFrame(o) THEN o + SizeAt(o) ELSE o

Drained ==
    CHOOSE n \in 0..Len(buffer) :
      ~HasFrame(Offsets[n]) /\ \A i \in 0..(n - 1) : HasFrame(Offsets[i])

DrainPackets ==
    /\ ~failed
    /\ \/ Malformed(Offsets[Drained]) /\ Throw
       \/ /\ ~Malformed(Offsets[Drained]) /\ Drained # 0
          /\ Take([i \in 1..Drained |-> PacketAt(Offsets[i - 1])], Offsets[Drained])

CodecNext == SendPacket \/ SendGarbage \/ Feed \/ PeekAndConsume \/ DrainPackets
CodecSpec == CodecInit /\ [][CodecNext]_codecVars

-----------------------------------------------------------------------------
Garbage == {i \in DOMAIN sent : sent[i].type = 0}

\* However the stream is cut up and compacted, the packets handed on are the
\* ones sent, in order and unchanged, up to the first malformed header; and when
\* the stream is used up nothing is missing.
ReceivedIsSent ==
    /\ IsPrefix(received, sent)
    /\ \A i \in Garbage : Len(received) < i
    /\ wire = <<>> /\ ~HasFrame(0) /\ ~Malformed(0) => received = sent

\* A ProtocolError is thrown only for a malformed header.
ErrorIsJustified == failed => Garbage # {}

\* The consumed bytes that are kept stay below the threshold or below those
\* still to be read: a long-lived session does not grow its buffer.
LittleWaste == head < Threshold \/ head < Len(buffer) - head
=============================================================================
