-------------------------------- MODULE Codec --------------------------------
(***************************************************************************)
(* The wire format: Writer and Reader, the messages with what their        *)
(* encoders refuse to write and their decoders to read, and the datagram   *)
(* around them.                                                            *)
(*                                                                         *)
(* A message is the sequence of its fields' values and its layout says how *)
(* each is written: a number, low byte first, or a text after its length.  *)
(* A float is the number its bits are.  A byte has Base values, 256 in the *)
(* code, so that 16 and 32 bits are 2 and 4 digits; a text is a sequence   *)
(* of bytes.  What an encoder refuses is the empty vector, as in the code. *)
(***************************************************************************)
EXTENDS Integers, Sequences

CONSTANTS
    Base,           \* values of a byte
    Magic,          \* kMagic
    Version,        \* kProtocolVersion
    DatagramLimit,  \* kMaxDatagramSize, 1200
    MessageLimit,   \* kMaxMessageSize, 4096
    SnapshotLimit,  \* most players of a snapshot, 64
    Refused         \* a decoder's false

\* What a number's digits count, which are up to 64 bits.
Weight[k \in 0..8] == IF k = 0 THEN 1 ELSE Base * Weight[k - 1]

\* What is written on 8, 16 and 32 bits is less than they can say.
ASSUME CodecAssumption ==
    /\ Base \in Nat /\ Base >= 16
    /\ {DatagramLimit, MessageLimit, SnapshotLimit} \subseteq Nat
    /\ DatagramLimit <= MessageLimit
    /\ DatagramLimit < Weight[2] /\ SnapshotLimit < Weight[2]
    /\ Magic \in 0..(Weight[4] - 1) /\ Version \in 0..(Weight[1] - 1)

ASSUME RefusedAssumption == Refused \notin Seq(Nat)

Number(width) == [kind |-> "number", width |-> width]
Text(limit) == [kind |-> "text", limit |-> limit]

Hello == <<Text(32), Text(64), Number(8), Text(128)>>
Welcome == <<Number(2), Number(8), Number(4),
             Number(4), Number(4), Number(4), Number(4), Text(128)>>
Goodbye == <<Number(2), Text(512)>>
PlayerState == <<Number(2), Number(4), Number(4), Number(4), Number(4), Number(4),
                 Number(4), Number(4), Number(4), Number(1), Number(1)>>
SnapshotHead == <<Number(4), Number(2)>>
PacketHeader == <<Number(4), Number(1), Number(1), Number(2),
                  Number(4), Number(4), Number(4), Number(8)>>
MessageHeader == <<Number(1), Number(1), Number(2)>>

\* sizeof, of a layout of numbers.
SizeUpTo(layout) ==
    LET upTo[i \in 0..Len(layout)] ==
            IF i = 0 THEN 0 ELSE upTo[i - 1] + layout[i].width
    IN  upTo

Size(layout) == SizeUpTo(layout)[Len(layout)]

HeaderSize == Size(PacketHeader) + Size(MessageHeader)
HeadSize == Size(SnapshotHead)
PlayerSize == 2 + Size(PlayerState)

\* The sizes of a snapshot of n players, and of a datagram around a payload.
SnapshotSize(n) == HeadSize + n * PlayerSize

DatagramSize(length) == HeaderSize + length

-----------------------------------------------------------------------------
\* append_le16, append_le32, append_le64; read_le16, read_le32, read_le64.
LittleEndian(value, width) ==
    [i \in 1..width |-> (value \div Weight[i - 1]) % Base]

ValueUpTo(bytes) ==
    LET upTo[i \in 0..Len(bytes)] ==
            IF i = 0 THEN 0 ELSE upTo[i - 1] + bytes[i] * Weight[i - 1]
    IN  upTo

Value(bytes) == ValueUpTo(bytes)[Len(bytes)]

\* Writer::string, Writer::bytes: longer than its limit or than 16 bits say.
Fits(field, value) ==
    field.kind = "text" => Len(value) <= field.limit /\ Len(value) < Weight[2]

Written(field, value) ==
    IF field.kind = "number" THEN LittleEndian(value, field.width)
    ELSE LittleEndian(Len(value), 2) \o value

\* encode_hello, encode_welcome, encode_goodbye, encode_player_state.
WrittenUpTo(layout, values) ==
    LET upTo[i \in 0..Len(layout)] ==
            IF i = 0 THEN <<>> ELSE upTo[i - 1] \o Written(layout[i], values[i])
    IN  upTo

Encode(layout, values) ==
    IF \A i \in DOMAIN layout : Fits(layout[i], values[i])
    THEN WrittenUpTo(layout, values)[Len(layout)]
    ELSE <<>>

-----------------------------------------------------------------------------
\* A Reader: whether all reads so far succeeded, what they gave, what is left.
Reading(bytes) == [ok |-> TRUE, values |-> <<>>, rest |-> bytes]

From(bytes, n) == SubSeq(bytes, n + 1, Len(bytes))

\* Reader::u8 to Reader::bytes.
Read(reader, field) ==
    LET isText == field.kind = "text"
        prefix == IF isText THEN 2 ELSE field.width
        number == Value(SubSeq(reader.rest, 1, prefix))
        length == IF isText THEN number ELSE 0
        enough == /\ reader.ok
                  /\ Len(reader.rest) >= prefix
                  /\ isText => length <= field.limit
                  /\ Len(reader.rest) >= prefix + length
    IN  IF enough
        THEN [ok |-> TRUE,
              values |-> Append(reader.values,
                  IF isText THEN SubSeq(reader.rest, 3, 2 + length) ELSE number),
              rest |-> From(reader.rest, prefix + length)]
        ELSE [reader EXCEPT !.ok = FALSE]

ReadUpTo(layout, bytes) ==
    LET upTo[i \in 0..Len(layout)] ==
            IF i = 0 THEN Reading(bytes) ELSE Read(upTo[i - 1], layout[i])
    IN  upTo

ReadAll(layout, bytes) == ReadUpTo(layout, bytes)[Len(layout)]

\* decode_hello, decode_welcome, decode_goodbye, decode_player_state.
DecodePrefix(layout, bytes) ==                \* mutant: remaining() is not asked
    LET reader == ReadAll(layout, bytes)
    IN  IF reader.ok THEN reader.values ELSE Refused

Decode(layout, bytes) ==
    LET reader == ReadAll(layout, bytes)
    IN  IF reader.ok /\ reader.rest = <<>> THEN reader.values ELSE Refused

-----------------------------------------------------------------------------
\* Each player of a snapshot is written as bytes with their length.
PlayerBytes == Text(512)

Entries(n) == [i \in 1..n |-> PlayerBytes]

EncodeSnapshot(tick, players) ==
    LET n == Len(players)
        encoded == [i \in 1..n |-> Encode(PlayerState, players[i])]
    IN  IF n > SnapshotLimit THEN <<>>
        ELSE Encode(SnapshotHead, <<tick, n>>) \o WrittenUpTo(Entries(n), encoded)[n]

DecodeSnapshot(bytes) ==
    LET head == ReadAll(SnapshotHead, bytes)
        n == head.values[2]
        entries == ReadAll(Entries(n), head.rest)
        player(i) == Decode(PlayerState, entries.values[i])
    IN  IF ~head.ok THEN Refused
        ELSE IF n > SnapshotLimit \/ ~entries.ok \/ entries.rest # <<>> THEN Refused
        ELSE IF \E i \in 1..n : player(i) = Refused THEN Refused
        ELSE <<head.values[1], [i \in 1..n |-> player(i)]>>

-----------------------------------------------------------------------------
\* encode_packet: header is sequence, ack, ackBits and connectionId.
EncodePacket(header, message) ==
    LET length == Len(message.payload)
    IN  IF length > MessageLimit \/ length >= Weight[2] THEN <<>>
        ELSE Encode(PacketHeader,
                    <<Magic, Version, IF message.reliable THEN 1 ELSE 0,
                      Size(MessageHeader) + length>> \o header)
             \o Encode(MessageHeader, <<message.type, message.channel, length>>)
             \o message.payload

\* decode_packet: the header and the message, or Refused.
DecodePacket(bytes) ==
    LET head == ReadAll(PacketHeader, bytes)
        inner == ReadAll(MessageHeader, head.rest)
    IN  IF ~head.ok \/ ~inner.ok \/ Len(bytes) > DatagramLimit THEN Refused
        ELSE IF /\ head.values[1] = Magic
                /\ head.values[2] = Version
                /\ head.values[4] = Len(head.rest)
                /\ inner.values[3] = Len(inner.rest)
                /\ inner.values[3] <= MessageLimit
             THEN [header |-> SubSeq(head.values, 5, 8),
                   message |-> [type |-> inner.values[1], channel |-> inner.values[2],
                                reliable |-> head.values[3] % 2 = 1,
                                payload |-> inner.rest]]
             ELSE Refused
=============================================================================
