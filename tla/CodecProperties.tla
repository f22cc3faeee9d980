--------------------------- MODULE CodecProperties ---------------------------
(* What two ends that write and read the same format rely on. *)
EXTENDS Codec, FiniteSets

Bytes(n) == [i \in 1..n |-> i % Base]

\* A number in field i, and how long a text can be.
Sample(i, width, which) ==
    CASE which = "least" -> 0
      [] which = "index" -> i
      [] which = "greatest" -> Weight[IF width > 4 THEN 4 ELSE width] - 1

Texts(layout) == {i \in DOMAIN layout : layout[i].kind = "text"}

TooLong(limit, length) == length > limit \/ length >= Weight[2]

\* Messages of a layout: texts are empty, short, at their limit or beyond it.
Inputs(layout) ==
    {[i \in DOMAIN layout |->
        IF i \in Texts(layout)
        THEN Bytes(CASE length[i] = "empty" -> 0
                     [] length[i] = "short" -> 3
                     [] length[i] = "limit" -> layout[i].limit
                     [] length[i] = "beyond" -> layout[i].limit + 1)
        ELSE Sample(i, layout[i].width, which)] :
     which \in {"least", "index", "greatest"},
     length \in [Texts(layout) -> {"empty", "short", "limit", "beyond"}]}

MessageRoundTrip(layout) ==
    \A values \in Inputs(layout) :
        LET bytes == Encode(layout, values) IN
        IF \E i \in Texts(layout) : TooLong(layout[i].limit, Len(values[i]))
        THEN bytes = <<>>
        ELSE /\ Decode(layout, bytes) = values
             /\ Decode(layout, Append(bytes, 0)) = Refused
             /\ \A n \in {0, 1, Len(bytes) \div 2, Len(bytes) - 1} :
                    Decode(layout, SubSeq(bytes, 1, n)) = Refused

Crowds == {0, 1, 2, SnapshotLimit, SnapshotLimit + 1}

Players(n) ==
    [k \in 1..n |-> [i \in DOMAIN PlayerState |-> i + (k % 4)]]

SnapshotRoundTrip ==
    \A n \in Crowds :
        LET bytes == EncodeSnapshot(n, Players(n)) IN
        IF n > SnapshotLimit
        THEN bytes = <<>> /\ DecodeSnapshot(bytes) = Refused
        ELSE /\ Len(bytes) = SnapshotSize(n)
             /\ DecodeSnapshot(bytes) = <<n, Players(n)>>
             /\ DecodeSnapshot(Append(bytes, 0)) = Refused
             /\ DecodeSnapshot(SubSeq(bytes, 1, Len(bytes) - 1)) = Refused

\* Payloads up to one byte more than a datagram holds.
Payloads == 0..(DatagramLimit - DatagramSize(0) + 1)

PacketRoundTrip ==
    \A n \in Payloads, reliable \in BOOLEAN :
        LET header == <<1, 2, 3, 4>>
            message == [type |-> 4, channel |-> 1, reliable |-> reliable,
                        payload |-> Bytes(n)]
            bytes == EncodePacket(header, message)
        IN  /\ Len(bytes) = DatagramSize(n)
            /\ DecodePacket(bytes) =
                   IF Len(bytes) <= DatagramLimit
                   THEN [header |-> header, message |-> message] ELSE Refused
            /\ DecodePacket(SubSeq(bytes, 1, Len(bytes) - 1)) = Refused

\* All messages, and the datagram around them.
FormatRoundTrip ==
    /\ \A layout \in {Hello, Welcome, Goodbye, PlayerState} : MessageRoundTrip(layout)
    /\ SnapshotRoundTrip
    /\ PacketRoundTrip
=============================================================================
