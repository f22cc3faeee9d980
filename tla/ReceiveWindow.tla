--------------------------- MODULE ReceiveWindow ---------------------------
(***************************************************************************)
(* The arithmetic of the acknowledgement window every FrontierMP packet    *)
(* header carries: ReceiveHistory::accept, which decides whether a         *)
(* sequence number is new, and the test ReliabilityTracker::acknowledge    *)
(* applies to a pending item.  The 32-bit word ackBits_ is the set of its  *)
(* one bits: offset d stands for bit d-1, that is for the packet `highest  *)
(* - d'.  W is the width of the word (32 in the code).  Sequence numbers   *)
(* do not wrap here; the code's wrap after 2^32 packets.                   *)
(***************************************************************************)
EXTENDS Integers

CONSTANT W      \* width of ackBits_ in bits

ASSUME WAssumption == W \in Nat \ {0}

Offset == 1..W

\* The three members of ReceiveHistory.
History == [highest : Nat, bits : SUBSET Offset, initialized : BOOLEAN]

EmptyHistory == [highest |-> 0, bits |-> {}, initialized |-> FALSE]

\* The header fields ack and ackBits that a packet copies from the history.
Header == [ack : Nat, bits : SUBSET Offset]

HeaderOf(h) == [ack |-> h.highest, bits |-> h.bits]

-----------------------------------------------------------------------------
\* Would accept(s) return true?
FreshUnwindowed(h, s) ==                      \* mutant: no bit is consulted
    \/ ~h.initialized
    \/ s > h.highest
    \/ h.highest - s \in Offset

FreshNarrow(h, s) ==                          \* mutant: diff > 31 refused
    \/ ~h.initialized
    \/ s > h.highest
    \/ h.highest - s \in Offset \ ({W} \cup h.bits)

Fresh(h, s) ==
    \/ ~h.initialized
    \/ s > h.highest
    \/ h.highest - s \in Offset \ h.bits

\* ackBits_ after `highest_' moves up by shift: the old highest enters the
\* word at offset shift, unless shift reaches the width, which clears it.
ShiftedOffByOne(bits, shift) ==               \* mutant: bit `shift', not shift-1
    IF shift >= W THEN {}
    ELSE {d \in Offset : d = shift + 1 \/ d - shift \in bits}

Shifted(bits, shift) ==
    IF shift >= W THEN {}
    ELSE {d \in Offset : d = shift \/ d - shift \in bits}

\* The history accept(s) leaves behind.
Record(h, s) ==
    IF ~h.initialized THEN [highest |-> s, bits |-> {}, initialized |-> TRUE]
    ELSE IF s > h.highest
         THEN [h EXCEPT !.highest = s, !.bits = Shifted(@, s - h.highest)]
         ELSE [h EXCEPT !.bits = @ \cup ({h.highest - s} \cap Offset)]

AcksCumulative(header, s) == s <= header.ack  \* mutant: the bits are not read

\* Does a header with these fields acknowledge the pending item s?
Acks(header, s) ==
    \/ s = header.ack
    \/ header.ack - s \in header.bits
=============================================================================
