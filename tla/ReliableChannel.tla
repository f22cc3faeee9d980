-------------------------- MODULE ReliableChannel --------------------------
(***************************************************************************)
(* One direction of a FrontierMP connection: the sender's sequence counter *)
(* and ReliabilityTracker, the receiver's ReceiveHistory, the datagrams in *)
(* flight and the headers that travel back with the acknowledgements.      *)
(* Client and server are both such a sender and such a receiver, so a      *)
(* connection is two of these, each header of one carrying the other's     *)
(* acknowledgements.                                                       *)
(*                                                                         *)
(* The sender's owner runs in ticks: Server::tick and NetworkClient::      *)
(* update take the time once, handle what has arrived, send, and end with  *)
(* due_resends(nowMs) on that time.  A reliable packet is stamped with the *)
(* wall clock at the moment it is sent, which may be later than nowMs, and *)
(* the difference of the two is taken in an unsigned 64-bit integer.       *)
(*                                                                         *)
(* UDP loses, reorders and duplicates: a datagram stays in flight until    *)
(* it is lost and can arrive any number of times.                          *)
(***************************************************************************)
EXTENDS ReceiveWindow, FiniteSets

CONSTANTS
    ResendDelay,    \* resendDelayMs
    MaxRetries,     \* maxRetries
    TimeMod,        \* 2^64 in the code: the modulus of a millisecond count
    MaxSeq,         \* bound: packets the sender sends
    MaxTime,        \* bound: the last instant of the wall clock
    MaxHeaders      \* bound: acknowledging headers in flight at once

ASSUME ChannelAssumption ==
    /\ ResendDelay \in Nat \ {0}
    /\ MaxRetries \in Nat
    /\ MaxSeq \in Nat
    /\ MaxTime \in Nat \ {0}
    /\ MaxHeaders \in Nat
    /\ TimeMod \in Nat
    /\ TimeMod > MaxTime + ResendDelay

VARIABLES
    clock,          \* the wall clock, never 0 while the program runs
    tick,           \* nowMs of the tick that is running, 0 between ticks
    nextSequence,   \* nextSequence_
    tracker,        \* reliablePackets_
    wire,           \* sequence numbers of the datagrams in flight
    history,        \* the receiver's ReceiveHistory
    headers,        \* acknowledging headers in flight back to the sender
    reliable,       \* ghost: sequence numbers that were sent as reliable
    delivered       \* ghost: sequence numbers the receiver's handler has seen

sender == <<nextSequence, tracker, reliable>>
receiver == <<history, delivered>>
time == <<clock, tick>>
vars == <<clock, tick, nextSequence, tracker, wire, history, headers,
          reliable, delivered>>

Sequence == 1..MaxSeq

ResendItem == [sequence : Sequence, retries : 0..MaxRetries, lastSent : 1..MaxTime]

TypeOK ==
    /\ clock \in 1..MaxTime
    /\ tick \in 0..MaxTime
    /\ tick <= clock
    /\ nextSequence \in 1..(MaxSeq + 1)
    /\ tracker \subseteq ResendItem
    /\ wire \subseteq Sequence
    /\ history \in History
    /\ headers \subseteq Header
    /\ reliable \subseteq Sequence
    /\ delivered \subseteq Sequence

Init ==
    /\ clock = 1
    /\ tick = 0
    /\ nextSequence = 1
    /\ tracker = {}
    /\ wire = {}
    /\ history = EmptyHistory
    /\ headers = {}
    /\ reliable = {}
    /\ delivered = {}

-----------------------------------------------------------------------------
\* The tail of send_message: number the packet, put it on the wire, and keep
\* a reliable one in the tracker under the wall clock's time.
SendReliable ==
    /\ nextSequence <= MaxSeq
    /\ nextSequence' = nextSequence + 1
    /\ tracker' = tracker \cup
           {[sequence |-> nextSequence, retries |-> 0, lastSent |-> clock]}
    /\ reliable' = reliable \cup {nextSequence}
    /\ wire' = wire \cup {nextSequence}
    /\ UNCHANGED <<time, receiver, headers>>

SendUnreliable ==
    /\ nextSequence <= MaxSeq
    /\ nextSequence' = nextSequence + 1
    /\ wire' = wire \cup {nextSequence}
    /\ UNCHANGED <<time, receiver, headers, tracker, reliable>>

\* handle_packet up to the switch: a packet accept() refuses goes no further.
Deliver(s) ==
    /\ s \in wire
    /\ history' = Record(history, s)
    /\ delivered' = IF Fresh(history, s) THEN delivered \cup {s} ELSE delivered
    /\ UNCHANGED <<time, sender, wire, headers>>

\* The receiver sends a packet of its own: its header acknowledges.
ReceiverSend ==
    /\ Cardinality(headers) < MaxHeaders
    /\ headers' = headers \cup {HeaderOf(history)}
    /\ UNCHANGED <<time, sender, receiver, wire>>

\* ReliabilityTracker::acknowledge, called before accept() and so for the
\* headers of duplicates too.
Unacknowledged(header) == {item \in tracker : ~Acks(header, item.sequence)}

AckArrives(header) ==
    /\ header \in headers
    /\ tracker' = Unacknowledged(header)
    /\ UNCHANGED <<time, receiver, headers, wire, nextSequence, reliable>>

Lose ==
    /\ \/ \E s \in wire : wire' = wire \ {s} /\ UNCHANGED headers
       \/ \E header \in headers :
              headers' = headers \ {header} /\ UNCHANGED wire
    /\ UNCHANGED <<time, sender, receiver>>

-----------------------------------------------------------------------------
\* The owner of the sender takes the time and starts a tick.
BeginTick ==
    /\ tick = 0
    /\ tick' = clock
    /\ UNCHANGED <<clock, sender, receiver, wire, headers>>

\* nowMs - lastSentMs, unsigned.
Elapsed(nowMs, lastSentMs) ==
    IF nowMs >= lastSentMs THEN nowMs - lastSentMs
    ELSE TimeMod + nowMs - lastSentMs

DueBeyondRetries(item, nowMs) ==              \* mutant: > for >=
    /\ item.retries <= MaxRetries
    /\ Elapsed(nowMs, item.lastSent) >= ResendDelay

DueAtOnce(item, nowMs) ==                     \* mutant: the delay is not waited
    item.retries < MaxRetries

Due(item, nowMs) ==
    /\ item.retries < MaxRetries
    /\ item.lastSent = 0 \/ Elapsed(nowMs, item.lastSent) >= ResendDelay

Resent(item, nowMs) ==
    IF Due(item, nowMs)
    THEN [item EXCEPT !.retries = @ + 1, !.lastSent = nowMs]
    ELSE item

\* due_resends at the end of the tick.  An item that is out of retries is
\* never due again, and stays.
EndTick ==
    /\ tick # 0
    /\ tracker' = {Resent(item, tick) : item \in tracker}
    /\ wire' = wire \cup {item.sequence : item \in {i \in tracker : Due(i, tick)}}
    /\ tick' = 0
    /\ UNCHANGED <<clock, receiver, headers, nextSequence, reliable>>

AdvanceClock ==
    /\ clock < MaxTime
    /\ clock' = clock + 1
    /\ UNCHANGED <<tick, sender, receiver, wire, headers>>

Next ==
    \/ SendReliable
    \/ SendUnreliable
    \/ \E s \in Sequence : Deliver(s)
    \/ ReceiverSend
    \/ \E header \in headers : AckArrives(header)
    \/ Lose
    \/ BeginTick
    \/ EndTick
    \/ AdvanceClock

Spec == Init /\ [][Next]_vars

-----------------------------------------------------------------------------
Pending == {item.sequence : item \in tracker}

(* A reliable packet leaves the tracker only once the receiver's handler    *)
(* has had it, whatever order headers and duplicates of headers arrive in.  *)
AckSound == reliable \ Pending \subseteq delivered

(* The history forgets a packet at exactly one place: an already handled    *)
(* packet that accept() would take again was the highest until a packet W   *)
(* above it arrived.  Everywhere else a duplicate is refused.               *)
ReplayOnlyAtEdge ==
    \A s \in delivered : Fresh(history, s) => history.highest - s = W

(* accept() never takes a first arrival for a duplicate: a packet the       *)
(* handler has not had, no more than W behind the highest, is let through.  *)
NoFalseDuplicate ==
    \A s \in wire \ delivered : s + W >= history.highest => Fresh(history, s)

(* Retransmissions are spaced: an item resent by a tick was last sent a     *)
(* full delay before, or was sent for the first time while this tick ran,   *)
(* after the tick took its time (the unsigned difference then wraps).       *)
ResendSpaced ==
    [][\A old \in tracker, new \in tracker' :
          (old.sequence = new.sequence /\ new.retries > old.retries) =>
              \/ new.lastSent >= old.lastSent + ResendDelay
              \/ old.retries = 0 /\ old.lastSent > tick]_vars

(* tests/protocol_tests.cpp:41-43 and docs/networking.md:17: a packet seen  *)
(* inside the 32-packet window is refused the second time.                  *)
NoReplay ==
    \A s \in delivered : history.highest - s <= W => ~Fresh(history, s)

-----------------------------------------------------------------------------
\* The abstract transport this channel implements.
Abstract == INSTANCE Delivery WITH
    Message   <- Sequence,
    sent      <- 1..(nextSequence - 1),
    delivered <- delivered,
    confirmed <- reliable \ Pending

ImplementsDelivery == Abstract!Spec
=============================================================================
