----------------------- MODULE ReliableChannelProofs -----------------------
(***************************************************************************)
(* Proofs about ReliableChannel for every window width, delay, number of   *)
(* retries and bound.                                                      *)
(*                                                                         *)
(* The safety properties are not inductive by themselves.  WindowInv says  *)
(* what the history knows about the packets handled so far: everything it  *)
(* marks was handled, and everything handled is marked or has left the     *)
(* window.  HeaderInv says the same of the headers in flight, which are    *)
(* old copies of the history.  Both speak of `delivered' only, which no    *)
(* sender action changes.                                                  *)
(***************************************************************************)
EXTENDS ReliableChannel, TLAPS

WindowInv ==
    /\ history.initialized => history.highest \in delivered
    /\ ~history.initialized => history = EmptyHistory /\ delivered = {}
    /\ \A d \in history.bits : history.highest - d \in delivered
    /\ \A s \in delivered :
          /\ s <= history.highest
          /\ \/ s = history.highest
             \/ history.highest - s \in history.bits
             \/ history.highest - s >= W

HeaderInv ==
    \A header \in headers, s \in Sequence : Acks(header, s) => s \in delivered

SentInv ==
    /\ wire \subseteq 1..(nextSequence - 1)
    /\ delivered \subseteq 1..(nextSequence - 1)
    /\ reliable \subseteq 1..(nextSequence - 1)
    /\ Pending \subseteq reliable

IInv == TypeOK /\ SentInv /\ WindowInv /\ HeaderInv /\ AckSound

-----------------------------------------------------------------------------
(* accept() leaves a well-formed history whatever it is called with.        *)
LEMMA RecordType ==
    ASSUME NEW h \in History, NEW s \in Nat
    PROVE  Record(h, s) \in History
  BY WAssumption DEF Record, History, Shifted, Offset

(* The transport is type correct: no item is resent more than MaxRetries    *)
(* times, and a tick's time is never ahead of the clock.                    *)
THEOREM TypeCorrect == Spec => []TypeOK
<1>1. Init => TypeOK
  BY WAssumption, ChannelAssumption
  DEF Init, TypeOK, EmptyHistory, History, Header, Offset, ResendItem, Sequence
<1>2. TypeOK /\ [Next]_vars => TypeOK'
  <2> SUFFICES ASSUME TypeOK, [Next]_vars PROVE TypeOK'
    OBVIOUS
  <2> USE WAssumption, ChannelAssumption
      DEF TypeOK, Sequence, sender, receiver, time
  <2>1. CASE SendReliable
    BY <2>1 DEF SendReliable, ResendItem
  <2>2. CASE SendUnreliable
    BY <2>2 DEF SendUnreliable
  <2>3. ASSUME NEW s \in Sequence, Deliver(s) PROVE TypeOK'
    <3>1. history' \in History
      BY <2>3, RecordType DEF Deliver
    <3> QED
      BY <2>3, <3>1 DEF Deliver
  <2>4. CASE ReceiverSend
    <3>1. HeaderOf(history) \in Header
      BY DEF HeaderOf, Header, History
    <3> QED
      BY <2>4, <3>1 DEF ReceiverSend
  <2>5. ASSUME NEW header \in headers, AckArrives(header) PROVE TypeOK'
    BY <2>5 DEF AckArrives, Unacknowledged
  <2>6. CASE Lose
    BY <2>6 DEF Lose
  <2>7. CASE BeginTick
    BY <2>7 DEF BeginTick
  <2>8. CASE EndTick
    <3>1. ASSUME NEW item \in ResendItem, tick # 0
          PROVE  Resent(item, tick) \in ResendItem
      <4>1. CASE Due(item, tick)
        <5>1. item.retries + 1 \in 0..MaxRetries /\ tick \in 1..MaxTime
          BY <3>1, <4>1 DEF Due, ResendItem
        <5>2. Resent(item, tick)
                = [[item EXCEPT !.retries = @ + 1] EXCEPT !.lastSent = tick]
          BY <4>1 DEF Resent
        <5>3. [item EXCEPT !.retries = @ + 1] \in ResendItem
          BY <5>1 DEF ResendItem
        <5> QED
          BY <5>1, <5>2, <5>3 DEF ResendItem
      <4>2. CASE ~Due(item, tick)
        BY <4>2 DEF Resent
      <4> QED
        BY <4>1, <4>2
    <3>2. tracker' \subseteq ResendItem
      BY <2>8, <3>1 DEF EndTick
    <3>3. wire' \subseteq Sequence
      BY <2>8 DEF EndTick, ResendItem
    <3> QED
      BY <2>8, <3>2, <3>3 DEF EndTick
  <2>9. CASE AdvanceClock
    BY <2>9 DEF AdvanceClock
  <2>10. CASE UNCHANGED vars
    BY <2>10 DEF vars
  <2> QED
    BY <2>1, <2>2, <2>3, <2>4, <2>5, <2>6, <2>7, <2>8, <2>9, <2>10 DEF Next
<1> QED
  BY <1>1, <1>2, PTL DEF Spec

-----------------------------------------------------------------------------
(* The history's meaning survives a delivery, in order or not, first or     *)
(* repeated: the word shifted or marked still names handled packets only,   *)
(* and none inside the window is dropped short of the edge.                 *)
LEMMA WindowStep ==
    ASSUME TypeOK, WindowInv, NEW s \in Sequence, Deliver(s)
    PROVE  WindowInv'
<1> DEFINE h == history
           g == Record(history, s)
           dlv == delivered'
<1> USE WAssumption DEF TypeOK, History, Sequence, Offset
<1>0. /\ history' = g
      /\ dlv = IF Fresh(h, s) THEN delivered \cup {s} ELSE delivered
      /\ s \in Nat /\ h \in History /\ delivered \subseteq Nat
  BY ChannelAssumption DEF Deliver
<1>1. CASE ~h.initialized
  BY <1>0, <1>1 DEF Record, WindowInv, EmptyHistory, Fresh
<1>2. CASE h.initialized /\ s > h.highest
  <2>0. dlv = delivered \cup {s}
    BY <1>0, <1>2 DEF Fresh
  <2>1. g = [h EXCEPT !.highest = s, !.bits = Shifted(h.bits, s - h.highest)]
    BY <1>2 DEF Record
  <2>2. g.highest = s /\ g.initialized /\ g.bits = Shifted(h.bits, s - h.highest)
    BY <1>0, <1>2, <2>1
  <2>3. ASSUME NEW d \in g.bits PROVE s - d \in dlv
    <3>1. d \in Nat /\ (d = s - h.highest \/ d - (s - h.highest) \in h.bits)
      BY <2>2, <2>3 DEF Shifted
    <3>2. CASE d = s - h.highest
      BY <1>0, <1>2, <2>0, <3>1, <3>2 DEF WindowInv
    <3>3. CASE d - (s - h.highest) \in h.bits
      <4>1. h.highest - (d - (s - h.highest)) = s - d
        BY <1>0, <3>1
      <4> QED
        BY <1>0, <2>0, <3>3, <4>1 DEF WindowInv
    <3> QED
      BY <3>1, <3>2, <3>3
  <2>4. ASSUME NEW t \in dlv
        PROVE  t <= s /\ (t = s \/ s - t \in g.bits \/ s - t >= W)
    <3>1. CASE t = s
      BY <1>0, <3>1
    <3>2. CASE t \in delivered
      <4> DEFINE shift == s - h.highest
      <4>1. /\ t \in Nat /\ t <= h.highest
            /\ t = h.highest \/ h.highest - t \in h.bits \/ h.highest - t >= W
        BY <1>0, <3>2 DEF WindowInv
      <4>2. s - t = (h.highest - t) + shift /\ shift > 0 /\ t <= s
        BY <1>0, <1>2, <4>1
      <4>3. CASE t = h.highest
        BY <1>0, <1>2, <2>2, <4>1, <4>2, <4>3 DEF Shifted
      <4>4. CASE h.highest - t \in h.bits
        <5>1. CASE s - t >= W
          BY <4>2, <5>1
        <5>2. CASE s - t < W
          <6>1. shift < W /\ s - t \in Offset /\ (s - t) - shift \in h.bits
            BY <1>0, <1>2, <4>1, <4>2, <4>4, <5>2
          <6> QED
            BY <2>2, <4>2, <6>1 DEF Shifted
        <5> QED
          BY <1>0, <4>1, <5>1, <5>2
      <4>5. CASE h.highest - t >= W
        BY <1>0, <1>2, <4>1, <4>2, <4>5
      <4> QED
        BY <4>1, <4>3, <4>4, <4>5
    <3> QED
      BY <2>0, <3>1, <3>2
  <2> QED
    BY <1>0, <2>0, <2>2, <2>3, <2>4 DEF WindowInv
<1>3. CASE h.initialized /\ ~(s > h.highest)
  <2>1. /\ g.highest = h.highest /\ g.initialized
        /\ g.bits = h.bits \cup ({h.highest - s} \cap Offset)
    BY <1>0, <1>3 DEF Record
  <2>2. h.highest - (h.highest - s) = s
    BY <1>0
  <2>3. h.highest - s \in Offset => s \in dlv
    <3>1. h.highest - s \in h.bits => s \in delivered
      BY <2>2 DEF WindowInv
    <3> QED
      BY <1>0, <3>1 DEF Fresh
  <2>4. \A d \in g.bits : h.highest - d \in dlv
    BY <1>0, <2>1, <2>2, <2>3 DEF WindowInv
  <2>5. \A t \in delivered :
               /\ t <= h.highest
               /\ t = h.highest \/ h.highest - t \in g.bits \/ h.highest - t >= W
    BY <2>1 DEF WindowInv
  <2>6. /\ s <= h.highest
        /\ s = h.highest \/ h.highest - s \in g.bits \/ h.highest - s >= W
    BY <1>0, <1>3, <2>1
  <2>7. h.highest \in dlv
    BY <1>0, <1>3 DEF WindowInv
  <2> QED
    BY <1>0, <2>1, <2>4, <2>5, <2>6, <2>7 DEF WindowInv
<1> QED
  BY <1>1, <1>2, <1>3

(* A header built from the history acknowledges handled packets only.       *)
LEMMA HeaderSound ==
    ASSUME TypeOK, WindowInv, NEW s \in Sequence, Acks(HeaderOf(history), s)
    PROVE  s \in delivered
<1> USE WAssumption, ChannelAssumption DEF TypeOK, History, Sequence, Offset
<1>1. CASE s = history.highest
  BY <1>1 DEF WindowInv, EmptyHistory
<1>2. CASE history.highest - s \in history.bits
  <2>1. history.highest - (history.highest - s) = s
    OBVIOUS
  <2> QED
    BY <1>2, <2>1 DEF WindowInv
<1> QED
  BY <1>1, <1>2 DEF Acks, HeaderOf

-----------------------------------------------------------------------------
LEMMA InitIInv == Init => SentInv /\ WindowInv /\ HeaderInv /\ AckSound
  BY DEF Init, SentInv, WindowInv, HeaderInv, AckSound, Pending, EmptyHistory

LEMMA PendingAfterSend ==
    ASSUME SendReliable PROVE Pending' = Pending \cup {nextSequence}
<1> DEFINE item == [sequence |-> nextSequence, retries |-> 0, lastSent |-> clock]
<1>1. item.sequence = nextSequence
  OBVIOUS
<1>2. tracker' = tracker \cup {item}
  BY DEF SendReliable
<1> HIDE DEF item
<1> QED
  BY <1>1, <1>2 DEF Pending

\* Sending touches neither the history nor the headers; the new number is
\* above every number in use.
LEMMA SendStep ==
    ASSUME IInv, SendReliable \/ SendUnreliable
    PROVE  (SentInv /\ WindowInv /\ HeaderInv /\ AckSound)'
<1> USE DEF IInv, receiver, time
<1>1. nextSequence \in Nat /\ nextSequence' = nextSequence + 1
  BY ChannelAssumption DEF TypeOK, SendReliable, SendUnreliable
<1>2. 1..(nextSequence - 1) \subseteq 1..(nextSequence' - 1)
      /\ nextSequence \in Nat
  BY <1>1
<1>3. WindowInv' /\ HeaderInv'
  BY DEF SendReliable, SendUnreliable, WindowInv, HeaderInv
<1>4. CASE SendReliable
  <2>1. Pending' = Pending \cup {nextSequence}
    BY <1>4, PendingAfterSend
  <2>2. nextSequence \in 1..(nextSequence' - 1)
    BY <1>1, ChannelAssumption DEF TypeOK
  <2> QED
    BY <1>2, <1>3, <1>4, <2>1, <2>2 DEF SendReliable, SentInv, AckSound
<1>5. CASE SendUnreliable
  <2>1. nextSequence \in 1..(nextSequence' - 1)
    BY <1>1, ChannelAssumption DEF TypeOK
  <2> QED
    BY <1>2, <1>3, <1>5, <2>1 DEF SendUnreliable, SentInv, AckSound, Pending
<1> QED
  BY <1>4, <1>5

\* A delivery only adds to `delivered'.
LEMMA DeliverStep ==
    ASSUME IInv, NEW s \in Sequence, Deliver(s)
    PROVE  (SentInv /\ WindowInv /\ HeaderInv /\ AckSound)'
<1>1. WindowInv'
  BY WindowStep DEF IInv
<1>2. delivered \subseteq delivered' /\ delivered' \subseteq delivered \cup {s}
  BY DEF Deliver
<1>3. SentInv'
  BY <1>2 DEF IInv, SentInv, Deliver, sender, Pending
<1>4. HeaderInv' /\ AckSound'
  BY <1>2 DEF IInv, HeaderInv, AckSound, Deliver, sender, Pending
<1> QED
  BY <1>1, <1>3, <1>4

\* What a header acknowledges was handled, so forgetting it is sound.
LEMMA AckStep ==
    ASSUME IInv, NEW header \in headers, AckArrives(header)
    PROVE  (SentInv /\ WindowInv /\ HeaderInv /\ AckSound)'
<1>1. WindowInv' /\ HeaderInv'
  BY DEF IInv, WindowInv, HeaderInv, AckArrives, receiver
<1>2. Pending' \subseteq Pending
  BY DEF AckArrives, Unacknowledged, Pending
<1>3. ASSUME NEW s \in Pending \ Pending' PROVE s \in delivered
  <2>1. PICK item \in tracker : item.sequence = s
    BY <1>3 DEF Pending
  <2>2. Acks(header, s)
    BY <1>3, <2>1 DEF AckArrives, Unacknowledged, Pending
  <2>3. s \in Sequence
    BY <2>1 DEF IInv, TypeOK, ResendItem
  <2> QED
    BY <2>2, <2>3 DEF IInv, HeaderInv
<1>4. SentInv' /\ AckSound'
  BY <1>2, <1>3 DEF IInv, SentInv, AckSound, AckArrives, receiver
<1> QED
  BY <1>1, <1>4

\* A resend changes no sequence number of the tracker.
LEMMA EndTickStep ==
    ASSUME IInv, EndTick
    PROVE  (SentInv /\ WindowInv /\ HeaderInv /\ AckSound)'
<1>1. \A item \in tracker : Resent(item, tick).sequence = item.sequence
  BY DEF IInv, TypeOK, ResendItem, Resent
<1>2. Pending' = Pending
  BY <1>1 DEF EndTick, Pending
<1>3. wire' \subseteq wire \cup Pending
  BY DEF EndTick, Pending
<1>4. SentInv' /\ AckSound'
  BY <1>2, <1>3 DEF IInv, SentInv, AckSound, EndTick, receiver
<1>5. WindowInv' /\ HeaderInv'
  BY DEF IInv, WindowInv, HeaderInv, EndTick, receiver
<1> QED
  BY <1>4, <1>5

LEMMA Inductive == Spec => []IInv
<1>1. Init => SentInv /\ WindowInv /\ HeaderInv /\ AckSound
  BY InitIInv
<1>2. /\ TypeOK /\ SentInv /\ WindowInv /\ HeaderInv /\ AckSound
      /\ [Next]_vars
      => (SentInv /\ WindowInv /\ HeaderInv /\ AckSound)'
  <2> SUFFICES ASSUME IInv, [Next]_vars
               PROVE  (SentInv /\ WindowInv /\ HeaderInv /\ AckSound)'
    BY DEF IInv
  <2>1. CASE SendReliable \/ SendUnreliable
    BY <2>1, SendStep
  <2>2. ASSUME NEW s \in Sequence, Deliver(s)
        PROVE  (SentInv /\ WindowInv /\ HeaderInv /\ AckSound)'
    BY <2>2, DeliverStep
  <2>3. CASE ReceiverSend
    <3>1. \A s \in Sequence : Acks(HeaderOf(history), s) => s \in delivered
      BY HeaderSound DEF IInv
    <3>2. HeaderInv'
      BY <2>3, <3>1 DEF IInv, HeaderInv, ReceiverSend, receiver
    <3> QED
      BY <2>3, <3>2
      DEF IInv, SentInv, WindowInv, AckSound, ReceiverSend, receiver, sender, Pending
  <2>4. ASSUME NEW header \in headers, AckArrives(header)
        PROVE  (SentInv /\ WindowInv /\ HeaderInv /\ AckSound)'
    BY <2>4, AckStep
  <2>5. CASE Lose
    BY <2>5 DEF IInv, SentInv, WindowInv, HeaderInv, AckSound, Lose, receiver,
                sender, Pending
  <2>6. CASE BeginTick \/ AdvanceClock \/ UNCHANGED vars
    BY <2>6 DEF IInv, SentInv, WindowInv, HeaderInv, AckSound, BeginTick,
                AdvanceClock, vars, receiver, sender, Pending
  <2>7. CASE EndTick
    BY <2>7, EndTickStep
  <2> QED
    BY <2>1, <2>2, <2>3, <2>4, <2>5, <2>6, <2>7 DEF Next
<1> QED
  BY <1>1, <1>2, TypeCorrect, PTL DEF Spec, IInv

-----------------------------------------------------------------------------
(* A reliable packet is never dropped by its sender unheard, for any window *)
(* width and any order, loss and duplication of packets and headers.        *)
THEOREM AcknowledgementSound == Spec => []AckSound
<1>1. IInv => AckSound
  BY DEF IInv
<1> QED
  BY <1>1, Inductive, PTL

(* A packet is handled twice only in the one case the shift clears.         *)
THEOREM ReplayBounded == Spec => []ReplayOnlyAtEdge
<1>1. IInv => ReplayOnlyAtEdge
  <2> SUFFICES ASSUME IInv, NEW s \in delivered, Fresh(history, s)
               PROVE  history.highest - s = W
    BY DEF ReplayOnlyAtEdge
  <2> USE WAssumption DEF IInv, TypeOK, History, Sequence, Offset
  <2>1. history.initialized /\ s \in Nat /\ s <= history.highest
    BY DEF WindowInv
  <2>2. history.highest - s \in 1..W /\ history.highest - s \notin history.bits
    BY <2>1 DEF Fresh
  <2> QED
    BY <2>1, <2>2 DEF WindowInv
<1> QED
  BY <1>1, Inductive, PTL

(* A first arrival inside the window is never mistaken for a duplicate.     *)
THEOREM FirstArrivalAccepted == Spec => []NoFalseDuplicate
<1>1. IInv => NoFalseDuplicate
  <2> SUFFICES ASSUME IInv, NEW s \in wire \ delivered, s + W >= history.highest
               PROVE  Fresh(history, s)
    BY DEF NoFalseDuplicate
  <2> USE WAssumption DEF IInv, TypeOK, History, Sequence, Offset
  <2>1. history.initialized => history.highest # s
    BY DEF WindowInv
  <2>2. s \in Nat /\ history.highest - (history.highest - s) = s
    BY ChannelAssumption
  <2>3. history.highest - s \notin history.bits
    BY <2>2 DEF WindowInv
  <2> QED
    BY <2>1, <2>2, <2>3 DEF Fresh
<1> QED
  BY <1>1, Inductive, PTL

(* Every behaviour of the windowed channel is one of the abstract delivery: *)
(* its own steps are sends, deliveries and confirmations of what was        *)
(* delivered, or change nothing the abstraction sees.                       *)
THEOREM ChannelImplementsDelivery == Spec => ImplementsDelivery
<1>1. Init => Abstract!Init
  BY DEF Init, Abstract!Init, Pending
<1>2. IInv /\ IInv' /\ [Next]_vars => [Abstract!Next]_Abstract!vars
  <2> SUFFICES ASSUME IInv, IInv', [Next]_vars
               PROVE  Abstract!Next \/ UNCHANGED Abstract!vars
    BY DEF Abstract!vars
  <2> DEFINE confirmed == reliable \ Pending
  <2>0. nextSequence \in Nat \ {0} /\ IInv
    BY ChannelAssumption DEF IInv, TypeOK
  <2>1. CASE SendReliable \/ SendUnreliable
    <3>1. /\ nextSequence \in Sequence \ (1..(nextSequence - 1))
          /\ 1..(nextSequence' - 1) = 1..(nextSequence - 1) \cup {nextSequence}
      BY <2>0, <2>1, ChannelAssumption DEF SendReliable, SendUnreliable, Sequence
    <3>2. UNCHANGED <<delivered, confirmed>>
      <4>1. CASE SendReliable
        <5>1. Pending' = Pending \cup {nextSequence}
          BY <4>1, PendingAfterSend
        <5>2. nextSequence \notin reliable
          BY <2>0 DEF IInv, SentInv
        <5> QED
          BY <4>1, <5>1, <5>2 DEF SendReliable, receiver
      <4>2. CASE SendUnreliable
        BY <4>2 DEF SendUnreliable, receiver, Pending
      <4> QED
        BY <2>1, <4>1, <4>2
    <3>3. Abstract!Send
      BY <3>1, <3>2 DEF Abstract!Send
    <3> QED
      BY <3>3 DEF Abstract!Next
  <2>2. ASSUME NEW s \in Sequence, Deliver(s)
        PROVE  Abstract!Next \/ UNCHANGED Abstract!vars
    <3>1. UNCHANGED <<nextSequence, confirmed>> /\ s \in 1..(nextSequence - 1)
      BY <2>2 DEF Deliver, sender, Pending, IInv, SentInv
    <3>2. CASE Fresh(history, s)
      BY <2>2, <3>1, <3>2 DEF Deliver, Abstract!Deliver, Abstract!Next
    <3>3. CASE ~Fresh(history, s)
      BY <2>2, <3>1, <3>3 DEF Deliver, Abstract!vars
    <3> QED
      BY <3>2, <3>3
  <2>3. ASSUME NEW header \in headers, AckArrives(header)
        PROVE  Abstract!Next
    <3>1. UNCHANGED <<nextSequence, delivered, reliable>>
      BY <2>3 DEF AckArrives, receiver
    <3>2. Pending' \subseteq Pending
      BY <2>3 DEF AckArrives, Unacknowledged, Pending
    <3>3. confirmed' \in SUBSET delivered
      BY <3>1 DEF IInv, AckSound
    <3>4. confirmed' = confirmed \cup confirmed'
      BY <3>1, <3>2
    <3>5. Abstract!Confirm
      BY <3>1, <3>3, <3>4 DEF Abstract!Confirm
    <3> QED
      BY <3>5 DEF Abstract!Next
  <2>4. CASE ReceiverSend \/ Lose \/ BeginTick \/ AdvanceClock \/ UNCHANGED vars
    BY <2>4 DEF ReceiverSend, Lose, BeginTick, AdvanceClock, vars, sender,
                receiver, Pending, Abstract!vars
  <2>5. CASE EndTick
    <3>1. \A item \in tracker : Resent(item, tick).sequence = item.sequence
      BY DEF IInv, TypeOK, ResendItem, Resent
    <3>2. Pending' = Pending
      BY <2>5, <3>1 DEF EndTick, Pending
    <3> QED
      BY <2>5, <3>2 DEF EndTick, receiver, Abstract!vars
  <2> QED
    BY <2>1, <2>2, <2>3, <2>4, <2>5 DEF Next
<1> QED
  BY <1>1, <1>2, Inductive, PTL DEF Spec, ImplementsDelivery, Abstract!Spec

-----------------------------------------------------------------------------
\* One item per packet, and no item was resent later than the running tick.
TrackerInv ==
    /\ \A i, j \in tracker : i.sequence = j.sequence => i = j
    /\ \A i \in tracker :
          i.retries > 0 => i.lastSent <= clock /\ (tick # 0 => i.lastSent <= tick)

LEMMA TrackerKeptBySmaller ==
    ASSUME TrackerInv, tracker' \subseteq tracker, UNCHANGED time
    PROVE  TrackerInv'
  BY DEF TrackerInv, time

LEMMA SequencesBelow ==
    ASSUME IInv, NEW i \in tracker PROVE i.sequence # nextSequence
<1>1. i.sequence \in Pending /\ nextSequence \in Nat
  BY ChannelAssumption DEF Pending, IInv, TypeOK
<1>2. i.sequence \in 1..(nextSequence - 1)
  BY <1>1 DEF IInv, SentInv
<1> QED
  BY <1>1, <1>2

LEMMA TrackerAfterSend ==
    ASSUME IInv, TrackerInv, SendReliable PROVE TrackerInv'
<1> DEFINE new == [sequence |-> nextSequence, retries |-> 0, lastSent |-> clock]
<1>1. tracker' = tracker \cup {new} /\ UNCHANGED time
  BY DEF SendReliable
<1>2. new.sequence = nextSequence /\ new.retries = 0
  OBVIOUS
<1> HIDE DEF new
<1>3. \A i \in tracker : i.sequence # new.sequence
  BY <1>2, SequencesBelow
<1> QED
  BY <1>1, <1>2, <1>3 DEF TrackerInv, time

LEMMA ResentIs ==
    ASSUME IInv, NEW i \in tracker
    PROVE  /\ Resent(i, tick).sequence = i.sequence
           /\ Due(i, tick) => Resent(i, tick).lastSent = tick
           /\ ~Due(i, tick) => Resent(i, tick) = i
<1>1. i \in ResendItem
  BY DEF IInv, TypeOK
<1> QED
  BY <1>1 DEF ResendItem, Resent

LEMMA TrackerAfterTick ==
    ASSUME IInv, TrackerInv, EndTick PROVE TrackerInv'
<1>1. tracker' = {Resent(i, tick) : i \in tracker} /\ tick' = 0 /\ clock' = clock
  BY DEF EndTick
<1>2. tick <= clock
  BY DEF IInv, TypeOK
<1>3. \A i \in tracker' : \E o \in tracker : i = Resent(o, tick)
  BY <1>1
<1>4. \A i, j \in tracker' : i.sequence = j.sequence => i = j
  BY <1>3, ResentIs DEF TrackerInv
<1>5. ASSUME NEW i \in tracker', i.retries > 0 PROVE i.lastSent <= clock
  <2>1. PICK o \in tracker : i = Resent(o, tick)
    BY <1>3
  <2> QED
    BY <1>2, <1>5, <2>1, ResentIs DEF TrackerInv
<1> QED
  BY <1>1, <1>4, <1>5 DEF TrackerInv

LEMMA TrackerInductive == Spec => []TrackerInv
<1>1. Init => TrackerInv
  BY DEF Init, TrackerInv
<1>2. IInv /\ TrackerInv /\ [Next]_vars => TrackerInv'
  <2> SUFFICES ASSUME IInv, TrackerInv, [Next]_vars PROVE TrackerInv'
    OBVIOUS
  <2>1. CASE BeginTick
    BY <2>1 DEF BeginTick, TrackerInv, sender
  <2>2. CASE AdvanceClock
    <3>1. \A i \in tracker : i.lastSent \in Nat
      BY DEF IInv, TypeOK, ResendItem
    <3>2. clock \in Nat /\ clock' = clock + 1 /\ UNCHANGED <<tick, tracker>>
      BY <2>2, ChannelAssumption DEF AdvanceClock, sender, IInv, TypeOK
    <3> QED
      BY <3>1, <3>2 DEF TrackerInv
  <2>3. CASE ~(SendReliable \/ BeginTick \/ EndTick \/ AdvanceClock)
    <3>1. tracker' \subseteq tracker /\ UNCHANGED time
      BY <2>3 DEF Next, vars, time, sender, SendUnreliable, Deliver, ReceiverSend,
                  AckArrives, Unacknowledged, Lose
    <3> QED
      BY <3>1, TrackerKeptBySmaller
  <2> QED
    BY <2>1, <2>2, <2>3, TrackerAfterSend, TrackerAfterTick
<1> QED
  BY <1>1, <1>2, Inductive, PTL DEF Spec

(* No packet is resent before its delay is over, for any clock, but the one *)
(* first sent while the tick ran, whose age wraps; and that one only once.  *)
THEOREM ResendsSpaced == Spec => ResendSpaced
<1> DEFINE Spaced == \A old \in tracker, new \in tracker' :
              (old.sequence = new.sequence /\ new.retries > old.retries) =>
                  \/ new.lastSent >= old.lastSent + ResendDelay
                  \/ old.retries = 0 /\ old.lastSent > tick
<1>1. IInv /\ TrackerInv /\ [Next]_vars => [Spaced]_vars
  <2> SUFFICES ASSUME IInv, TrackerInv, Next,
                      NEW old \in tracker, NEW new \in tracker',
                      old.sequence = new.sequence, new.retries > old.retries
               PROVE  \/ new.lastSent >= old.lastSent + ResendDelay
                      \/ old.retries = 0 /\ old.lastSent > tick
    OBVIOUS
  <2>0. old \in ResendItem
    BY DEF IInv, TypeOK
  <2>1. CASE EndTick
    <3>1. PICK o \in tracker : new = Resent(o, tick)
      BY <2>1 DEF EndTick
    <3>2. o = old
      BY <3>1, ResentIs DEF TrackerInv
    <3>3. Due(old, tick) /\ new.lastSent = tick
      <4>1. ~Due(old, tick) => new = old
        BY <3>1, <3>2, ResentIs
      <4>2. old.retries \in Nat
        BY <2>0, ChannelAssumption DEF ResendItem
      <4> QED
        BY <3>1, <3>2, <4>1, <4>2, ResentIs
    <3>4. /\ old.lastSent \in Nat \ {0} /\ tick \in Nat /\ tick # 0
          /\ old.retries \in Nat
      BY <2>0, <2>1, ChannelAssumption DEF ResendItem, IInv, TypeOK, EndTick
    <3>5. CASE tick >= old.lastSent
      BY <3>3, <3>4, <3>5, ChannelAssumption DEF Due, Elapsed
    <3>6. CASE ~(tick >= old.lastSent)
      BY <3>4, <3>6 DEF TrackerInv
    <3> QED
      BY <3>5, <3>6
  <2>2. CASE SendReliable
    <3> DEFINE item == [sequence |-> nextSequence, retries |-> 0, lastSent |-> clock]
    <3>1. tracker' = tracker \cup {item} /\ item.sequence = nextSequence
      BY <2>2 DEF SendReliable
    <3> HIDE DEF item
    <3>2. new \in tracker
      BY <3>1, SequencesBelow
    <3>3. new = old /\ old.retries \in Nat
      BY <2>0, <3>2, ChannelAssumption DEF TrackerInv, ResendItem
    <3> QED
      BY <3>3
  <2>3. CASE ~(SendReliable \/ EndTick)
    <3>1. tracker' \subseteq tracker
      BY <2>3 DEF Next, sender, SendUnreliable, Deliver, ReceiverSend, AckArrives,
                  Unacknowledged, Lose, BeginTick, AdvanceClock
    <3>2. new = old /\ old.retries \in Nat
      BY <2>0, <3>1, ChannelAssumption DEF TrackerInv, ResendItem
    <3> QED
      BY <3>2
  <2> QED
    BY <2>1, <2>2, <2>3
<1>2. Spec => [][Spaced]_vars
  BY <1>1, Inductive, TrackerInductive, PTL DEF Spec
<1> QED
  BY <1>2 DEF ResendSpaced

=============================================================================
