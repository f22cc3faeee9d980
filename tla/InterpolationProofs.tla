------------------------ MODULE InterpolationProofs ------------------------
(***************************************************************************)
(* Proofs about Interpolation for every set of players and states, every   *)
(* delay, extrapolation limit and capacity.                                *)
(***************************************************************************)
EXTENDS InterpolationProperties, WellFoundedInduction, TLAPS

\* From any sample to any later one.
Sorted(buffer) ==
    \A i, j \in 1..Len(buffer) : i < j => buffer[i].tick < buffer[j].tick

Buffer(b) == b \in Seq(Sample) /\ Sorted(b)

LEMMA SampleFields ==
    ASSUME NEW sample \in Sample
    PROVE  /\ sample.tick \in Nat \ {0}
           /\ sample.state.pos \in Int
           /\ sample.state.vel \in Int
<1>1. sample.tick \in 1..MaxTick /\ sample.state \in State
  BY DEF Sample
<1>2. sample.state.pos \in Place /\ sample.state.vel \in Speed
  BY <1>1 DEF State
<1>3. sample.state.pos \in Int /\ sample.state.vel \in Int
  BY <1>2, InterpolationAssumption
<1>4. sample.tick \in Nat \ {0}
  BY <1>1, InterpolationAssumption
<1> QED
  BY <1>3, <1>4

LEMMA SampleTyped ==
    ASSUME NEW b, Buffer(b), NEW i \in 1..Len(b)
    PROVE  b[i].tick \in Nat \ {0} /\ b[i].state.pos \in Int /\ b[i].state.vel \in Int
<1>1. b[i] \in Sample
  BY DEF Buffer
<1> QED
  BY <1>1, SampleFields

(* A sample newer than the last keeps a buffer sorted.                      *)
LEMMA AppendSorted ==
    ASSUME NEW buffer, Buffer(buffer), NEW sample \in Sample,
           buffer # <<>> => buffer[Len(buffer)].tick < sample.tick
    PROVE  Buffer(Append(buffer, sample))
<1> DEFINE longer == Append(buffer, sample)
<1>0. buffer \in Seq(Sample) /\ Len(buffer) \in Nat /\ longer \in Seq(Sample)
  BY DEF Buffer
<1>1. Len(longer) = Len(buffer) + 1 /\ longer[Len(buffer) + 1] = sample
  BY <1>0
<1>2. \A i \in 1..Len(buffer) : longer[i] = buffer[i]
  BY <1>0
<1> SUFFICES ASSUME NEW i \in 1..(Len(buffer) + 1), NEW j \in 1..(Len(buffer) + 1), i < j
             PROVE  longer[i].tick < longer[j].tick
  BY <1>0, <1>1 DEF Buffer, Sorted
<1>3. i \in 1..Len(buffer) /\ longer[i] = buffer[i] /\ buffer[i].tick \in Int
  BY <1>0, <1>2, SampleTyped
<1>4. CASE j = Len(buffer) + 1
  <2>1. Len(buffer) \in 1..Len(buffer) /\ buffer # <<>>
    BY <1>0, <1>3
  <2>2. buffer[Len(buffer)].tick \in Int /\ sample.tick \in Int
    BY <2>1, SampleTyped, SampleFields
  <2>3. i = Len(buffer) \/ buffer[i].tick < buffer[Len(buffer)].tick
    BY <1>0, <1>3, <2>1 DEF Buffer, Sorted
  <2> QED
    BY <1>1, <1>3, <1>4, <2>1, <2>2, <2>3
<1>5. CASE j # Len(buffer) + 1
  <2>1. j \in 1..Len(buffer) /\ longer[j] = buffer[j]
    BY <1>0, <1>2, <1>5
  <2> QED
    BY <1>3, <2>1 DEF Buffer, Sorted
<1> QED
  BY <1>4, <1>5

(* Dropping the oldest sample keeps a buffer sorted.                        *)
LEMMA TailSorted ==
    ASSUME NEW buffer, Buffer(buffer), buffer # <<>>
    PROVE  Buffer(Tail(buffer))
<1>0. buffer \in Seq(Sample) /\ Len(buffer) \in Nat \ {0} /\ Tail(buffer) \in Seq(Sample)
  BY DEF Buffer
<1>1. Len(Tail(buffer)) = Len(buffer) - 1
  BY <1>0
<1>2. \A i \in 1..(Len(buffer) - 1) :
        Tail(buffer)[i] = buffer[i + 1] /\ i + 1 \in 1..Len(buffer)
  BY <1>0
<1> SUFFICES ASSUME NEW i \in 1..(Len(buffer) - 1), NEW j \in 1..(Len(buffer) - 1), i < j
             PROVE  Tail(buffer)[i].tick < Tail(buffer)[j].tick
  BY <1>0, <1>1 DEF Buffer, Sorted
<1>3. buffer[i + 1].tick < buffer[j + 1].tick
  BY <1>0, <1>2 DEF Buffer, Sorted
<1> QED
  BY <1>2, <1>3

Good(buffer) == Buffer(buffer) /\ Len(buffer) <= Capacity

Inv == TypeOK /\ \A p \in Player : Sorted(buffers[p])

(* push_snapshot keeps every buffer typed, bounded and sorted.              *)
LEMMA PushGood ==
    ASSUME Inv, NEW p \in Player, NEW snapshot \in broadcast
    PROVE  Good(Pushed(p, snapshot))
<1>1. Good(buffers[p])
  BY DEF Inv, TypeOK, Good, Buffer
<1>2. snapshot \in Snapshot
  BY DEF Inv, TypeOK
<1>3. CASE \/ p \notin DOMAIN snapshot.players
           \/ buffers[p] # <<>> /\ snapshot.serverTick <= buffers[p][Len(buffers[p])].tick
  BY <1>1, <1>3 DEF Pushed
<1>4. CASE /\ p \in DOMAIN snapshot.players
           /\ buffers[p] # <<>> => ~(snapshot.serverTick <= buffers[p][Len(buffers[p])].tick)
  <2> DEFINE sample == [tick |-> snapshot.serverTick, state |-> snapshot.players[p]]
             longer == Append(buffers[p], sample)
  <2>1. sample \in Sample
    <3>1. PICK seen \in SUBSET Player : snapshot.players \in [seen -> State]
      BY <1>2 DEF Snapshot
    <3>2. snapshot.players[p] \in State
      BY <3>1, <1>4
    <3>3. snapshot.serverTick \in 1..MaxTick
      BY <1>2 DEF Snapshot
    <3> QED BY <3>2, <3>3 DEF Sample
  <2>2. buffers[p] # <<>> => buffers[p][Len(buffers[p])].tick < sample.tick
    <3> SUFFICES ASSUME buffers[p] # <<>>
                 PROVE  buffers[p][Len(buffers[p])].tick < sample.tick
      OBVIOUS
    <3>1. Len(buffers[p]) \in 1..Len(buffers[p])
      BY <1>1 DEF Good, Buffer
    <3>2. buffers[p][Len(buffers[p])].tick \in Int /\ sample.tick \in Int
      BY <1>1, <2>1, <3>1, SampleTyped, SampleFields DEF Good
    <3> QED BY <1>4, <3>2
  <2>3. Buffer(longer)
    BY <1>1, <2>1, <2>2, AppendSorted DEF Good
  <2>4. Len(longer) = Len(buffers[p]) + 1 /\ longer # <<>> /\ longer \in Seq(Sample)
    BY <1>1, <2>1 DEF Good, Buffer
  <2>5. Pushed(p, snapshot) = Trimmed(longer)
    BY <1>4 DEF Pushed
  <2>6. CASE Len(longer) > Capacity
    <3>1. Buffer(Tail(longer))
      BY <2>3, <2>4, TailSorted
    <3>2. Len(Tail(longer)) = Len(buffers[p])
      BY <1>1, <2>4 DEF Good, Buffer
    <3> QED BY <1>1, <2>5, <2>6, <3>1, <3>2 DEF Good, Trimmed
  <2>7. CASE ~(Len(longer) > Capacity)
    BY <2>3, <2>4, <2>5, <2>7, InterpolationAssumption DEF Good, Trimmed
  <2> QED BY <2>6, <2>7
<1> QED BY <1>3, <1>4

LEMMA InitInv == Init => Inv
BY InterpolationAssumption DEF Init, Inv, TypeOK, Sorted

LEMMA NextInv == Inv /\ [Next]_vars => Inv'
<1> SUFFICES ASSUME Inv, [Next]_vars PROVE Inv'
  OBVIOUS
<1>1. CASE Broadcast
  <2>1. PICK seen \in SUBSET Player : \E players \in [seen -> State] :
            broadcast' = broadcast \cup {[serverTick |-> serverTick + 1, players |-> players]}
    BY <1>1 DEF Broadcast
  <2>5. PICK players \in [seen -> State] :
            broadcast' = broadcast \cup {[serverTick |-> serverTick + 1, players |-> players]}
    BY <2>1
  <2>2. serverTick + 1 \in 1..MaxTick
    BY <1>1, InterpolationAssumption DEF Broadcast, Inv, TypeOK
  <2>3. [serverTick |-> serverTick + 1, players |-> players] \in Snapshot
    BY <2>2 DEF Snapshot
  <2>4. broadcast' \subseteq Snapshot
    BY <2>5, <2>3 DEF Inv, TypeOK
  <2> QED BY <1>1, <2>2, <2>4 DEF Broadcast, Inv, TypeOK
<1>2. CASE \E snapshot \in broadcast : Push(snapshot)
  <2>1. PICK snapshot \in broadcast : Push(snapshot)
    BY <1>2
  <2>2. \A p \in Player : Good(buffers'[p])
    BY <2>1, PushGood DEF Push, Inv
  <2>3. buffers' \in [Player -> Seq(Sample)]
    BY <2>1, <2>2 DEF Push, Good, Buffer
  <2> QED BY <2>1, <2>2, <2>3 DEF Push, Good, Buffer, Inv, TypeOK
<1>3. CASE UNCHANGED vars
  BY <1>3 DEF vars, Inv, TypeOK
<1> QED BY <1>1, <1>2, <1>3 DEF Next

LEMMA Invariant == Spec => []Inv
BY InitInv, NextInv, PTL DEF Spec

(* Buffers hold samples, never more than Capacity, for every capacity.      *)
THEOREM BuffersTypeCorrect == Spec => []TypeOK
<1>1. Inv => TypeOK
  BY DEF Inv
<1> QED BY <1>1, Invariant, PTL

(* However snapshots are delayed or repeated, ticks in a buffer increase.   *)
THEOREM BuffersOrdered == Spec => []Ordered
<1>1. Inv => Ordered
  BY DEF Inv, TypeOK, Sorted, Ordered
<1> QED BY <1>1, Invariant, PTL

-----------------------------------------------------------------------------
(***************************************************************************)
(* What is rendered.  A buffer is sorted, not only from one sample to the  *)
(* next, so the samples around a target are the only ones that span it.    *)
(***************************************************************************)
LEMMA TargetTyped == ASSUME NEW r \in Nat PROVE Target(r) \in Nat
BY InterpolationAssumption DEF Target

LEMMA RenderTicksNatural == RenderTicks \subseteq Nat
BY InterpolationAssumption DEF RenderTicks

-----------------------------------------------------------------------------
(* Only the segments that end at a sample span its tick.                    *)
LEMMA SpansAtSample ==
    ASSUME NEW b, Buffer(b), NEW i \in 1..Len(b), NEW k \in Spans(b, b[i].tick)
    PROVE  k \in 1..(Len(b) - 1) /\ (k = i \/ k + 1 = i)
<1>1. k \in 1..(Len(b) - 1) /\ b[k].tick <= b[i].tick /\ b[i].tick <= b[k + 1].tick
  BY DEF Spans
<1>2. Len(b) \in Nat /\ i \in Int /\ k \in 1..Len(b) /\ k + 1 \in 1..Len(b)
  BY <1>1 DEF Buffer
<1>3. b[i].tick \in Int /\ b[k].tick \in Int /\ b[k + 1].tick \in Int
  BY <1>2, SampleTyped
<1>4. ~(i < k)
  BY <1>1, <1>2, <1>3 DEF Buffer, Sorted
<1>5. ~(k + 1 < i)
  BY <1>1, <1>2, <1>3 DEF Buffer, Sorted
<1> QED
  BY <1>1, <1>2, <1>4, <1>5

(* Inside a segment no other one spans.                                     *)
LEMMA SpansInside ==
    ASSUME NEW b, Buffer(b), NEW i \in 1..(Len(b) - 1), NEW target \in Nat,
           b[i].tick < target, target < b[i + 1].tick
    PROVE  Spans(b, target) = {i}
<1>1. Len(b) \in Nat /\ i \in 1..Len(b) /\ i + 1 \in 1..Len(b)
  BY DEF Buffer
<1>2. b[i].tick \in Int /\ b[i + 1].tick \in Int
  BY <1>1, SampleTyped
<1>3. i \in Spans(b, target)
  BY <1>2 DEF Spans
<1>4. ASSUME NEW k \in Spans(b, target) PROVE k = i
  <2>1. k \in 1..(Len(b) - 1) /\ b[k].tick <= target /\ target <= b[k + 1].tick
    BY <1>4 DEF Spans
  <2>2. k \in 1..Len(b) /\ k + 1 \in 1..Len(b)
    BY <1>1, <2>1
  <2>3. b[k].tick \in Int /\ b[k + 1].tick \in Int
    BY <2>2, SampleTyped
  <2>4. ~(i + 1 < k) /\ i + 1 # k
    BY <1>1, <1>2, <2>1, <2>2, <2>3 DEF Buffer, Sorted
  <2>5. ~(k + 1 < i) /\ k + 1 # i
    BY <1>1, <1>2, <2>1, <2>2, <2>3 DEF Buffer, Sorted
  <2> QED
    BY <1>1, <2>1, <2>4, <2>5
<1> QED
  BY <1>3, <1>4

(* lerp at either end of its segment is the sample there.                   *)
LEMMA LerpAtEnds ==
    ASSUME NEW x, NEW y, x.state.pos \in Int, y.state.pos \in Int,
           x.tick \in Int, y.tick \in Int
    PROVE  /\ SamePlace(Lerp(x, y, x.tick), Exactly(x))
           /\ SamePlace(Lerp(x, y, y.tick), Exactly(y))
<1>1. ASSUME NEW m \in Int, NEW n \in Int, NEW d \in Int
      PROVE  /\ (m * d + (n - m) * 0) * 1 = m * d
             /\ (m * d + (n - m) * d) * 1 = n * d
  OBVIOUS
<1>2. x.tick - x.tick = 0
  OBVIOUS
<1>3. Lerp(x, y, x.tick).num =
        x.state.pos * (y.tick - x.tick) + (y.state.pos - x.state.pos) * 0
  BY <1>2 DEF Lerp
<1>4. Lerp(x, y, y.tick).num =
        x.state.pos * (y.tick - x.tick) + (y.state.pos - x.state.pos) * (y.tick - x.tick)
  BY DEF Lerp
<1>5. \A t : Lerp(x, y, t).den = y.tick - x.tick
  BY DEF Lerp
<1>6. y.tick - x.tick \in Int
  OBVIOUS
<1> QED
  BY <1>1, <1>3, <1>4, <1>5, <1>6 DEF SamePlace, Exactly

LEMMA LerpTyped ==
    ASSUME NEW x, NEW y, x.state.pos \in Int, y.state.pos \in Int,
           x.tick \in Int, y.tick \in Int, x.tick < y.tick, NEW target \in Int
    PROVE  Lerp(x, y, target).num \in Int /\ Lerp(x, y, target).den \in Nat \ {0}
  BY DEF Lerp

(* At the tick of a sample the player is where the sample says.             *)
LEMMA RenderedAtSample ==
    ASSUME NEW b, Buffer(b), NEW r \in Nat, NEW i \in 1..Len(b),
           b[i].tick = Target(r)
    PROVE  /\ SamePlace(Rendered(b, r), Exactly(b[i]))
           /\ Rendered(b, r).num \in Int /\ Rendered(b, r).den \in Nat \ {0}
<1> DEFINE spans == Spans(b, Target(r))
<1>1. Len(b) \in Nat /\ i \in Int
  BY DEF Buffer
<1>2. CASE Len(b) = 1
  <2>1. i = 1 /\ Rendered(b, r) = Exactly(b[1])
    BY <1>2 DEF Rendered
  <2>2. b[1].state.pos \in Int
    BY <2>1, SampleTyped
  <2> QED
    BY <2>1, <2>2 DEF SamePlace, Exactly
<1>3. CASE Len(b) # 1
  <2>1. \A k \in spans : k \in 1..(Len(b) - 1) /\ (k = i \/ k + 1 = i)
    BY SpansAtSample
  <2>2. PICK j \in spans : \A k \in spans : j <= k
    <3>1. CASE i > 1
      <4>1. i - 1 \in 1..(Len(b) - 1) /\ i - 1 \in 1..Len(b) /\ (i - 1) + 1 = i
        BY <1>1, <3>1
      <4>2. b[i - 1].tick \in Int /\ b[i].tick \in Int
        BY <4>1, SampleTyped
      <4>3. b[i - 1].tick < b[i].tick
        BY <1>1, <4>1 DEF Buffer, Sorted
      <4>4. i - 1 \in spans
        BY <4>1, <4>2, <4>3 DEF Spans
      <4> QED
        BY <1>1, <2>1, <4>4
    <3>2. CASE i = 1
      <4>1. 1 \in 1..(Len(b) - 1) /\ 2 \in 1..Len(b) /\ 1 + 1 = 2
        <5>1. 1 <= Len(b)
          BY <1>1
        <5>2. Len(b) >= 2
          BY <1>1, <1>3, <5>1
        <5> QED BY <1>1, <5>2
      <4>2. b[1].tick \in Int /\ b[2].tick \in Int
        BY <3>2, <4>1, SampleTyped
      <4>3. b[1].tick < b[2].tick
        BY <3>2, <4>1 DEF Buffer, Sorted
      <4>4. 1 \in spans
        BY <3>2, <4>1, <4>2, <4>3 DEF Spans
      <4>5. \A k \in spans : 1 <= k
        BY <1>1, <2>1
      <4> QED
        BY <4>4, <4>5
    <3> QED
      BY <1>1, <3>1, <3>2
  <2> DEFINE c == CHOOSE k \in spans : \A l \in spans : k <= l
  <2>3. c \in spans
    BY <2>2
  <2>4. c \in 1..(Len(b) - 1) /\ (c = i \/ c + 1 = i)
    BY <2>1, <2>3
  <2>5. Rendered(b, r) = Lerp(b[c], b[c + 1], Target(r))
    BY <1>3, <2>3 DEF Rendered
  <2>6. c \in 1..Len(b) /\ c + 1 \in 1..Len(b)
    BY <1>1, <2>4
  <2>7. /\ SamePlace(Lerp(b[c], b[c + 1], b[c].tick), Exactly(b[c]))
        /\ SamePlace(Lerp(b[c], b[c + 1], b[c + 1].tick), Exactly(b[c + 1]))
    <3> HIDE DEF c
    <3>1. \A k \in 1..Len(b) : b[k].tick \in Int /\ b[k].state.pos \in Int
      BY SampleTyped
    <3> QED
      BY <2>6, <3>1, LerpAtEnds
  <2> HIDE DEF c
  <2>8. ASSUME c = i PROVE SamePlace(Rendered(b, r), Exactly(b[i]))
    <3>1. b[c] = b[i] /\ Rendered(b, r) = Lerp(b[c], b[c + 1], b[c].tick)
      BY <2>5, <2>8
    <3> QED
      BY <2>7, <3>1
  <2>9. ASSUME c + 1 = i PROVE SamePlace(Rendered(b, r), Exactly(b[i]))
    <3>1. b[c + 1] = b[i] /\ Rendered(b, r) = Lerp(b[c], b[c + 1], b[c + 1].tick)
      BY <2>5, <2>9
    <3> QED
      BY <2>7, <3>1
  <2>10. Rendered(b, r).num \in Int /\ Rendered(b, r).den \in Nat \ {0}
    <3>1. \A k \in 1..Len(b) : b[k].tick \in Int /\ b[k].state.pos \in Int
      BY SampleTyped
    <3>2. Target(r) \in Int
      BY TargetTyped
    <3>3. b[c].tick < b[c + 1].tick
      BY <1>1, <2>4, <2>6 DEF Buffer, Sorted
    <3> QED
      BY <2>5, <2>6, <3>1, <3>2, <3>3, LerpTyped
  <2> QED
    BY <2>4, <2>8, <2>9, <2>10
<1> QED
  BY <1>2, <1>3

(* Two renderings at the place of the same sample are at the same place.    *)
LEMMA SamePlaceThrough ==
    ASSUME NEW x, NEW y, NEW s, s.state.pos \in Int,
           x.num \in Int, x.den \in Int, y.num \in Int, y.den \in Int,
           SamePlace(x, Exactly(s)), SamePlace(y, Exactly(s))
    PROVE  SamePlace(x, y)
<1>1. x.num = s.state.pos * x.den /\ y.num = s.state.pos * y.den
  BY DEF SamePlace, Exactly
<1>2. ASSUME NEW m \in Int, NEW d \in Int, NEW e \in Int
      PROVE  (m * d) * e = (m * e) * d
  OBVIOUS
<1> QED
  BY <1>1, <1>2 DEF SamePlace

(* A set of naturals has a least element.                                   *)
LEMMA Least ==
    ASSUME NEW T \in SUBSET Nat, T # {}
    PROVE  \E m \in T : \A k \in T : m <= k
<1> DEFINE R == {pair \in Nat \X Nat : pair[1] < pair[2]}
<1>1. IsWellFoundedOn(R, Nat)
  BY NatLessThanWellFounded DEF OpToRel
<1>2. PICK m \in T : \A k \in T : ~(<<k, m>> \in R)
  <2> HIDE DEF R
  <2> QED BY <1>1, WFMin
<1>3. \A k \in T : ~(k < m)
  BY <1>2
<1> QED
  BY <1>3

(* A tick not before a sample nor after the last is at a sample or inside   *)
(* a segment: the last sample not after it.                                 *)
LEMMA Segment ==
    ASSUME NEW b, Buffer(b), NEW first \in 1..Len(b), NEW target \in Nat,
           b[first].tick <= target, target <= b[Len(b)].tick
    PROVE  \E i \in first..Len(b) :
              \/ b[i].tick = target
              \/ /\ i \in 1..(Len(b) - 1)
                 /\ b[i].tick < target
                 /\ target < b[i + 1].tick
<1> DEFINE After == {i \in first..Len(b) : target < b[i].tick}
<1>1. Len(b) \in Nat /\ first \in Nat \ {0} /\ Len(b) \in first..Len(b)
  BY DEF Buffer
<1>2. \A i \in first..Len(b) : b[i].tick \in Nat
  BY <1>1, SampleTyped
<1>3. CASE After = {}
  BY <1>1, <1>2, <1>3
<1>4. CASE After # {}
  <2>1. After \in SUBSET Nat
    BY <1>1
  <2>2. PICK m \in After : \A k \in After : m <= k
    BY <1>4, <2>1, Least
  <2>3. m \in first..Len(b) /\ target < b[m].tick /\ m # first
    BY <1>1, <1>2, <2>2
  <2>4. m - 1 \in first..Len(b) /\ m - 1 \in 1..(Len(b) - 1) /\ (m - 1) + 1 = m
    BY <1>1, <2>3
  <2>5. m - 1 \notin After
    BY <1>1, <2>2, <2>3
  <2>6. b[m - 1].tick <= target
    BY <1>2, <2>4, <2>5
  <2> QED
    BY <1>2, <2>3, <2>4, <2>6
<1> QED
  BY <1>3, <1>4

(* With one span the renderer interpolates on that span.                   *)
LEMMA RenderedOnOneSpan ==
    ASSUME NEW e, NEW k \in Int, NEW r, Len(e) # 1, Spans(e, Target(r)) = {k}
    PROVE  Rendered(e, r) = Lerp(e[k], e[k + 1], Target(r))
<1>1. (CHOOSE j \in {k} : \A l \in {k} : j <= l) = k
  <2>1. \E j \in {k} : \A l \in {k} : j <= l
    OBVIOUS
  <2>2. (CHOOSE j \in {k} : \A l \in {k} : j <= l) \in {k}
    BY <2>1
  <2> QED BY <2>2
<1>2. Rendered(e, r) =
        Lerp(e[CHOOSE j \in {k} : \A l \in {k} : j <= l],
             e[(CHOOSE j \in {k} : \A l \in {k} : j <= l) + 1], Target(r))
  BY DEF Rendered
<1> QED
  BY <1>1, <1>2

(* A buffer and what is left of it after d samples went, with others behind,*)
(* render a tick that both span at the same place.                          *)
LEMMA ShiftedAgree ==
    ASSUME NEW b, NEW c, Buffer(b), Buffer(c), NEW d \in {0, 1}, NEW r \in Nat,
           Len(b) > 1, Len(c) > 1, Len(c) >= Len(b) - d,
           \A k \in 1..(Len(b) - d) : c[k] = b[k + d],
           c[1].tick <= Target(r), Target(r) <= b[Len(b)].tick
    PROVE  SamePlace(Rendered(b, r), Rendered(c, r))
<1> DEFINE target == Target(r)
<1>1. Len(b) \in Nat /\ Len(c) \in Nat /\ target \in Nat /\ d \in Nat
  <2>1. Len(b) \in Nat /\ Len(c) \in Nat
    BY DEF Buffer
  <2>2. target \in Nat
    BY TargetTyped
  <2> QED BY <2>1, <2>2
<1>0. Len(b) # 1 /\ Len(c) # 1
  OBVIOUS
<1>2. 1 + d \in 1..Len(b) /\ b[1 + d] = c[1]
  BY <1>1
<1>3. PICK i \in (1 + d)..Len(b) :
        \/ b[i].tick = target
        \/ i \in 1..(Len(b) - 1) /\ b[i].tick < target /\ target < b[i + 1].tick
  BY <1>1, <1>2, Segment
<1>4. i \in 1..Len(b) /\ i - d \in 1..(Len(b) - d) /\ (i - d) + d = i
  BY <1>1, <1>3
<1>5. i - d \in 1..Len(c) /\ c[i - d] = b[i]
  BY <1>1, <1>4
<1>6. CASE b[i].tick = target
  <2>1. /\ SamePlace(Rendered(b, r), Exactly(b[i]))
        /\ Rendered(b, r).num \in Int /\ Rendered(b, r).den \in Nat \ {0}
    BY <1>4, <1>6, RenderedAtSample
  <2>2. /\ SamePlace(Rendered(c, r), Exactly(b[i]))
        /\ Rendered(c, r).num \in Int /\ Rendered(c, r).den \in Nat \ {0}
    BY <1>5, <1>6, RenderedAtSample
  <2>3. b[i].state.pos \in Int
    BY <1>4, SampleTyped
  <2> QED
    BY <2>1, <2>2, <2>3, SamePlaceThrough
<1>7. CASE i \in 1..(Len(b) - 1) /\ b[i].tick < target /\ target < b[i + 1].tick
  <2>1. (i + 1) - d \in 1..(Len(b) - d) /\ ((i + 1) - d) + d = i + 1
        /\ (i + 1) - d = (i - d) + 1
    BY <1>1, <1>4, <1>7
  <2>2. c[(i - d) + 1] = b[i + 1] /\ i - d \in 1..(Len(c) - 1)
    BY <1>1, <1>4, <2>1
  <2>3. Spans(b, target) = {i}
    BY <1>1, <1>7, SpansInside
  <2>4. Spans(c, target) = {i - d}
    BY <1>1, <1>5, <1>7, <2>2, SpansInside
  <2>5. i \in Int /\ i - d \in Int
    BY <1>1, <1>4
  <2>6. Rendered(b, r) = Lerp(b[i], b[i + 1], target)
    BY <1>0, <2>3, <2>5, RenderedOnOneSpan
  <2>7. Rendered(c, r) = Lerp(c[i - d], c[(i - d) + 1], target)
    BY <1>0, <2>4, <2>5, RenderedOnOneSpan
  <2> QED
    BY <1>5, <2>2, <2>6, <2>7 DEF SamePlace
<1> QED
  BY <1>3, <1>6, <1>7

-----------------------------------------------------------------------------
(***************************************************************************)
(* How far apart two renderings are.  Any of them is the place of the      *)
(* oldest sample, or on a segment between two samples, both ends included, *)
(* or on the line that leaves the latest; the limits of these three meet   *)
(* at the samples, whichever segment sample() finds there.                 *)
(***************************************************************************)
Fraction(x) == x.num \in Int /\ x.den \in Nat \ {0}

LEMMA Cancel ==
    ASSUME NEW m \in Int, NEW n \in Int, NEW d \in Nat \ {0}, m * d <= n * d
    PROVE  m <= n
<1> SUFFICES ASSUME n + 1 <= m PROVE FALSE
  OBVIOUS
<1>1. (n + 1) * d <= m * d
  OBVIOUS
<1>2. (n + 1) * d = n * d + d
  OBVIOUS
<1>3. n * d \in Int /\ m * d \in Int
  OBVIOUS
<1> QED
  BY <1>1, <1>2, <1>3

LEMMA DistanceAtMost ==
    ASSUME NEW x \in Int, NEW y \in Int, NEW far \in Int
    PROVE  Distance(x, y) <= far <=> x - y <= far /\ y - x <= far
  BY DEF Distance

(* One side of the distance between two fractions, for their equals.        *)
LEMMA EqualFractions ==
    ASSUME NEW a \in Int, NEW p \in Nat \ {0}, NEW a2 \in Int, NEW p2 \in Nat \ {0},
           NEW c \in Int, NEW q \in Nat \ {0}, NEW c2 \in Int, NEW q2 \in Nat \ {0},
           NEW far \in Int, a * p2 = a2 * p, c * q2 = c2 * q,
           a2 * q2 - c2 * p2 <= far * p2 * q2
    PROVE  a * q - c * p <= far * p * q
<1> DEFINE s == p * q
           s2 == p2 * q2
<1>1. s \in Nat \ {0} /\ s2 \in Nat \ {0}
  OBVIOUS
<1>2. (a * q - c * p) * s2 = (a * p2) * (q * q2) - (c * q2) * (p * p2)
  OBVIOUS
<1>3. (a2 * p) * (q * q2) - (c2 * q) * (p * p2) = (a2 * q2 - c2 * p2) * s
  OBVIOUS
<1>4. (a * q - c * p) * s2 = (a2 * q2 - c2 * p2) * s
  BY <1>2, <1>3
<1>5. far * p * q = far * s /\ far * p2 * q2 = far * s2
  OBVIOUS
<1>6. (a2 * q2 - c2 * p2) \in Int /\ (a * q - c * p) \in Int /\ far * s \in Int
  OBVIOUS
<1>7. (a2 * q2 - c2 * p2) * s <= (far * s2) * s
  <2>1. ASSUME NEW m \in Int, NEW n \in Int, NEW d \in Nat \ {0}, m <= n
        PROVE  m * d <= n * d
    BY <2>1
  <2>2. far * s2 \in Int
    BY <1>1
  <2> HIDE DEF s, s2
  <2> QED
    BY <1>1, <1>5, <1>6, <2>1, <2>2
<1>8. (far * s2) * s = (far * s) * s2
  <2> HIDE DEF s, s2
  <2> QED BY <1>1
<1>9. (a * q - c * p) * s2 <= (far * s) * s2
  BY <1>4, <1>7, <1>8
<1> HIDE DEF s, s2
<1>10. a * q - c * p <= far * s
  BY <1>1, <1>6, <1>9, Cancel
<1> QED
  BY <1>5, <1>10

LEMMA WithinSame ==
    ASSUME NEW x, NEW y, NEW x2, NEW y2, NEW far \in Int,
           Fraction(x), Fraction(y), Fraction(x2), Fraction(y2),
           SamePlace(x, x2), SamePlace(y, y2), Within(x2, y2, far)
    PROVE  Within(x, y, far)
<1>1. /\ x.num \in Int /\ y.num \in Int /\ x2.num \in Int /\ y2.num \in Int
      /\ x.den \in Nat \ {0} /\ y.den \in Nat \ {0}
      /\ x2.den \in Nat \ {0} /\ y2.den \in Nat \ {0}
  BY DEF Fraction
<1>2. /\ x.num * x2.den = x2.num * x.den
      /\ y.num * y2.den = y2.num * y.den
  BY DEF SamePlace
<1>3. /\ x2.num * y2.den \in Int /\ y2.num * x2.den \in Int
      /\ far * x2.den * y2.den \in Int /\ far * y2.den * x2.den = far * x2.den * y2.den
      /\ x.num * y.den \in Int /\ y.num * x.den \in Int
      /\ far * x.den * y.den \in Int /\ far * y.den * x.den = far * x.den * y.den
  BY <1>1
<1>4. /\ x2.num * y2.den - y2.num * x2.den <= far * x2.den * y2.den
      /\ y2.num * x2.den - x2.num * y2.den <= far * y2.den * x2.den
  BY <1>3, DistanceAtMost DEF Within
<1>5. x.num * y.den - y.num * x.den <= far * x.den * y.den
  BY <1>1, <1>2, <1>4, EqualFractions
<1>6. y.num * x.den - x.num * y.den <= far * y.den * x.den
  BY <1>1, <1>2, <1>4, EqualFractions
<1> QED
  BY <1>3, <1>5, <1>6, DistanceAtMost DEF Within

LEMMA WithinItself ==
    ASSUME NEW x, Fraction(x), NEW far \in Nat
    PROVE  Within(x, x, far)
<1>1. x.num * x.den \in Int /\ far * x.den * x.den \in Nat
  BY DEF Fraction
<1> QED
  BY <1>1 DEF Within, Distance

(* A tick further on a segment, or on the line beyond the latest sample.    *)
LEMMA LerpStep ==
    ASSUME NEW x, NEW y, x.state.pos \in Int, y.state.pos \in Int,
           x.tick \in Nat, y.tick \in Nat, x.tick < y.tick, NEW t \in Nat,
           NEW pace \in Nat,
           Distance(x.state.pos, y.state.pos) <= pace * (y.tick - x.tick)
    PROVE  /\ Fraction(Lerp(x, y, t)) /\ Fraction(Lerp(x, y, t + 1))
           /\ Within(Lerp(x, y, t), Lerp(x, y, t + 1), pace)
<1> DEFINE d == y.tick - x.tick
           way == y.state.pos - x.state.pos
           m == Lerp(x, y, t).num
           n == Lerp(x, y, t + 1).num
<1>1. d \in Nat \ {0} /\ way \in Int /\ pace * d \in Nat
  OBVIOUS
<1>2. /\ m \in Int /\ n \in Int
      /\ Lerp(x, y, t).den = d /\ Lerp(x, y, t + 1).den = d
  BY DEF Lerp
<1>3. n = m + way
  <2>1. ASSUME NEW w \in Int, NEW k \in Int PROVE w * (k + 1) = w * k + w
    OBVIOUS
  <2>2. t + 1 - x.tick = (t - x.tick) + 1 /\ t - x.tick \in Int
    OBVIOUS
  <2>3. way * (t + 1 - x.tick) = way * (t - x.tick) + way
    <3> HIDE DEF way
    <3> QED BY <1>1, <2>1, <2>2
  <2>4. x.state.pos * d \in Int /\ way * (t - x.tick) \in Int
    BY <1>1
  <2>5. \A k : Lerp(x, y, k).num = x.state.pos * d + way * (k - x.tick)
    BY DEF Lerp
  <2>6. /\ m = x.state.pos * d + way * (t - x.tick)
        /\ n = x.state.pos * d + way * (t + 1 - x.tick)
    BY <2>5
  <2> HIDE DEF d, way, m, n
  <2> QED
    BY <1>1, <2>3, <2>4, <2>6
<1>4. way <= pace * d /\ -way <= pace * d
  BY <1>1, DistanceAtMost
<1> HIDE DEF d, way, m, n
<1>5. ASSUME NEW w \in Int, w <= pace * d PROVE w * d <= pace * d * d
  <2>1. ASSUME NEW k \in Int, w <= k PROVE w * d <= k * d
    BY <1>1, <2>1
  <2> QED
    BY <1>1, <1>5, <2>1
<1>6. way * d <= pace * d * d /\ (-way) * d <= pace * d * d
  BY <1>1, <1>4, <1>5
<1>7. n * d - m * d = way * d /\ m * d - n * d = (-way) * d
      /\ m * d \in Int /\ n * d \in Int /\ pace * d * d \in Int
  BY <1>1, <1>2, <1>3
<1>8. Distance(m * d, n * d) <= pace * d * d
  BY <1>6, <1>7, DistanceAtMost
<1> QED
  BY <1>1, <1>2, <1>8 DEF Within, Fraction, m, n

LEMMA ExtrapolateStep ==
    ASSUME NEW x, x.state.pos \in Int, x.state.vel \in Int, NEW ahead \in Nat,
           NEW pace \in Nat, Distance(0, x.state.vel) <= pace
    PROVE  /\ Fraction(Extrapolate(x, ahead)) /\ Fraction(Extrapolate(x, ahead + 1))
           /\ Within(Extrapolate(x, ahead), Extrapolate(x, ahead + 1), pace)
<1> DEFINE v == x.state.vel
           m == Extrapolate(x, ahead).num
           n == Extrapolate(x, ahead + 1).num
<1>1. m \in Int /\ n \in Int /\ n = m + v
      /\ Extrapolate(x, ahead).den = 1 /\ Extrapolate(x, ahead + 1).den = 1
  <2>1. v * (ahead + 1) = v * ahead + v /\ v * ahead \in Int
    <3>1. ASSUME NEW w \in Int PROVE w * (ahead + 1) = w * ahead + w /\ w * ahead \in Int
      OBVIOUS
    <3> QED
      BY <3>1
  <2>2. \A k : /\ Extrapolate(x, k).num = x.state.pos + v * k
               /\ Extrapolate(x, k).den = 1
    BY DEF Extrapolate
  <2>3. m = x.state.pos + v * ahead /\ n = x.state.pos + v * (ahead + 1)
    BY <2>2
  <2> HIDE DEF v, m, n
  <2>4. v \in Int
    BY DEF v
  <2> QED
    BY <2>1, <2>2, <2>3, <2>4
<1>2. v <= pace /\ -v <= pace
  BY DEF Distance
<1> HIDE DEF v, m, n
<1>3. m * 1 = m /\ n * 1 = n /\ pace * 1 * 1 = pace /\ v \in Int
  BY <1>1 DEF v
<1>4. Distance(m * 1, n * 1) <= pace * 1 * 1
  BY <1>1, <1>2, <1>3 DEF Distance
<1> QED
  BY <1>1, <1>4 DEF Within, Fraction, m, n

(* The three lines a rendering can be on.                                   *)
LEMMA OnSegment ==
    ASSUME NEW b, Buffer(b), NEW r \in Nat, NEW i \in 1..(Len(b) - 1),
           b[i].tick <= Target(r), Target(r) <= b[i + 1].tick
    PROVE  /\ SamePlace(Rendered(b, r), Lerp(b[i], b[i + 1], Target(r)))
           /\ Fraction(Rendered(b, r))
<1> DEFINE t == Target(r)
           here == Lerp(b[i], b[i + 1], t)
<1>1. /\ Len(b) \in Nat /\ i \in Int /\ Len(b) # 1 /\ t \in Nat
      /\ i \in 1..Len(b) /\ i + 1 \in 1..Len(b)
  <2>1. Len(b) \in Nat
    BY DEF Buffer
  <2>2. t \in Nat
    BY TargetTyped
  <2> QED
    BY <2>1, <2>2
<1>2. /\ b[i].tick \in Nat /\ b[i + 1].tick \in Nat /\ b[i].tick < b[i + 1].tick
      /\ b[i].state.pos \in Int /\ b[i + 1].state.pos \in Int
  <2>1. b[i].tick < b[i + 1].tick
    BY <1>1 DEF Buffer, Sorted
  <2> QED
    BY <1>1, <2>1, SampleTyped
<1>3. Fraction(here)
  <2>1. here.num \in Int /\ here.den \in Nat \ {0}
    <3> DEFINE x == b[i]
               y == b[i + 1]
    <3>1. /\ x.tick \in Int /\ y.tick \in Int /\ x.tick < y.tick /\ t \in Int
          /\ x.state.pos \in Int /\ y.state.pos \in Int
      BY <1>1, <1>2
    <3> HIDE DEF x, y, t
    <3>2. Lerp(x, y, t).num \in Int /\ Lerp(x, y, t).den \in Nat \ {0}
      BY <3>1, LerpTyped
    <3> QED
      BY <3>2 DEF x, y, t
  <2> QED
    BY <2>1 DEF Fraction
<1>4. ASSUME NEW j \in {i, i + 1}, t = b[j].tick
      PROVE  SamePlace(Rendered(b, r), here) /\ Fraction(Rendered(b, r))
  <2>1. j \in 1..Len(b) /\ b[j].state.pos \in Int
    BY <1>1, <1>2
  <2>2. SamePlace(Rendered(b, r), Exactly(b[j])) /\ Fraction(Rendered(b, r))
    <3>1. Rendered(b, r).num \in Int /\ Rendered(b, r).den \in Nat \ {0}
      BY <1>4, <2>1, RenderedAtSample
    <3>2. SamePlace(Rendered(b, r), Exactly(b[j]))
      BY <1>4, <2>1, RenderedAtSample
    <3> QED
      BY <3>1, <3>2 DEF Fraction
  <2>3. SamePlace(here, Exactly(b[j]))
    <3> DEFINE x == b[i]
               y == b[i + 1]
    <3>1. /\ x.tick \in Int /\ y.tick \in Int
          /\ x.state.pos \in Int /\ y.state.pos \in Int
      BY <1>2
    <3>2. \/ t = x.tick /\ b[j] = x
          \/ t = y.tick /\ b[j] = y
      BY <1>4
    <3> HIDE DEF x, y, t
    <3>3. /\ SamePlace(Lerp(x, y, x.tick), Exactly(x))
          /\ SamePlace(Lerp(x, y, y.tick), Exactly(y))
      BY <3>1, LerpAtEnds
    <3>4. SamePlace(Lerp(x, y, t), Exactly(b[j]))
      BY <3>2, <3>3
    <3> QED
      BY <3>4 DEF x, y, t
  <2> HIDE DEF here, t
  <2> QED
    BY <1>3, <2>1, <2>2, <2>3, SamePlaceThrough DEF Fraction
<1>5. ASSUME b[i].tick < t, t < b[i + 1].tick
      PROVE  SamePlace(Rendered(b, r), here) /\ Fraction(Rendered(b, r))
  <2>1. Spans(b, t) = {i}
    BY <1>1, <1>5, SpansInside
  <2>2. Rendered(b, r) = here
    BY <1>1, <2>1, RenderedOnOneSpan
  <2> QED
    BY <1>3, <2>2 DEF SamePlace
<1> QED
  BY <1>1, <1>2, <1>4, <1>5

LEMMA NoSpanBeyond ==
    ASSUME NEW b, Buffer(b), b # <<>>, NEW target \in Nat,
           target < b[1].tick \/ b[Len(b)].tick < target
    PROVE  Spans(b, target) = {}
<1> SUFFICES ASSUME NEW k \in Spans(b, target) PROVE FALSE
  OBVIOUS
<1>1. k \in 1..(Len(b) - 1) /\ b[k].tick <= target /\ target <= b[k + 1].tick
  BY DEF Spans
<1>2. /\ Len(b) \in Nat \ {0} /\ k \in 1..Len(b) /\ k + 1 \in 1..Len(b)
      /\ 1 \in 1..Len(b) /\ Len(b) \in 1..Len(b)
  BY <1>1 DEF Buffer
<1>3. \A j \in 1..Len(b) : b[j].tick \in Nat
  BY SampleTyped
<1>4. b[1].tick <= b[k].tick /\ b[k + 1].tick <= b[Len(b)].tick
  <2>1. k # 1 => b[1].tick < b[k].tick
    BY <1>2 DEF Buffer, Sorted
  <2>2. k + 1 # Len(b) => b[k + 1].tick < b[Len(b)].tick
    BY <1>2 DEF Buffer, Sorted
  <2> QED
    BY <1>2, <1>3, <2>1, <2>2
<1> QED
  BY <1>1, <1>2, <1>3, <1>4

LEMMA OnExtrapolation ==
    ASSUME NEW b, Buffer(b), NEW r \in Nat, Len(b) > 1,
           b[Len(b)].tick <= Target(r),
           Target(r) <= b[Len(b)].tick + MaxExtrapolation
    PROVE  /\ SamePlace(Rendered(b, r), Extrapolate(b[Len(b)], Target(r) - b[Len(b)].tick))
           /\ Fraction(Rendered(b, r))
<1> DEFINE t == Target(r)
           last == b[Len(b)]
<1>1. Len(b) \in Nat /\ Len(b) # 1 /\ b # <<>> /\ Len(b) \in 1..Len(b) /\ t \in Nat
  BY TargetTyped DEF Buffer
<1>2. last.tick \in Nat /\ last.state.pos \in Int /\ last.state.vel \in Int
  BY <1>1, SampleTyped
<1>3. CASE t = last.tick
  <2>1. SamePlace(Rendered(b, r), Exactly(last)) /\ Fraction(Rendered(b, r))
    BY <1>1, <1>3, RenderedAtSample DEF Fraction
  <2>2. Extrapolate(last, t - last.tick).num = last.state.pos
        /\ Extrapolate(last, t - last.tick).den = 1
    <3>1. t - last.tick = 0 /\ last.state.pos + last.state.vel * 0 = last.state.pos
      BY <1>2, <1>3
    <3> QED
      BY <3>1 DEF Extrapolate
  <2> HIDE DEF t, last
  <2> QED
    BY <2>1, <2>2 DEF SamePlace, Exactly, t, last
<1>4. CASE t > last.tick
  <2>1. Spans(b, t) = {}
    BY <1>1, <1>4, NoSpanBeyond
  <2>2. ~FarAhead(last, t)
    BY <1>1, <1>2, InterpolationAssumption DEF FarAhead
  <2>3. Rendered(b, r) = Extrapolate(last, t - last.tick)
    BY <1>1, <1>4, <2>1, <2>2 DEF Rendered
  <2>4. Fraction(Extrapolate(last, t - last.tick))
    BY <1>1, <1>2 DEF Extrapolate, Fraction
  <2> QED
    BY <2>3, <2>4 DEF SamePlace
<1> QED
  BY <1>1, <1>2, <1>3, <1>4

LEMMA AtOldest ==
    ASSUME NEW b, Buffer(b), NEW r \in Nat, b # <<>>,
           \/ Len(b) = 1
           \/ Target(r) <= b[1].tick
           \/ Target(r) > b[Len(b)].tick + MaxExtrapolation
    PROVE  SamePlace(Rendered(b, r), Exactly(b[1])) /\ Fraction(Rendered(b, r))
<1> DEFINE t == Target(r)
           last == b[Len(b)]
<1>1. /\ Len(b) \in Nat \ {0} /\ 1 \in 1..Len(b) /\ Len(b) \in 1..Len(b)
      /\ t \in Nat
  BY TargetTyped DEF Buffer
<1>2. last.tick \in Nat /\ b[1].tick \in Nat /\ b[1].state.pos \in Int
  BY <1>1, SampleTyped
<1>3. Fraction(Exactly(b[1])) /\ SamePlace(Exactly(b[1]), Exactly(b[1]))
  BY <1>2 DEF Fraction, Exactly, SamePlace
<1>4. CASE Len(b) = 1
  BY <1>3, <1>4 DEF Rendered
<1>5. CASE Len(b) # 1 /\ t = b[1].tick
  BY <1>1, <1>5, RenderedAtSample DEF Fraction
<1>6. CASE Len(b) # 1 /\ (t < b[1].tick \/ t > last.tick + MaxExtrapolation)
  <2>1. MaxExtrapolation \in Nat
    BY InterpolationAssumption
  <2>2. b[1].tick <= last.tick
    BY <1>1, <1>2 DEF Buffer, Sorted
  <2>3. t < b[1].tick \/ last.tick < t
    BY <1>1, <1>2, <1>6, <2>1
  <2>4. Spans(b, t) = {}
    BY <1>1, <2>3, NoSpanBeyond
  <2>5. ~(t > last.tick /\ ~FarAhead(last, t))
    BY <1>1, <1>2, <1>6, <2>1, <2>2 DEF FarAhead
  <2>6. Rendered(b, r) = Exactly(b[1])
    BY <1>6, <2>4, <2>5 DEF Rendered
  <2> QED
    BY <1>3, <2>6
<1> QED
  BY <1>1, <1>2, <1>4, <1>5, <1>6

LEMMA DistanceSum ==
    ASSUME NEW x \in Int, NEW y \in Int, NEW z \in Int, NEW f \in Int, NEW g \in Int,
           Distance(x, y) <= f, Distance(y, z) <= g
    PROVE  Distance(x, z) <= f + g /\ Distance(z, x) <= f + g
  BY DEF Distance

LEMMA Distribute ==
    ASSUME NEW k \in Int, NEW x \in Int, NEW y \in Int
    PROVE  k * (x + y) = k * x + k * y /\ k * x \in Int /\ k * y \in Int
  OBVIOUS

(* A steady buffer goes no further from its oldest sample than its pace.    *)
LEMMA SteadyTravel ==
    ASSUME NEW b, Buffer(b), NEW pace \in Nat, Steady(b, pace), NEW n \in 1..Len(b)
    PROVE  Distance(b[1].state.pos, b[n].state.pos) <= pace * (b[n].tick - b[1].tick)
<1> DEFINE Near(k) == Distance(b[1].state.pos, b[k].state.pos)
                         <= pace * (b[k].tick - b[1].tick)
           Far == {k \in 1..Len(b) : ~Near(k)}
<1>1. Len(b) \in Nat /\ Far \in SUBSET Nat /\ 1 \in 1..Len(b)
  BY DEF Buffer
<1>2. \A k \in 1..Len(b) : b[k].tick \in Nat /\ b[k].state.pos \in Int
  BY SampleTyped
<1>3. Near(1)
  <2>1. b[1].tick - b[1].tick = 0 /\ pace * 0 = 0
    BY <1>1, <1>2
  <2>2. Distance(b[1].state.pos, b[1].state.pos) = 0
    BY <1>1, <1>2 DEF Distance
  <2> QED
    BY <2>1, <2>2
<1>4. ASSUME NEW k \in 1..(Len(b) - 1), Near(k) PROVE Near(k + 1)
  <2> DEFINE first == b[1]
             x == b[k]
             y == b[k + 1]
  <2>1. k \in 1..Len(b) /\ k + 1 \in 1..Len(b)
    BY <1>1
  <2>2. /\ first.tick \in Nat /\ x.tick \in Nat /\ y.tick \in Nat
        /\ first.state.pos \in Int /\ x.state.pos \in Int /\ y.state.pos \in Int
    BY <1>1, <1>2, <2>1
  <2>3. /\ Distance(first.state.pos, x.state.pos) <= pace * (x.tick - first.tick)
        /\ Distance(x.state.pos, y.state.pos) <= pace * (y.tick - x.tick)
    BY <1>4 DEF Steady
  <2> HIDE DEF first, x, y
  <2>4. /\ pace * (y.tick - first.tick) =
              pace * (x.tick - first.tick) + pace * (y.tick - x.tick)
        /\ pace * (x.tick - first.tick) \in Int /\ pace * (y.tick - x.tick) \in Int
    <3>1. /\ x.tick - first.tick \in Int /\ y.tick - x.tick \in Int
          /\ y.tick - first.tick = (x.tick - first.tick) + (y.tick - x.tick)
      BY <2>2
    <3> QED
      BY <3>1, Distribute
  <2>5. Distance(first.state.pos, y.state.pos) <= pace * (y.tick - first.tick)
    BY <2>2, <2>3, <2>4, DistanceSum
  <2> QED
    BY <2>5 DEF first, y
<1> HIDE DEF Near
<1>5. Far = {}
  <2> SUFFICES ASSUME Far # {} PROVE FALSE
    OBVIOUS
  <2>1. PICK m \in Far : \A k \in Far : m <= k
    BY <1>1, Least
  <2>2. m \in 1..Len(b) /\ ~Near(m) /\ m # 1
    BY <1>3, <2>1
  <2>3. m - 1 \in 1..(Len(b) - 1) /\ (m - 1) + 1 = m /\ m - 1 \notin Far
    BY <1>1, <2>1, <2>2
  <2>4. Near(m - 1)
    BY <1>1, <2>3
  <2> QED
    BY <1>4, <2>2, <2>3, <2>4
<1> QED
  BY <1>5 DEF Near

(* Past the limit he is at most as far off as he can have come since.       *)
LEMMA JumpBack ==
    ASSUME NEW b, Buffer(b), b # <<>>, NEW pace \in Nat, Steady(b, pace),
           NEW ahead \in Nat
    PROVE  /\ Fraction(Extrapolate(b[Len(b)], ahead)) /\ Fraction(Exactly(b[1]))
           /\ Within(Extrapolate(b[Len(b)], ahead), Exactly(b[1]),
                     pace * (b[Len(b)].tick - b[1].tick + ahead))
<1> DEFINE last == b[Len(b)]
           first == b[1]
           m == Extrapolate(last, ahead).num
           far == pace * (last.tick - first.tick + ahead)
<1>1. Len(b) \in Nat /\ 1 \in 1..Len(b) /\ Len(b) \in 1..Len(b)
  BY DEF Buffer
<1>2. /\ last.tick \in Nat /\ last.state.pos \in Int /\ last.state.vel \in Int
      /\ first.tick \in Nat /\ first.state.pos \in Int
  BY <1>1, SampleTyped
<1>3. /\ Distance(first.state.pos, last.state.pos) <= pace * (last.tick - first.tick)
      /\ Distance(0, last.state.vel) <= pace
  BY <1>1, SteadyTravel DEF Steady
<1>4. /\ m = last.state.pos + last.state.vel * ahead
      /\ Extrapolate(last, ahead).den = 1
      /\ Exactly(first).num = first.state.pos /\ Exactly(first).den = 1
  BY DEF Extrapolate, Exactly
<1> HIDE DEF last, first, m
<1>5. /\ last.state.vel * ahead <= pace * ahead
      /\ -(last.state.vel * ahead) <= pace * ahead
      /\ last.state.vel * ahead \in Int /\ pace * ahead \in Nat
  <2>1. last.state.vel <= pace /\ -last.state.vel <= pace
    BY <1>2, <1>3 DEF Distance
  <2>2. ASSUME NEW w \in Int, w <= pace PROVE w * ahead <= pace * ahead /\ w * ahead \in Int
    BY <2>2
  <2>3. (-last.state.vel) * ahead = -(last.state.vel * ahead)
    BY <1>2
  <2> QED
    BY <1>2, <2>1, <2>2, <2>3
<1>6. /\ far = pace * (last.tick - first.tick) + pace * ahead
      /\ pace * (last.tick - first.tick) \in Int
  BY <1>2
<1> HIDE DEF far
<1>7. /\ Distance(m, first.state.pos) <= far
      /\ m \in Int /\ far \in Int
  <2> DEFINE f == pace * (last.tick - first.tick)
             g == pace * ahead
             h == last.state.vel * ahead
  <2>1. /\ f \in Int /\ g \in Int /\ h \in Int /\ far = f + g
        /\ h <= g /\ -h <= g /\ m = last.state.pos + h
        /\ Distance(first.state.pos, last.state.pos) <= f
    BY <1>3, <1>4, <1>5, <1>6
  <2> HIDE DEF f, g, h
  <2>2. m \in Int /\ far \in Int
    BY <1>2, <2>1
  <2>3. Distance(last.state.pos, m) <= g
    BY <1>2, <2>1 DEF Distance
  <2> QED
    BY <1>2, <2>1, <2>2, <2>3, DistanceSum
<1>8. Distance(m * 1, first.state.pos * 1) <= far * 1 * 1
  <2>1. m * 1 = m /\ first.state.pos * 1 = first.state.pos /\ far * 1 * 1 = far
    BY <1>2, <1>7
  <2> QED
    BY <1>7, <2>1
<1> QED
  BY <1>2, <1>4, <1>7, <1>8 DEF Within, Fraction, last, first, m, far

(* From one tick to the next, on any sorted and steady buffer.              *)
LEMMA LeapsNowhereElse ==
    ASSUME NEW b, Buffer(b), b # <<>>, NEW pace \in Nat, Steady(b, pace), NEW r \in Nat
    PROVE  Within(Rendered(b, r), Rendered(b, r + 1),
                  IF LastExtrapolated(b, Target(r))
                  THEN pace * (b[Len(b)].tick - b[1].tick + MaxExtrapolation)
                  ELSE pace)
<1> DEFINE t == Target(r)
           first == b[1].tick
           last == b[Len(b)].tick
           far == IF LastExtrapolated(b, t) THEN pace * (last - first + MaxExtrapolation)
                  ELSE pace
<1>1. /\ Len(b) \in Nat \ {0} /\ 1 \in 1..Len(b) /\ Len(b) \in 1..Len(b)
      /\ MaxExtrapolation \in Nat
  BY InterpolationAssumption DEF Buffer
<1>2. /\ first \in Nat /\ last \in Nat /\ first <= last
      /\ \A k \in 1..Len(b) : b[k].tick \in Nat /\ b[k].state.pos \in Int
                              /\ b[k].state.vel \in Int
  <2>1. \A k \in 1..Len(b) : b[k].tick \in Nat /\ b[k].state.pos \in Int
                              /\ b[k].state.vel \in Int
    BY SampleTyped
  <2>2. first = last \/ first < last
    BY <1>1 DEF Buffer, Sorted
  <2> QED
    BY <1>1, <2>1, <2>2
<1>3. t \in Nat /\ r + 1 \in Nat /\ Target(r + 1) \in {t, t + 1}
  <2>1. Target(r + 1) \in {t, t + 1}
    BY InterpolationAssumption DEF Target
  <2> QED
    BY <2>1, TargetTyped
<1>4. far \in Nat
  <2>1. last - first + MaxExtrapolation \in Nat
    BY <1>1, <1>2
  <2> QED
    BY <2>1
<1> HIDE DEF t, first, last, far
<1>5. ASSUME NEW x, NEW y, NEW f \in Int, Fraction(x), Fraction(y), Within(x, y, f),
             SamePlace(Rendered(b, r), x), Fraction(Rendered(b, r)),
             SamePlace(Rendered(b, r + 1), y), Fraction(Rendered(b, r + 1)), f = far
      PROVE  Within(Rendered(b, r), Rendered(b, r + 1), far)
  BY <1>5, WithinSame
\* Before the oldest sample, with no other, or past the limit: nobody moves.
<1>6. ASSUME \/ Len(b) = 1
             \/ Target(r + 1) <= first
             \/ t > last + MaxExtrapolation
      PROVE  Within(Rendered(b, r), Rendered(b, r + 1), far)
  <2>1. /\ Len(b) = 1 \/ t <= first \/ t > last + MaxExtrapolation
        /\ \/ Len(b) = 1
           \/ Target(r + 1) <= first
           \/ Target(r + 1) > last + MaxExtrapolation
    BY <1>1, <1>2, <1>3, <1>6
  <2>2. SamePlace(Rendered(b, r), Exactly(b[1])) /\ Fraction(Rendered(b, r))
    BY <2>1, AtOldest DEF first, last, t
  <2>3. SamePlace(Rendered(b, r + 1), Exactly(b[1])) /\ Fraction(Rendered(b, r + 1))
    BY <1>3, <2>1, AtOldest DEF first, last
  <2>4. Fraction(Exactly(b[1]))
    BY <1>1, <1>2 DEF Fraction, Exactly
  <2> QED
    BY <1>4, <1>5, <2>2, <2>3, <2>4, WithinItself
\* Between two samples.
<1>7. ASSUME Len(b) > 1, Target(r + 1) = t + 1, first <= t, t < last
      PROVE  Within(Rendered(b, r), Rendered(b, r + 1), far)
  <2>1. PICK i \in 1..Len(b) :
          \/ b[i].tick = t
          \/ i \in 1..(Len(b) - 1) /\ b[i].tick < t /\ t < b[i + 1].tick
    <3>1. b[1].tick <= t /\ t <= b[Len(b)].tick
      BY <1>2, <1>3, <1>7 DEF first, last
    <3> QED
      BY <1>1, <1>3, <3>1, Segment
  <2>2. i \in 1..(Len(b) - 1) /\ i + 1 \in 1..Len(b)
    BY <1>1, <1>2, <1>7, <2>1 DEF last
  <2>3. b[i].tick <= t /\ t < b[i + 1].tick
    <3>1. b[i].tick < b[i + 1].tick
      BY <1>1, <2>2 DEF Buffer, Sorted
    <3> QED
      BY <1>2, <1>3, <2>1, <2>2, <3>1
  <2> DEFINE x == b[i]
             y == b[i + 1]
  <2>4. /\ x.tick \in Nat /\ y.tick \in Nat /\ x.tick < y.tick
        /\ x.state.pos \in Int /\ y.state.pos \in Int
        /\ Distance(x.state.pos, y.state.pos) <= pace * (y.tick - x.tick)
    BY <1>2, <1>3, <2>1, <2>2, <2>3 DEF Steady
  <2>5. /\ SamePlace(Rendered(b, r), Lerp(x, y, t))
        /\ Fraction(Rendered(b, r))
    <3>1. b[i].tick <= Target(r) /\ Target(r) <= b[i + 1].tick
      BY <1>2, <1>3, <2>2, <2>3, <2>4 DEF t
    <3> QED
      BY <2>2, <3>1, OnSegment DEF t
  <2>6. b[i].tick <= t + 1 /\ t + 1 <= b[i + 1].tick
    BY <1>2, <1>3, <2>2, <2>3, <2>4
  <2>7. /\ SamePlace(Rendered(b, r + 1), Lerp(x, y, t + 1))
        /\ Fraction(Rendered(b, r + 1))
    BY <1>3, <1>7, <2>2, <2>6, OnSegment
  <2> HIDE DEF x, y
  <2>8. /\ Fraction(Lerp(x, y, t)) /\ Fraction(Lerp(x, y, t + 1))
        /\ Within(Lerp(x, y, t), Lerp(x, y, t + 1), pace)
    BY <1>3, <2>4, LerpStep
  <2>9. far = pace
    BY <1>1, <1>2, <1>3, <1>7 DEF far, LastExtrapolated, last
  <2> QED
    BY <1>5, <2>5, <2>7, <2>8, <2>9
\* Beyond the latest, up to the limit.
<1>8. ASSUME Len(b) > 1, Target(r + 1) = t + 1, last <= t, t < last + MaxExtrapolation
      PROVE  Within(Rendered(b, r), Rendered(b, r + 1), far)
  <2> DEFINE x == b[Len(b)]
             ahead == t - last
  <2>1. /\ x.state.pos \in Int /\ x.state.vel \in Int /\ ahead \in Nat
        /\ Distance(0, x.state.vel) <= pace /\ t + 1 - last = ahead + 1
    BY <1>1, <1>2, <1>3, <1>8 DEF Steady
  <2>2. /\ SamePlace(Rendered(b, r), Extrapolate(x, ahead))
        /\ Fraction(Rendered(b, r))
    BY <1>1, <1>2, <1>3, <1>8, OnExtrapolation DEF t, last
  <2>3. /\ SamePlace(Rendered(b, r + 1), Extrapolate(x, t + 1 - last))
        /\ Fraction(Rendered(b, r + 1))
    <3>1. /\ b[Len(b)].tick <= Target(r + 1)
          /\ Target(r + 1) <= b[Len(b)].tick + MaxExtrapolation
      BY <1>1, <1>2, <1>3, <1>8 DEF last
    <3> DEFINE s == r + 1
    <3>2. s \in Nat /\ Len(b) > 1
      BY <1>3, <1>8
    <3>3. b[Len(b)].tick <= Target(s) /\ Target(s) <= b[Len(b)].tick + MaxExtrapolation
      BY <3>1
    <3> HIDE DEF s
    <3>4. /\ SamePlace(Rendered(b, s), Extrapolate(b[Len(b)], Target(s) - b[Len(b)].tick))
          /\ Fraction(Rendered(b, s))
      BY <3>2, <3>3, OnExtrapolation
    <3>5. Target(s) = t + 1
      BY <1>8 DEF s
    <3>6. /\ SamePlace(Rendered(b, s), Extrapolate(b[Len(b)], t + 1 - b[Len(b)].tick))
          /\ Fraction(Rendered(b, s))
      <4>1. Target(s) - b[Len(b)].tick = t + 1 - b[Len(b)].tick
        <5>1. Target(s) - last = t + 1 - last
          BY <1>2, <1>3, <3>5
        <5> QED
          BY <5>1 DEF last
      <4> QED
        BY <3>4, <4>1
    <3> QED
      BY <3>6 DEF s, last
  <2> HIDE DEF x, ahead
  <2>4. /\ Fraction(Extrapolate(x, ahead)) /\ Fraction(Extrapolate(x, ahead + 1))
        /\ Within(Extrapolate(x, ahead), Extrapolate(x, ahead + 1), pace)
    BY <2>1, ExtrapolateStep
  <2>5. far = pace
    BY <1>1, <1>2, <1>3, <1>8 DEF far, LastExtrapolated, last
  <2> QED
    BY <1>5, <2>1, <2>2, <2>3, <2>4, <2>5
\* At the limit.
<1>9. ASSUME Len(b) > 1, Target(r + 1) = t + 1, t = last + MaxExtrapolation
      PROVE  Within(Rendered(b, r), Rendered(b, r + 1), far)
  <2> DEFINE x == b[Len(b)]
  <2>1. /\ SamePlace(Rendered(b, r), Extrapolate(x, MaxExtrapolation))
        /\ Fraction(Rendered(b, r))
    <3>1. t - last = MaxExtrapolation /\ last <= t /\ t <= last + MaxExtrapolation
      BY <1>1, <1>2, <1>9
    <3>2. SamePlace(Rendered(b, r), Extrapolate(x, t - last)) /\ Fraction(Rendered(b, r))
      BY <1>9, <3>1, OnExtrapolation DEF t, last
    <3> QED
      BY <3>1, <3>2
  <2>2. SamePlace(Rendered(b, r + 1), Exactly(b[1])) /\ Fraction(Rendered(b, r + 1))
    <3>1. Target(r + 1) > last + MaxExtrapolation
      BY <1>1, <1>2, <1>9
    <3> QED
      BY <1>3, <3>1, AtOldest DEF last
  <2>3. far = pace * (last - first + MaxExtrapolation)
    BY <1>9 DEF far, LastExtrapolated, last
  <2>4. /\ Fraction(Extrapolate(x, MaxExtrapolation)) /\ Fraction(Exactly(b[1]))
        /\ Within(Extrapolate(x, MaxExtrapolation), Exactly(b[1]), far)
    BY <1>1, <2>3, JumpBack DEF last, first
  <2> QED
    BY <1>4, <1>5, <2>1, <2>2, <2>4
<1>10. \/ Len(b) = 1 \/ Target(r + 1) <= first \/ t > last + MaxExtrapolation
       \/ /\ Len(b) > 1 /\ Target(r + 1) = t + 1
          /\ \/ first <= t /\ t < last
             \/ last <= t /\ t < last + MaxExtrapolation
             \/ t = last + MaxExtrapolation
  <2>1. Target(r + 1) = t => Target(r + 1) = 0
    BY InterpolationAssumption DEF Target, t
  <2>2. CASE Target(r + 1) = t
    BY <1>2, <2>1, <2>2
  <2>3. CASE Target(r + 1) = t + 1 /\ Len(b) # 1
    <3>1. CASE t < first
      BY <1>2, <1>3, <2>3, <3>1
    <3>2. CASE first <= t
      <4>1. Len(b) > 1 /\ last + MaxExtrapolation \in Nat
        <5>1. Len(b) >= 1 /\ Len(b) \in Nat
          BY <1>1
        <5>2. Len(b) > 1
          BY <2>3, <5>1
        <5> QED
          BY <1>1, <1>2, <5>2
      <4>2. \/ t < last
            \/ last <= t /\ t < last + MaxExtrapolation
            \/ t = last + MaxExtrapolation
            \/ t > last + MaxExtrapolation
        BY <1>2, <1>3, <4>1
      <4> QED
        BY <2>3, <3>2, <4>1, <4>2
    <3> QED
      BY <1>2, <1>3, <3>1, <3>2
  <2> QED
    BY <1>3, <2>2, <2>3
<1>11. Within(Rendered(b, r), Rendered(b, r + 1), far)
  BY <1>6, <1>7, <1>8, <1>9, <1>10
<1> QED
  BY <1>11 DEF far, t, first, last

-----------------------------------------------------------------------------
(* push_snapshot leaves the buffer, appends to it, or also drops the oldest.*)
LEMMA PushShifts ==
    ASSUME Inv, NEW p \in Player, NEW snapshot \in broadcast
    PROVE  \E d \in {0, 1} :
              /\ Len(Pushed(p, snapshot)) >= Len(buffers[p]) - d
              /\ \A k \in 1..(Len(buffers[p]) - d) :
                    Pushed(p, snapshot)[k] = buffers[p][k + d]
<1> DEFINE b == buffers[p]
           sample == [tick |-> snapshot.serverTick, state |-> snapshot.players[p]]
           longer == Append(b, sample)
<1>1. b \in Seq(Sample) /\ Len(b) \in Nat
  BY DEF Inv, TypeOK
<1>2. /\ Len(longer) = Len(b) + 1
      /\ \A k \in 1..Len(b) : longer[k] = b[k]
      /\ longer # <<>>
  BY <1>1
<1>3. /\ Len(Tail(longer)) = Len(b)
      /\ \A k \in 1..(Len(b) - 1) : Tail(longer)[k] = b[k + 1]
  BY <1>1, <1>2
<1>4. Pushed(p, snapshot) \in {b, longer, Tail(longer)}
  BY DEF Pushed, Trimmed
<1>5. CASE Pushed(p, snapshot) \in {b, longer}
  <2>1. /\ Len(Pushed(p, snapshot)) >= Len(b) - 0
        /\ \A k \in 1..(Len(b) - 0) : Pushed(p, snapshot)[k] = b[k + 0]
    BY <1>1, <1>2, <1>5
  <2> QED BY <2>1
<1>6. CASE Pushed(p, snapshot) = Tail(longer)
  <2>1. /\ Len(Pushed(p, snapshot)) >= Len(b) - 1
        /\ \A k \in 1..(Len(b) - 1) : Pushed(p, snapshot)[k] = b[k + 1]
    BY <1>1, <1>3, <1>6
  <2> QED BY <2>1
<1> QED
  BY <1>4, <1>5, <1>6

(* At the tick of a sample a player is rendered where the server said he    *)
(* was, for every delay, capacity and order of snapshots.                   *)
THEOREM RenderedThroughSamples == Spec => []ThroughSamples
<1>1. Inv => ThroughSamples
  <2> SUFFICES ASSUME Inv, NEW p \in Player, NEW r \in RenderTicks,
                      NEW i \in DOMAIN buffers[p], buffers[p][i].tick = Target(r)
               PROVE  SamePlace(Rendered(buffers[p], r), Exactly(buffers[p][i]))
    BY DEF ThroughSamples
  <2>1. Buffer(buffers[p]) /\ i \in 1..Len(buffers[p])
    BY DEF Inv, TypeOK, Buffer
  <2>2. r \in Nat
    BY RenderTicksNatural
  <2> QED BY <2>1, <2>2, RenderedAtSample
<1> QED BY <1>1, Invariant, PTL

(* From one tick to the next nobody is rendered further than the fastest of *)
(* his samples goes, but for the step past the extrapolation limit.         *)
THEOREM NobodyLeaps == Spec => []NoLeap
<1>1. Inv => NoLeap
  <2> SUFFICES ASSUME Inv, NEW p \in Player, NEW r \in RenderTicks, NEW pace \in Paces,
                      buffers[p] # <<>>, Steady(buffers[p], pace)
               PROVE  Within(Rendered(buffers[p], r), Rendered(buffers[p], r + 1),
                             IF LastExtrapolated(buffers[p], Target(r))
                             THEN pace * (buffers[p][Len(buffers[p])].tick
                                             - buffers[p][1].tick + MaxExtrapolation)
                             ELSE pace)
    BY DEF NoLeap
  <2>1. Buffer(buffers[p])
    BY DEF Inv, TypeOK, Buffer
  <2>2. pace \in Nat
    BY InterpolationAssumption DEF Paces, Distance
  <2>3. r \in Nat
    BY RenderTicksNatural
  <2> QED
    BY <2>1, <2>2, <2>3, LeapsNowhereElse
<1> QED
  BY <1>1, Invariant, PTL

(* A push, of a new snapshot or a late one, leaves the past as it was drawn.*)
THEOREM PastIsStable == Spec => PastStable
<1>1. ASSUME Inv, [Next]_vars, NEW p \in Player, NEW r \in RenderTicks,
             Len(buffers[p]) > 1, Len(buffers[p]') > 1,
             buffers[p]'[1].tick <= Target(r),
             Target(r) <= buffers[p][Len(buffers[p])].tick
      PROVE  SamePlace(Rendered(buffers[p], r), Rendered(buffers[p]', r))
  <2>1. Inv'
    BY <1>1, NextInv
  <2>2. Buffer(buffers[p]) /\ Buffer(buffers'[p])
    BY <1>1, <2>1 DEF Inv, TypeOK, Buffer
  <2>3. r \in Nat
    BY RenderTicksNatural
  <2>4. \E d \in {0, 1} :
          /\ Len(buffers'[p]) >= Len(buffers[p]) - d
          /\ \A k \in 1..(Len(buffers[p]) - d) : buffers'[p][k] = buffers[p][k + d]
    <3>1. CASE \E snapshot \in broadcast : Push(snapshot)
      BY <1>1, <3>1, PushShifts DEF Push
    <3>2. CASE buffers' = buffers
      <4>1. Len(buffers[p]) \in Nat
        BY <2>2 DEF Buffer
      <4>2. /\ Len(buffers'[p]) >= Len(buffers[p]) - 0
            /\ \A k \in 1..(Len(buffers[p]) - 0) : buffers'[p][k] = buffers[p][k + 0]
        BY <3>2, <4>1
      <4> QED BY <4>2
    <3> QED BY <1>1, <3>1, <3>2 DEF Next, Broadcast, vars
  <2> QED
    BY <1>1, <2>2, <2>3, <2>4, ShiftedAgree
<1>2. Inv /\ [Next]_vars =>
        [\A p \in Player, r \in RenderTicks :
          (/\ Len(buffers[p]) > 1 /\ Len(buffers[p]') > 1
           /\ buffers[p]'[1].tick <= Target(r)
           /\ Target(r) <= buffers[p][Len(buffers[p])].tick) =>
              SamePlace(Rendered(buffers[p], r), Rendered(buffers[p]', r))]_vars
  BY <1>1
<1> QED
  BY <1>2, Invariant, PTL DEF Spec, PastStable
=============================================================================
