-------------------------- MODULE ReplicationProofs --------------------------
(***************************************************************************)
(* Proofs about Replication for every set of players, places on a line,    *)
(* speed, window, radius and delay of the network.                         *)
(*                                                                         *)
(* Everything follows from one fact about honest players: any two of the   *)
(* places the program has of a player (where he is, what a report says,    *)
(* what the server holds) are no further apart than he can get in the      *)
(* difference of their ages (Honest).                                      *)
(***************************************************************************)
EXTENDS ReplicationProperties, CodecProofs, FiniteSetTheorems, TLAPS

LEMMA Distances ==
    /\ \A p, q \in Int : Distance(p, q) \in Nat /\ Distance(p, q) = Distance(q, p)
    /\ \A p \in Int : Distance(p, p) = 0
    /\ \A p, q, r \in Int : Distance(p, r) <= Distance(p, q) + Distance(q, r)
  BY DEF Distance

LEMMA Gaps ==
    /\ \A m, n \in Nat : Gap(m, n) \in Nat /\ Gap(m, n) = Gap(n, m)
    /\ \A m \in Nat : Gap(m, m) = 0 /\ Gap(m, 0) = m /\ Gap(0, m) = m
    /\ \A m, n \in Nat : Gap(m + 1, n + 1) = Gap(m, n)
  BY DEF Gap

\* The way a player can go in a time.
LEMMA Ways ==
    /\ \A n \in Nat : Speed * n \in Nat /\ Speed * (n + 1) = Speed * n + Speed
    /\ Speed * 0 = 0
  BY ReplicationAssumption

(* After an instant's walk from a to b he is that much further from c.      *)
LEMMA Walked ==
    ASSUME NEW a \in Int, NEW b \in Int, NEW c \in Int, NEW n \in Nat,
           Distance(a, b) <= Speed, Distance(a, c) <= Speed * n
    PROVE  Distance(b, c) <= Speed * (n + 1)
<1>1. Speed * n \in Nat /\ Speed * (n + 1) = Speed * n + Speed /\ Speed \in Nat
  BY Ways, ReplicationAssumption
<1>2. Distance(b, c) <= Distance(a, b) + Distance(a, c)
  BY DEF Distance
<1>3. Distance(b, c) \in Nat /\ Distance(a, b) \in Nat /\ Distance(a, c) \in Nat
  BY Distances
<1> QED
  BY <1>1, <1>2, <1>3

LEMMA ReportTyped ==
    ASSUME TypeOK, NEW r \in reports
    PROVE  /\ r.player \in Player
           /\ r.place \in Place
           /\ r.place \in Int
           /\ r.age \in 0..MaxDelay
           /\ r.age \in Nat
<1>1. r \in [player : Player, place : Place, age : 0..MaxDelay]
  BY DEF TypeOK
<1>2. r.player \in Player /\ r.place \in Place /\ r.age \in 0..MaxDelay
  BY <1>1
<1>3. r.place \in Int
  BY <1>2, ReplicationAssumption
<1>4. r.age \in Nat
  BY <1>2
<1> QED
  BY <1>2, <1>3, <1>4

LEMMA HeldTyped ==
    ASSUME TypeOK, NEW p \in Player
    PROVE  /\ held[p].place \in Int
           /\ held[p].age \in 0..MaxAge
           /\ held[p].age \in Nat
           /\ at[p] \in Int
<1>1. held[p] \in Entry /\ at[p] \in Place
  BY DEF TypeOK
<1>2. held[p].place \in Place /\ held[p].age \in 0..MaxAge
  BY <1>1 DEF Entry, Age
<1>3. held[p].place \in Int /\ at[p] \in Int
  BY <1>1, <1>2, ReplicationAssumption
<1>4. held[p].age \in Nat
  BY <1>2
<1> QED
  BY <1>2, <1>3, <1>4

(* Every action keeps the types.                                            *)
LEMMA TypeInitial == Init => TypeOK
<1> SUFFICES ASSUME Init PROVE TypeOK
  OBVIOUS
<1>1. Synthetic \in Entry
  BY ReplicationAssumption DEF Synthetic, Entry, Age
<1> QED
  BY <1>1 DEF Init, TypeOK

LEMMA TypeNext == TypeOK /\ [Next]_vars => TypeOK'
<1> SUFFICES ASSUME TypeOK, [Next]_vars PROVE TypeOK'
  OBVIOUS
<1>1. ASSUME NEW p \in Player, SendReport(p) PROVE TypeOK'
  <2>1. [player |-> p, place |-> at[p], age |-> 0] \in
            [player : Player, place : Place, age : 0..MaxDelay]
    BY ReplicationAssumption DEF TypeOK
  <2> QED
    BY <1>1, <2>1 DEF SendReport, TypeOK
<1>2. ASSUME NEW r \in reports, ReceiveReport(r) PROVE TypeOK'
  <2>1. Adopted(r) \in Entry /\ r.player \in Player
    <3>1. r.age \in 0..MaxAge
      BY ReportTyped, ReplicationAssumption
    <3> QED
      BY <3>1, ReportTyped DEF Adopted, Entry, Age
  <2>2. held' \in [Player -> Entry] /\ initialized' \subseteq Player
    BY <1>2, <2>1 DEF ReceiveReport, TypeOK
  <2> QED
    BY <1>2, <2>2 DEF ReceiveReport, TypeOK
<1>3. ASSUME NEW reached \in SUBSET Viewer, Broadcast(reached) PROVE TypeOK'
  <2>1. \A p \in Player : held[p].place \in Place
    BY DEF TypeOK, Entry
  <2>2. \A v \in Viewer : Snapshot(v) \in [Player -> Place \cup {Unseen}]
    BY <2>1 DEF Snapshot
  <2> QED
    BY <1>3, <2>2 DEF Broadcast, TypeOK
<1>4. CASE AdvanceClock
  <2>1. ASSUME NEW s \in reports, s.age < MaxDelay
        PROVE  [s EXCEPT !.age = Older(@)] \in
                   [player : Player, place : Place, age : 0..MaxDelay]
    <3>1. s \in [player : Player, place : Place, age : 0..MaxDelay]
      BY DEF TypeOK
    <3>2. Older(s.age) \in 0..MaxDelay
      BY <2>1, ReportTyped, ReplicationAssumption DEF Older
    <3> QED
      BY <3>1, <3>2
  <2>2. reports' \subseteq [player : Player, place : Place, age : 0..MaxDelay]
    BY <1>4, <2>1 DEF AdvanceClock
  <2>3. ASSUME NEW p \in Player PROVE [held[p] EXCEPT !.age = Older(@)] \in Entry
    <3>1. held[p] \in Entry
      BY DEF TypeOK
    <3>2. Older(held[p].age) \in 0..MaxAge
      BY HeldTyped, ReplicationAssumption DEF Older
    <3> QED
      BY <3>1, <3>2 DEF Entry, Age
  <2> QED
    BY <1>4, <2>2, <2>3 DEF AdvanceClock, TypeOK
<1>5. CASE UNCHANGED vars
  BY <1>5 DEF vars, TypeOK
<1> QED
  BY <1>1, <1>2, <1>3, <1>4, <1>5 DEF Next

(* What clients send and the server holds and sends is typed; a viewer sees *)
(* no player the server does not know.                                      *)
THEOREM ReplicationTypeCorrect == Spec => []TypeOK
  BY TypeInitial, TypeNext, PTL DEF Spec

-----------------------------------------------------------------------------
(* Where a player is, and everything the program still has of him, dated.   *)
Now(p) == [place |-> at[p], age |-> 0]

Reported(p) == {Adopted(r) : r \in {s \in reports : s.player = p}}

Sightings(p) == {Now(p)} \cup Reported(p) \cup {e \in {held[p]} : Dated(p)}

Apart(x, y) == Distance(x.place, y.place) <= Speed * Gap(x.age, y.age)

Honest == \A p \in Player : \A x, y \in Sightings(p) : Apart(x, y)

LEMMA SightingTyped ==
    ASSUME TypeOK, NEW p \in Player, NEW x \in Sightings(p)
    PROVE  x.place \in Int /\ x.age \in Nat /\ x.age < MaxAge
<1>1. CASE x = Now(p)
  BY <1>1, HeldTyped, ReplicationAssumption DEF Now
<1>2. CASE x \in Reported(p)
  <2>1. PICK r \in reports : x = Adopted(r)
    BY <1>2 DEF Reported
  <2>2. r.place \in Int /\ r.age \in Nat /\ r.age < MaxAge
    BY ReportTyped, ReplicationAssumption
  <2> QED
    BY <2>1, <2>2 DEF Adopted
<1>3. CASE x = held[p] /\ Dated(p)
  BY <1>3, HeldTyped DEF Dated
<1> QED
  BY <1>1, <1>2, <1>3 DEF Sightings

LEMMA ApartSymmetric ==
    ASSUME TypeOK, NEW p \in Player, NEW x \in Sightings(p), NEW y \in Sightings(p),
           Apart(x, y)
    PROVE  Apart(y, x)
  BY SightingTyped, Distances, Gaps DEF Apart

LEMMA HonestInitial == Init => Honest
<1> SUFFICES ASSUME Init, NEW p \in Player PROVE \A x, y \in Sightings(p) : Apart(x, y)
  BY DEF Honest
<1>1. Sightings(p) = {Now(p)}
  BY DEF Init, Sightings, Reported, Dated
<1>2. at[p] \in Int
  BY TypeInitial, HeldTyped
<1>3. Distance(at[p], at[p]) = 0 /\ Gap(0, 0) = 0 /\ Speed * 0 = 0
  BY <1>2, Distances, Gaps, Ways
<1> QED
  BY <1>1, <1>3 DEF Apart, Now

\* A sighting an instant later.
Later(x) == [place |-> x.place, age |-> x.age + 1]

(* After an instant everything old is an instant older, and the player is   *)
(* no further from where he was than he can get.                            *)
LEMMA LaterSightings ==
    ASSUME TypeOK, AdvanceClock, NEW p \in Player, NEW x \in Sightings(p)'
    PROVE  x = Now(p)' \/ \E y \in Sightings(p) : x = Later(y)
<1>1. CASE x \in Reported(p)'
  <2>1. PICK r \in reports' : x = Adopted(r) /\ r.player = p
    BY <1>1 DEF Reported, Adopted
  <2>2. PICK s \in reports : s.age < MaxDelay /\ r = [s EXCEPT !.age = Older(@)]
    BY <2>1 DEF AdvanceClock
  <2>3. s \in [player : Player, place : Place, age : 0..MaxDelay]
    BY DEF TypeOK
  <2>4. Older(s.age) = s.age + 1
    BY <2>2, ReportTyped, ReplicationAssumption DEF Older
  <2>5. r.player = s.player /\ r.place = s.place /\ r.age = s.age + 1
    BY <2>2, <2>3, <2>4
  <2>6. Adopted(s) \in Sightings(p)
    BY <2>1, <2>5 DEF Sightings, Reported
  <2>7. x = Later(Adopted(s))
    BY <2>1, <2>5 DEF Adopted, Later
  <2> QED
    BY <2>6, <2>7
<1>2. CASE x = held'[p] /\ Dated(p)'
  <2>1. held'[p] = [held[p] EXCEPT !.age = Older(@)]
    BY <1>2 DEF AdvanceClock
  <2>2. held[p] \in Entry
    BY DEF TypeOK
  <2>3. held'[p].place = held[p].place /\ held'[p].age = Older(held[p].age)
    BY <2>1, <2>2 DEF Entry
  <2>4. held[p].age < MaxAge /\ held'[p].age = held[p].age + 1
    BY <1>2, <2>3, HeldTyped, ReplicationAssumption DEF Older, Dated
  <2>5. held[p] \in Sightings(p)
    BY <1>2, <2>4 DEF Sightings, Dated, AdvanceClock
  <2>6. held'[p] = Later(held[p])
    BY <2>1, <2>2, <2>3, <2>4 DEF Entry, Later
  <2> QED
    BY <1>2, <2>5, <2>6
<1> QED
  BY <1>1, <1>2 DEF Sightings

LEMMA HonestClock == TypeOK /\ Honest /\ AdvanceClock => Honest'
<1> SUFFICES ASSUME TypeOK, Honest, AdvanceClock, NEW p \in Player,
                    NEW x \in Sightings(p)', NEW y \in Sightings(p)'
             PROVE  Apart(x, y)
  BY DEF Honest, Apart
<1>0. TypeOK'
  BY TypeNext DEF Next
<1>1. /\ at[p] \in Int /\ at'[p] \in Int
      /\ Distance(at[p], at'[p]) <= Speed
  <2>1. at[p] \in Place /\ at'[p] \in Place
    BY DEF AdvanceClock, TypeOK
  <2>2. Place \subseteq Int
    BY ReplicationAssumption
  <2>3. Distance(at[p], at'[p]) <= Speed
    BY DEF AdvanceClock
  <2> QED
    BY <2>1, <2>2, <2>3
<1>2. ASSUME NEW z \in Sightings(p) PROVE Apart(Now(p)', Later(z))
  <2>1. z.place \in Int /\ z.age \in Nat
    BY SightingTyped
  <2>2. Now(p) \in Sightings(p)
    BY DEF Sightings
  <2>3. Distance(at[p], z.place) <= Speed * z.age
    BY <2>1, <2>2, Gaps DEF Honest, Apart, Now
  <2>7. Distance(at'[p], z.place) <= Speed * (z.age + 1)
    BY <1>1, <2>1, <2>3, Walked
  <2>8. Gap(0, z.age + 1) = z.age + 1
    BY <2>1, Gaps
  <2> QED
    BY <2>7, <2>8 DEF Apart, Now, Later
<1>3. ASSUME NEW w \in Sightings(p), NEW z \in Sightings(p) PROVE Apart(Later(w), Later(z))
  <2>1. Apart(w, z)
    BY DEF Honest
  <2>2. Gap(w.age + 1, z.age + 1) = Gap(w.age, z.age)
    BY SightingTyped, Gaps
  <2> QED
    BY <2>1, <2>2 DEF Apart, Later
<1>4. Apart(Now(p)', Now(p)')
  <2>1. Distance(at'[p], at'[p]) = 0 /\ Gap(0, 0) = 0 /\ Speed * 0 = 0
    BY <1>1, Distances, Gaps, Ways
  <2> QED
    BY <2>1 DEF Apart, Now
<1>5. x = Now(p)' \/ \E z \in Sightings(p) : x = Later(z)
  BY LaterSightings
<1>6. y = Now(p)' \/ \E z \in Sightings(p) : y = Later(z)
  BY LaterSightings
<1>7. ASSUME NEW z \in Sightings(p) PROVE Apart(Later(z), Now(p)')
  <2>1. /\ Now(p)'.place = at'[p] /\ Now(p)'.age = 0
        /\ Later(z).place = z.place /\ Later(z).age = z.age + 1
    BY DEF Now, Later
  <2>2. z.place \in Int /\ z.age + 1 \in Nat /\ 0 \in Nat
    BY SightingTyped
  <2>3. Distance(z.place, at'[p]) = Distance(at'[p], z.place)
        /\ Gap(z.age + 1, 0) = Gap(0, z.age + 1)
    BY <1>1, <2>2, Distances, Gaps
  <2> QED
    BY <1>2, <2>1, <2>3 DEF Apart
<1>8. CASE x = Now(p)'
  BY <1>2, <1>4, <1>6, <1>8
<1>9. CASE \E z \in Sightings(p) : x = Later(z)
  BY <1>3, <1>6, <1>7, <1>9
<1> QED
  BY <1>5, <1>8, <1>9

LEMMA HonestNext == TypeOK /\ Honest /\ [Next]_vars => Honest'
<1> SUFFICES ASSUME TypeOK, Honest, [Next]_vars PROVE Honest'
  OBVIOUS
<1>1. ASSUME \A p \in Player : Sightings(p)' \subseteq Sightings(p) PROVE Honest'
  BY <1>1 DEF Honest, Apart
<1>2. ASSUME NEW p \in Player, SendReport(p) PROVE Honest'
  <2>1. ASSUME NEW q \in Player PROVE Sightings(q)' \subseteq Sightings(q)
    <3>1. /\ Now(q)' = Now(q) /\ held' = held /\ (Dated(q)' <=> Dated(q))
      BY <1>2 DEF SendReport, Now, Dated
    <3>2. ASSUME NEW r \in reports', r.player = q
          PROVE  Adopted(r) \in Reported(q) \cup {Now(q)}
      <4>1. CASE r \in reports
        BY <3>2, <4>1 DEF Reported
      <4>2. CASE r = [player |-> p, place |-> at[p], age |-> 0]
        BY <3>2, <4>2 DEF Adopted, Now
      <4> QED
        BY <1>2, <4>1, <4>2 DEF SendReport
    <3>3. Reported(q)' \subseteq Reported(q) \cup {Now(q)}
      BY <3>2 DEF Reported, Adopted
    <3> QED
      BY <3>1, <3>3 DEF Sightings
  <2> QED
    BY <1>1, <2>1
<1>3. ASSUME NEW r \in reports, ReceiveReport(r) PROVE Honest'
  <2>1. ASSUME NEW q \in Player PROVE Sightings(q)' \subseteq Sightings(q)
    <3>1. Now(q)' = Now(q)
      BY <1>3 DEF ReceiveReport, Now
    <3>2. Reported(q)' \subseteq Reported(q)
      BY <1>3 DEF ReceiveReport, Reported, Adopted
    <3>3. ASSUME Dated(q)' PROVE held'[q] \in Sightings(q)
      <4>1. CASE Acceptable(r) /\ r.player = q
        <5>1. held'[q] = Adopted(r)
          BY <1>3, <4>1 DEF ReceiveReport, TypeOK
        <5> QED
          BY <4>1, <5>1 DEF Sightings, Reported
      <4>2. CASE ~(Acceptable(r) /\ r.player = q)
        <5>1. held'[q] = held[q] /\ (q \in initialized' <=> q \in initialized)
          BY <1>3, <4>2 DEF ReceiveReport, TypeOK
        <5> QED
          BY <3>3, <5>1 DEF Sightings, Dated
      <4> QED
        BY <4>1, <4>2
    <3> QED
      BY <3>1, <3>2, <3>3 DEF Sightings
  <2> QED
    BY <1>1, <2>1
<1>4. CASE UNCHANGED <<at, reports, held, initialized>>
  BY <1>1, <1>4 DEF Sightings, Now, Reported, Adopted, Dated
<1>5. ASSUME NEW reached \in SUBSET Viewer, Broadcast(reached) PROVE Honest'
  BY <1>4, <1>5 DEF Broadcast
<1>6. CASE AdvanceClock
  BY <1>6, HonestClock
<1> QED
  BY <1>2, <1>3, <1>4, <1>5, <1>6 DEF Next, vars

LEMMA HonestInvariant == Spec => [](TypeOK /\ Honest)
<1>1. Init => TypeOK /\ Honest
  BY TypeInitial, HonestInitial
<1>2. (TypeOK /\ Honest) /\ [Next]_vars => (TypeOK /\ Honest)'
  BY TypeNext, HonestNext
<1> QED
  BY <1>1, <1>2, PTL DEF Spec

-----------------------------------------------------------------------------
(* An honest player's report is accepted when it is no further in time from *)
(* the one the server holds than he takes to cross the window, be it        *)
(* newer or older.                                                          *)
THEOREM HonestReportsAccepted == Spec => []HonestAccepted
<1>1. TypeOK /\ Honest => HonestAccepted
  <2> SUFFICES ASSUME TypeOK, Honest, NEW r \in reports, Dated(r.player),
                      Speed * Gap(held[r.player].age, r.age) <= Window
               PROVE  Acceptable(r)
    BY DEF HonestAccepted
  <2> DEFINE p == r.player
             h == held[p]
             way == Speed * Gap(h.age, r.age)
  <2>1. p \in Player /\ r.place \in Int /\ r.age \in Nat
    BY ReportTyped
  <2>2. h.place \in Int /\ h.age \in Nat
    BY <2>1, HeldTyped
  <2>3. h \in Sightings(p) /\ Adopted(r) \in Sightings(p)
    BY DEF Sightings, Reported
  <2>4. Distance(h.place, r.place) <= way
    BY <2>1, <2>3 DEF Honest, Apart, Adopted
  <2>5. way \in Nat /\ Distance(h.place, r.place) \in Nat /\ Window \in Nat
    <3>1. Gap(h.age, r.age) \in Nat
      BY <2>1, <2>2, Gaps
    <3>2. way \in Nat
      BY <3>1, Ways
    <3>3. Distance(h.place, r.place) \in Nat
      BY <2>1, <2>2, Distances
    <3> QED BY <3>2, <3>3, ReplicationAssumption
  <2>6. way <= Window
    OBVIOUS
  <2> HIDE DEF way
  <2>7. Distance(h.place, r.place) <= Window
    BY <2>4, <2>5, <2>6
  <2> QED
    BY <2>7 DEF Acceptable
<1> QED
  BY <1>1, HonestInvariant, PTL

(* Two players and what the server holds of them.                           *)
LEMMA Between ==
    ASSUME NEW a \in Int, NEW b \in Int, NEW c \in Int, NEW d \in Int,
           NEW m \in Nat, NEW n \in Nat,
           Distance(a, c) <= m, Distance(b, d) <= n
    PROVE  /\ Distance(c, d) <= Distance(a, b) + (m + n)
           /\ Distance(a, b) <= Distance(c, d) + (m + n)
  BY DEF Distance

(* A viewer is told of those who are near him and of nobody who is far, up  *)
(* to the way both can have gone since the reports the server holds.        *)
THEOREM InterestIsTrue == Spec => []InterestFollowsTruth
<1>1. TypeOK /\ Honest => InterestFollowsTruth
  <2> SUFFICES ASSUME TypeOK, Honest, NEW v \in Player, NEW p \in Player,
                      v # p, Dated(v), Dated(p)
               PROVE  LET apart == Distance(at[v], at[p])
                          slack == Drift(v) + Drift(p)
                      IN  /\ apart + slack <= Radius => Relevant(v, p)
                          /\ apart > Radius + slack => ~Relevant(v, p)
    BY DEF InterestFollowsTruth
  <2>1. ASSUME NEW q \in Player, Dated(q)
        PROVE  /\ at[q] \in Int /\ held[q].place \in Int
               /\ Drift(q) \in Nat
               /\ Distance(at[q], held[q].place) <= Drift(q)
    <3>1. at[q] \in Int /\ held[q].place \in Int /\ held[q].age \in Nat
      BY HeldTyped
    <3>2. Now(q) \in Sightings(q) /\ held[q] \in Sightings(q)
      BY <2>1 DEF Sightings
    <3>3. Apart(Now(q), held[q]) /\ Gap(0, held[q].age) = held[q].age
      BY <3>1, <3>2, Gaps DEF Honest
    <3> QED
      BY <3>1, <3>3, Ways DEF Apart, Now, Drift
  <2>2. /\ Distance(held[v].place, held[p].place)
              <= Distance(at[v], at[p]) + (Drift(v) + Drift(p))
        /\ Distance(at[v], at[p])
              <= Distance(held[v].place, held[p].place) + (Drift(v) + Drift(p))
    BY <2>1, Between
  <2>3. /\ Distance(at[v], at[p]) \in Nat
        /\ Distance(held[v].place, held[p].place) \in Nat
        /\ Drift(v) + Drift(p) \in Nat /\ Radius \in Nat
    <3>1. /\ at[v] \in Int /\ at[p] \in Int /\ Drift(v) \in Nat /\ Drift(p) \in Nat
          /\ held[v].place \in Int /\ held[p].place \in Int
      BY <2>1
    <3>2. /\ Distance(at[v], at[p]) \in Nat
          /\ Distance(held[v].place, held[p].place) \in Nat
      BY <3>1, Distances
    <3> QED BY <3>1, <3>2, ReplicationAssumption
  <2> QED
    BY <2>2, <2>3 DEF Relevant
<1> QED
  BY <1>1, HonestInvariant, PTL

-----------------------------------------------------------------------------
(* A report in flight is a message of PlayerState: its fields fit.          *)
LEMMA ReportIsMessage ==
    ASSUME TypeOK, NEW r \in reports
    PROVE  Message(PlayerState, Fields(r))
<1> DEFINE value(i) == (r.place + i) % Base
           values == Fields(r)
<1>1. DOMAIN PlayerState = 1..11 /\ PlayerState \in Seq(NumberField) /\ Len(PlayerState) = 11
  BY Layouts
<1>2. r.place \in Int /\ Base \in Nat /\ Base >= 16
  BY ReportTyped, CodecAssumption
<1>3. values = [i \in 1..11 |-> value(i)]
  BY <1>1 DEF Fields
<1>4. \A i \in 1..11 : value(i) \in Nat /\ value(i) < Base
  BY <1>2
<1> HIDE DEF value, values
<1>5. values \in [1..11 -> Datum]
  BY <1>3, <1>4 DEF Datum
<1>6. values \in Seq(Datum) /\ Len(values) = 11
  <2>1. 11 \in Nat
    OBVIOUS
  <2> QED
    BY <1>5, <2>1, FunctionIsSequence, Zenon
<1>7. ASSUME NEW i \in 1..11 PROVE Typed(PlayerState[i], values[i])
  <2>1. PlayerState[i] \in NumberField
    <3>1. i \in 1..Len(PlayerState)
      BY <1>1
    <3> QED
      BY <1>1, <3>1, ElementOfSeq
  <2>2. PlayerState[i].kind = "number" /\ PlayerState[i].width \in 1..8
    BY <2>1, NumberFields
  <2> DEFINE weight == Weight[PlayerState[i].width]
  <2>3. weight \in Nat /\ Base <= weight
    BY <2>2, WeightDef, Weights
  <2>4. values[i] = value(i)
    BY <1>3
  <2> HIDE DEF weight
  <2>5. values[i] \in Nat /\ values[i] < weight
    BY <1>2, <1>4, <2>3, <2>4
  <2> QED
    BY <2>2, <2>5 DEF Typed, weight
<1>8. PlayerState \in Seq(Field)
  BY <1>1, NumberFields
<1> QED
  BY <1>1, <1>6, <1>7, <1>8 DEF Message, values

(* What a client writes the server reads as it was, and so the other way    *)
(* (protocol.cpp:105, 166 and 223): every message of the format, every      *)
(* snapshot and datagram, and each report that is ever in flight.           *)
THEOREM FormatsAgree == Spec => []RoundTrip
<1>1. TypeOK => RoundTrip
  <2> SUFFICES ASSUME TypeOK, NEW r \in reports
               PROVE  Decode(PlayerState, Encode(PlayerState, Fields(r))) = Fields(r)
    <3>1. FormatRoundTrip
      BY FormatsRoundTrip
    <3> QED
      BY <3>1 DEF RoundTrip
  <2>1. Writable(PlayerState, Fields(r))
    BY ReportIsMessage, Layouts, NumbersWritten
  <2> QED
    BY <2>1, MessagesRoundTrip
<1> QED
  BY <1>1, ReplicationTypeCorrect, PTL

-----------------------------------------------------------------------------
(* How large a crowd can be: the sizes of the format meet here.  With the   *)
(* code's 1200 bytes a snapshot of 30 players is read and one of 31 is not. *)
LEMMA Crowded ==
    ASSUME NEW n \in Nat
    PROVE  Readable(n) <=> n <= SnapshotLimit /\ n <= Room
<1> DEFINE size == SnapshotSize(n)
<1>1. size = 6 + n * 38 /\ size \in Nat /\ \A m \in Nat : DatagramSize(m) = 32 + m
  BY Sizes DEF SnapshotSize, DatagramSize
<1>2. DatagramLimit \in Nat /\ MessageLimit \in Nat /\ SnapshotLimit \in Nat
      /\ DatagramLimit <= MessageLimit
  BY CodecAssumption
<1>3. n <= Room <=> 38 * n <= DatagramLimit - 38
  BY <1>2 DEF Room
<1>4. CASE n <= SnapshotLimit
  <2>1. Encoded(n) = size
    BY <1>4 DEF Encoded
  <2>2. Readable(n) <=> size # 0 /\ size <= MessageLimit /\ 32 + size <= DatagramLimit
    BY <1>1, <2>1 DEF Readable
  <2> HIDE DEF size
  <2>3. Readable(n) <=> 38 * n <= DatagramLimit - 38
    BY <1>1, <1>2, <2>2
  <2> QED
    BY <1>3, <1>4, <2>3
<1>5. CASE ~(n <= SnapshotLimit)
  BY <1>5 DEF Encoded, Readable
<1> QED
  BY <1>4, <1>5

(* Rest.  When nobody moves, and the server holds of everybody where he is  *)
(* and no older report is left in flight, nothing undoes it, and each       *)
(* viewer whose crowd fits is right from the next snapshot he gets on.      *)
Settled ==
    /\ \A p \in Player : p \in initialized /\ held[p].place = at[p]
    /\ \A r \in reports : r.place = at[r.player]

Told(v) == \E reached \in SUBSET Viewer : v \in reached /\ Broadcast(reached)

LEMMA CrowdListed ==
    ASSUME TypeOK, Settled, NEW v \in Viewer
    PROVE  /\ Listed(v) = Crowd(v) /\ Listed(v) \in Nat
           /\ \A p \in Player : Relevant(v, p) <=> v = p \/ Close(v, p)
           /\ Snapshot(v) = [p \in Player |-> IF v = p \/ Close(v, p)
                                              THEN at[p] ELSE Unseen]
<1>1. v \in Player /\ held[v].place = at[v] /\ at[v] \in Int
  BY HeldTyped, ReplicationAssumption DEF Settled
<1>2. \A p \in Player : held[p].place = at[p]
  BY DEF Settled
<1>3. \A p \in Player : Relevant(v, p) <=> v = p \/ Close(v, p)
  BY <1>1, <1>2 DEF Relevant, Close
<1>4. Close(v, v)
  <2>1. Distance(at[v], at[v]) = 0
    BY <1>1, Distances
  <2>2. Radius \in Nat
    BY ReplicationAssumption
  <2> QED
    BY <2>1, <2>2 DEF Close
<1>5. {p \in Player : Relevant(v, p)} = {p \in Player : Close(v, p)}
  BY <1>3, <1>4
<1>6. {b \in DOMAIN Bystander : Distance(held[v].place, Bystander[b]) <= Radius}
      = {b \in DOMAIN Bystander : Distance(at[v], Bystander[b]) <= Radius}
  BY <1>1
<1>7. Listed(v) = Crowd(v)
  BY <1>5, <1>6 DEF Listed, Crowd
<1>8. Cardinality({p \in Player : Relevant(v, p)}) \in Nat
  <2>1. IsFiniteSet(Player) /\ {p \in Player : Relevant(v, p)} \subseteq Player
    BY ReplicationAssumption
  <2> QED
    BY <2>1, FS_Subset, FS_CardinalityType
<1>9. Cardinality({b \in DOMAIN Bystander :
                      Distance(held[v].place, Bystander[b]) <= Radius}) \in Nat
  <2> DEFINE near == {b \in DOMAIN Bystander :
                         Distance(held[v].place, Bystander[b]) <= Radius}
  <2>1. DOMAIN Bystander = 1..Len(Bystander) /\ Len(Bystander) \in Nat
    BY ReplicationAssumption
  <2>2. IsFiniteSet(1..Len(Bystander))
    BY <2>1, FS_Interval
  <2>3. near \subseteq 1..Len(Bystander)
    BY <2>1
  <2> QED
    BY <2>2, <2>3, FS_Subset, FS_CardinalityType
<1>10. Snapshot(v) = [p \in Player |-> IF v = p \/ Close(v, p) THEN at[p] ELSE Unseen]
  BY <1>2, <1>3 DEF Snapshot
<1> HIDE DEF Listed
<1> QED
  BY <1>3, <1>7, <1>8, <1>9, <1>10 DEF Listed

(* What a viewer is told of a crowd that fits is what Accurate says.        *)
LEMMA ToldIsAccurate ==
    ASSUME Room <= SnapshotLimit, TypeOK, Settled, NEW reached \in SUBSET Viewer,
           Broadcast(reached), NEW v \in Viewer, Crowd(v) <= Room,
           Accurate(v) \/ v \in reached
    PROVE  Accurate(v)'
<1>1. at' = at /\ view'[v] = IF v \in reached /\ Readable(Listed(v)) THEN Snapshot(v)
                             ELSE view[v]
  BY DEF Broadcast
<1>2. /\ Listed(v) = Crowd(v) /\ Listed(v) \in Nat
      /\ Snapshot(v) = [p \in Player |-> IF v = p \/ Close(v, p) THEN at[p] ELSE Unseen]
  BY CrowdListed
<1>3. Readable(Listed(v))
  <2>1. Listed(v) <= SnapshotLimit
    BY <1>2, CodecAssumption DEF Room
  <2> QED
    BY <1>2, <2>1, Crowded
<1>4. CASE v \in reached
  BY <1>1, <1>2, <1>3, <1>4 DEF Accurate, Close
<1>5. CASE v \notin reached
  BY <1>1, <1>5 DEF Accurate, Close
<1> QED
  BY <1>4, <1>5

(* What Converges comes to, but for time: once everybody is Settled they    *)
(* stay so while nobody moves, whatever arrives late, and each viewer with  *)
(* no more players in range than a datagram has room for is right after the *)
(* first snapshot that reaches him, and from then on.                       *)
THEOREM RestIsKept ==
    ASSUME Room <= SnapshotLimit
    PROVE  Spec => [][Settled /\ UNCHANGED at =>
                         /\ Settled'
                         /\ \A v \in Viewer :
                                Crowd(v) <= Room /\ (Accurate(v) \/ Told(v)) =>
                                    Accurate(v)']_vars
<1> DEFINE Kept == /\ Settled'
                   /\ \A v \in Viewer :
                          Crowd(v) <= Room /\ (Accurate(v) \/ Told(v)) => Accurate(v)'
<1>1. ASSUME TypeOK, [Next]_vars, Settled, UNCHANGED at PROVE Kept
  <2>1. ASSUME UNCHANGED view
        PROVE  \A v \in Viewer : Accurate(v) => Accurate(v)'
    BY <1>1, <2>1 DEF Accurate, Close
  <2>2. ASSUME NEW v \in Viewer, Told(v), Crowd(v) <= Room PROVE Accurate(v)'
    BY <1>1, <2>2, ToldIsAccurate DEF Told
  <2>3. ASSUME NEW p \in Player, SendReport(p) PROVE Kept
    <3>1. Settled'
      BY <1>1, <2>3 DEF SendReport, Settled
    <3> QED
      BY <2>1, <2>2, <2>3, <3>1 DEF SendReport
  <2>4. ASSUME NEW r \in reports, ReceiveReport(r) PROVE Kept
    <3>1. r.player \in Player /\ r.place = at[r.player]
      BY <1>1, ReportTyped DEF Settled
    <3>2. \A p \in Player : p \in initialized' /\ held'[p].place = at[p]
      <4>1. CASE Acceptable(r)
        <5>1. /\ held' = [held EXCEPT ![r.player] = Adopted(r)]
              /\ initialized \subseteq initialized' /\ held \in [Player -> Entry]
          BY <1>1, <2>4, <4>1 DEF ReceiveReport, TypeOK
        <5> QED
          BY <1>1, <3>1, <5>1 DEF Settled, Adopted
      <4>2. CASE ~Acceptable(r)
        BY <1>1, <2>4, <4>2 DEF ReceiveReport, Settled
      <4> QED
        BY <4>1, <4>2
    <3>3. Settled'
      BY <1>1, <2>4, <3>2 DEF ReceiveReport, Settled
    <3> QED
      BY <2>1, <2>2, <2>4, <3>3 DEF ReceiveReport
  <2>5. ASSUME NEW reached \in SUBSET Viewer, Broadcast(reached) PROVE Kept
    <3>1. Settled'
      BY <1>1, <2>5 DEF Broadcast, Settled
    <3>2. ASSUME NEW v \in Viewer, Crowd(v) <= Room, Accurate(v) PROVE Accurate(v)'
      BY <1>1, <2>5, <3>2, ToldIsAccurate
    <3> QED
      BY <2>2, <3>1, <3>2
  <2>6. ASSUME AdvanceClock PROVE Kept
    <3>1. \A p \in Player : held'[p].place = held[p].place
      <4>1. ASSUME NEW p \in Player PROVE held'[p].place = held[p].place
        <5>1. held'[p] = [held[p] EXCEPT !.age = Older(@)] /\ held[p] \in Entry
          BY <1>1, <2>6 DEF AdvanceClock, TypeOK
        <5> QED
          BY <5>1 DEF Entry
      <4> QED
        BY <4>1
    <3>2. \A r \in reports' : r.place = at[r.player]
      <4> SUFFICES ASSUME NEW r \in reports' PROVE r.place = at[r.player]
        OBVIOUS
      <4>1. PICK s \in reports : r = [s EXCEPT !.age = Older(@)]
        BY <2>6 DEF AdvanceClock
      <4>2. s \in [player : Player, place : Place, age : 0..MaxDelay]
        BY <1>1 DEF TypeOK
      <4>3. r.place = s.place /\ r.player = s.player
        BY <4>1, <4>2
      <4> QED
        BY <1>1, <4>3 DEF Settled
    <3>3. initialized' = initialized /\ view' = view
      BY <2>6 DEF AdvanceClock
    <3>4. Settled'
      BY <1>1, <3>1, <3>2, <3>3 DEF Settled
    <3> QED
      BY <2>1, <2>2, <3>3, <3>4
  <2>7. CASE UNCHANGED vars
    <3>1. Settled'
      BY <1>1, <2>7 DEF vars, Settled
    <3> QED
      BY <2>1, <2>2, <2>7, <3>1 DEF vars
  <2> QED
    BY <1>1, <2>3, <2>4, <2>5, <2>6, <2>7 DEF Next
<1>2. TypeOK /\ [Next]_vars => [Settled /\ UNCHANGED at => Kept]_vars
  BY <1>1
<1> QED
  BY <1>2, ReplicationTypeCorrect, PTL DEF Spec
=============================================================================
