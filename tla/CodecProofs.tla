----------------------------- MODULE CodecProofs -----------------------------
(***************************************************************************)
(* Proofs about Codec for every message, of every layout of numbers of up  *)
(* to 64 bits and texts of any limit.                                      *)
(*                                                                         *)
(* The library's induction theorems take an operator; what is needed of    *)
(* them is proved here with a set in its place (Induction), from the       *)
(* well-foundedness of the naturals, and with it that a recursion over     *)
(* 0..n defines a function (Recursion).                                    *)
(***************************************************************************)
EXTENDS CodecProperties, SequenceTheorems, WellFoundedInduction, TLAPS

(* Induction over the numbers up to n, for membership of a set.             *)
LEMMA Induction ==
    ASSUME NEW n \in Nat, NEW S, 0 \in S,
           \A i \in 0..(n - 1) : i \in S => i + 1 \in S
    PROVE  \A i \in 0..n : i \in S
<1> DEFINE T == (0..n) \ S
<1>1. SUFFICES ASSUME T # {} PROVE FALSE
  OBVIOUS
<1>2. PICK x \in T : \A y \in T : ~(<<y, x>> \in OpToRel(<, Nat))
  <2>1. T \subseteq Nat
    OBVIOUS
  <2> HIDE DEF T
  <2> QED
    BY <1>1, <2>1, WFMin, NatLessThanWellFounded
<1>3. ASSUME NEW y \in T, y < x PROVE FALSE
  <2>1. y \in Nat /\ x \in Nat
    OBVIOUS
  <2> QED
    BY <1>2, <1>3, <2>1 DEF OpToRel
<1>4. x # 0 /\ x - 1 \in 0..(n - 1)
  OBVIOUS
<1>5. x - 1 \in S
  BY <1>3, <1>4
<1> QED
  BY <1>4, <1>5

\* f is what step[1] to step[n] make of c, one after the other.
Steps(n, D, c, step, f) ==
    /\ f \in [0..n -> D] /\ f[0] = c
    /\ \A i \in 1..n : f[i] = step[i][f[i - 1]]

LEMMA Recursion ==
    ASSUME NEW n \in Nat, NEW D, NEW c \in D, NEW step, step \in [1..n -> [D -> D]]
    PROVE  \E f : Steps(n, D, c, step, f)
<1> DEFINE Good(m, g) == Steps(m, D, c, step, g)
           S == {m \in 0..n : \E g : Good(m, g)}
<1> USE DEF Steps
<1>1. 0 \in S
  <2> DEFINE g == [i \in 0..0 |-> c]
  <2>1. g \in [0..0 -> D] /\ g[0] = c /\ 1..0 = {} /\ 0 \in 0..n
    OBVIOUS
  <2>2. Good(0, g)
    BY <2>1
  <2> QED
    BY <2>1, <2>2
<1>2. ASSUME NEW m \in 0..(n - 1), m \in S PROVE m + 1 \in S
  <2>1. PICK g : Good(m, g)
    BY <1>2
  <2>2. m + 1 \in 1..n /\ m + 1 \in 0..n /\ m \in 0..m /\ (m + 1) - 1 = m
    OBVIOUS
  <2>3. step[m + 1][g[m]] \in D
    <3>1. g[m] \in D /\ step[m + 1] \in [D -> D]
      BY <2>1, <2>2
    <3> QED
      BY <3>1
  <2> DEFINE h == [i \in 0..(m + 1) |-> IF i = m + 1 THEN step[m + 1][g[m]] ELSE g[i]]
  <2>4. h \in [0..(m + 1) -> D] /\ h[0] = c
    BY <2>1, <2>3
  <2>5. \A i \in 0..m : h[i] = g[i]
    OBVIOUS
  <2>6. h[m + 1] = step[m + 1][g[m]]
    OBVIOUS
  <2> HIDE DEF h
  <2>7. ASSUME NEW i \in 1..(m + 1) PROVE h[i] = step[i][h[i - 1]]
    <3>1. CASE i = m + 1
      <4>1. h[m] = g[m]
        BY <2>2, <2>5
      <4> QED
        BY <2>2, <2>6, <3>1, <4>1
    <3>2. CASE i # m + 1
      <4>1. i \in 1..m /\ i \in 0..m /\ i - 1 \in 0..m
        BY <3>2
      <4>2. g[i] = step[i][g[i - 1]]
        BY <2>1, <4>1
      <4> QED
        BY <2>5, <4>1, <4>2
    <3> QED
      BY <3>1, <3>2
  <2>8. Good(m + 1, h)
    BY <2>4, <2>7
  <2> QED
    BY <2>2, <2>8
<1> HIDE DEF S
<1>3. \A m \in 0..n : m \in S
  BY <1>1, <1>2, Induction
<1>4. n \in S
  BY <1>3
<1> QED
  BY <1>4 DEF S

\* So is whatever takes these steps as long as it stays in D.
Follows(n, D, c, step, f) ==
    /\ f = [i \in 0..n |-> f[i]] /\ f[0] = c
    /\ \A i \in 1..n : f[i - 1] \in D => f[i] = step[i][f[i - 1]]

LEMMA Stepwise ==
    ASSUME NEW n \in Nat, NEW D, NEW c \in D, NEW step, step \in [1..n -> [D -> D]],
           NEW f, Follows(n, D, c, step, f)
    PROVE  f \in [0..n -> D]
<1> USE DEF Follows
<1> DEFINE S == {i \in 0..n : f[i] \in D}
<1>1. 0 \in S
  OBVIOUS
<1>2. ASSUME NEW i \in 0..(n - 1), i \in S PROVE i + 1 \in S
  <2>1. i + 1 \in 1..n /\ i + 1 \in 0..n /\ (i + 1) - 1 = i /\ f[i] \in D
    BY <1>2
  <2>2. f[i + 1] = step[i + 1][f[i]]
    BY <2>1
  <2>3. step[i + 1] \in [D -> D]
    BY <2>1
  <2> QED
    BY <2>1, <2>2, <2>3
<1>3. \A i \in 0..n : i \in S
  <2> HIDE DEF S
  <2> QED
    BY <1>1, <1>2, Induction
<1>4. \A i \in 0..n : f[i] \in D
  BY <1>3
<1> QED
  BY <1>4

LEMMA WeightDef ==
    /\ Weight \in [0..8 -> Nat] /\ Weight[0] = 1
    /\ \A k \in 0..7 : Weight[k + 1] = Base * Weight[k]
    /\ \A k \in 0..8 : Weight[k] \in Nat /\ Weight[k] > 0
<1> DEFINE E(m) == Base * m
           step == [k \in 1..8 |-> [m \in Nat \ {0} |-> E(m)]]
<1>1. \A m \in Nat \ {0} : E(m) \in Nat \ {0}
  BY CodecAssumption
<1>2. step \in [1..8 -> [Nat \ {0} -> Nat \ {0}]]
  BY <1>1
<1>3. PICK f : Steps(8, Nat \ {0}, 1, step, f)
  <2> HIDE DEF step
  <2>1. 1 \in Nat \ {0} /\ 8 \in Nat
    OBVIOUS
  <2> QED
    BY <1>2, <2>1, Recursion
<1>4. \A k \in 1..8 : f[k] = E(f[k - 1])
  BY <1>3 DEF Steps
<1>5. f = [k \in 0..8 |-> IF k = 0 THEN 1 ELSE Base * f[k - 1]]
  BY <1>3, <1>4 DEF Steps
<1>6. Weight = [k \in 0..8 |-> IF k = 0 THEN 1 ELSE Base * Weight[k - 1]]
  BY <1>5 DEF Weight
<1>7. Weight[0] = 1 /\ \A k \in 0..7 : Weight[k + 1] = Base * Weight[k]
  BY <1>6
<1>8. Weight \in [0..8 -> Nat \ {0}]
  <2>1. \A k \in 1..8 : Weight[k - 1] \in Nat \ {0} => Weight[k] = step[k][Weight[k - 1]]
    BY <1>6
  <2>2. Weight = [k \in 0..8 |-> Weight[k]]
    BY <1>6
  <2>3. 1 \in Nat \ {0} /\ 8 \in Nat
    OBVIOUS
  <2> HIDE DEF step
  <2>4. Follows(8, Nat \ {0}, 1, step, Weight)
    BY <1>7, <2>1, <2>2 DEF Follows
  <2> QED
    BY <1>2, <2>3, <2>4, Stepwise
<1> QED
  BY <1>7, <1>8

-----------------------------------------------------------------------------
(* Numbers.                                                                 *)
Byte == 0..(Base - 1)

LEMMA Division ==
    ASSUME NEW a \in Nat, NEW m \in Nat, m > 0
    PROVE  /\ a \div m \in Nat
           /\ a % m \in 0..(m - 1)
           /\ a % m = a - m * (a \div m)
           /\ \A b \in Nat : b > 0 => (a \div m) \div b = a \div (m * b)
           /\ a < m => a \div m = 0
<1>1. a \div m \in Int /\ a % m \in 0..(m - 1)
  OBVIOUS
<1>2. a % m = a - m * (a \div m)
  OBVIOUS
<1>3. a < m * (a \div m) + m
  OBVIOUS
<1>4. \A q \in Int : q < 0 => m * q <= -m
  OBVIOUS
<1>5. a \div m \in Nat
  BY <1>1, <1>3, <1>4
<1>6. \A b \in Nat : b > 0 => (a \div m) \div b = a \div (m * b)
  OBVIOUS
<1>7. a < m => a \div m = 0
  OBVIOUS
<1> QED
  BY <1>1, <1>2, <1>5, <1>6, <1>7

LEMMA ValueDef ==
    ASSUME NEW bytes \in Seq(Byte), Len(bytes) <= 8
    PROVE  /\ ValueUpTo(bytes) \in [0..Len(bytes) -> Nat]
           /\ ValueUpTo(bytes)[0] = 0
           /\ \A i \in 1..Len(bytes) :
                  ValueUpTo(bytes)[i] = ValueUpTo(bytes)[i - 1] + bytes[i] * Weight[i - 1]
<1> DEFINE n == Len(bytes)
           E(m, i) == m + bytes[i] * Weight[i - 1]
           step == [i \in 1..n |-> [m \in Nat |-> E(m, i)]]
<1>1. n \in Nat /\ n <= 8
  OBVIOUS
<1>2. \A m \in Nat, i \in 1..n : E(m, i) \in Nat
  <2> SUFFICES ASSUME NEW m \in Nat, NEW i \in 1..n PROVE E(m, i) \in Nat
    OBVIOUS
  <2>1. bytes[i] \in Nat /\ Weight[i - 1] \in Nat
    <3>1. bytes[i] \in Byte /\ i - 1 \in 0..8
      BY <1>1
    <3>2. bytes[i] \in Nat
      BY <3>1, CodecAssumption DEF Byte
    <3> QED
      BY <3>1, <3>2, WeightDef
  <2> QED
    BY <2>1
<1>3. step \in [1..n -> [Nat -> Nat]]
  BY <1>2
<1>4. PICK f : Steps(n, Nat, 0, step, f)
  <2> HIDE DEF step, n
  <2>1. 0 \in Nat
    OBVIOUS
  <2> QED
    BY <1>1, <1>3, <2>1, Recursion
<1>5. \A i \in 1..n : f[i] = E(f[i - 1], i)
  BY <1>4 DEF Steps
<1>6. f \in [0..n -> Nat] /\ f[0] = 0
  BY <1>4 DEF Steps
<1>7. f = [i \in 0..n |-> IF i = 0 THEN 0 ELSE f[i - 1] + bytes[i] * Weight[i - 1]]
  BY <1>5, <1>6
<1>8. ValueUpTo(bytes) =
          [i \in 0..n |-> IF i = 0 THEN 0
                          ELSE ValueUpTo(bytes)[i - 1] + bytes[i] * Weight[i - 1]]
  BY <1>7 DEF ValueUpTo
<1>9. \A i \in 1..n : i \in 0..n /\ i # 0
  OBVIOUS
<1>10. \A i \in 1..n :
           ValueUpTo(bytes)[i] = ValueUpTo(bytes)[i - 1] + bytes[i] * Weight[i - 1]
  BY <1>8, <1>9
<1>11. ValueUpTo(bytes)[0] = 0
  BY <1>8
<1>12. ValueUpTo(bytes) \in [0..n -> Nat]
  <2> DEFINE v == ValueUpTo(bytes)
  <2>1. v = [i \in 0..n |-> v[i]] /\ v[0] = 0
    BY <1>8
  <2>2. \A i \in 1..n : v[i - 1] \in Nat => v[i] = step[i][v[i - 1]]
    BY <1>10
  <2>3. 0 \in Nat
    OBVIOUS
  <2> HIDE DEF v, step, n
  <2>4. Follows(n, Nat, 0, step, v)
    BY <2>1, <2>2 DEF Follows
  <2> QED
    BY <1>1, <1>3, <2>3, <2>4, Stepwise DEF v
<1> QED
  BY <1>10, <1>11, <1>12

(* What append_le16 to append_le64 write, read_le16 to read_le64 read.      *)
LEMMA Digits ==
    ASSUME NEW width \in 1..8, NEW value \in Nat
    PROVE  /\ LittleEndian(value, width) \in Seq(Byte)
           /\ Len(LittleEndian(value, width)) = width
           /\ value < Weight[width] => Value(LittleEndian(value, width)) = value
<1> DEFINE bytes == LittleEndian(value, width)
           q(i) == value \div Weight[i]
<1>1. \A i \in 0..8 : q(i) \in Nat
  BY WeightDef, Division
<1>2. \A i \in 1..width : (value \div Weight[i - 1]) % Base \in Byte
  <2> SUFFICES ASSUME NEW i \in 1..width PROVE q(i - 1) % Base \in Byte
    OBVIOUS
  <2>1. q(i - 1) \in Nat
    BY <1>1
  <2> HIDE DEF q
  <2> QED
    BY <2>1, CodecAssumption DEF Byte
<1>3. bytes = [i \in 1..width |-> q(i - 1) % Base] /\ width \in Nat
  BY DEF LittleEndian
<1>4. bytes \in Seq(Byte) /\ Len(bytes) = width
  BY <1>2, <1>3
<1>5. ASSUME NEW i \in 0..7 PROVE q(i) % Base = q(i) - Base * q(i + 1)
  <2>1. q(i) \div Base = value \div (Weight[i] * Base)
    <3>1. Weight[i] \in Nat /\ Weight[i] > 0 /\ Base \in Nat /\ Base > 0
      BY WeightDef, CodecAssumption
    <3> QED
      BY <3>1, Division
  <2>2. q(i) \div Base = q(i + 1)
    BY <2>1, WeightDef, CodecAssumption
  <2>3. q(i) \in Nat
    BY <1>1
  <2> HIDE DEF q
  <2> QED
    <3>1. Base \in Nat /\ Base > 0
      BY CodecAssumption
    <3>2. q(i) % Base = q(i) - Base * (q(i) \div Base)
      BY <2>3, <3>1, Division
    <3> QED
      BY <2>2, <3>2
<1> DEFINE S == {i \in 0..width : ValueUpTo(bytes)[i] = value - q(i) * Weight[i]}
<1>6. 0 \in S
  <2>1. q(0) = value /\ Weight[0] = 1
    BY WeightDef
  <2>2. ValueUpTo(bytes)[0] = 0
    BY <1>4, ValueDef
  <2> QED
    BY <2>1, <2>2
<1>7. ASSUME NEW i \in 0..(width - 1), i \in S PROVE i + 1 \in S
  <2>1. i + 1 \in 1..width /\ (i + 1) - 1 = i /\ i \in 0..7
    OBVIOUS
  <2>2. bytes[i + 1] = q(i) - Base * q(i + 1)
    BY <1>3, <1>5, <2>1
  <2>3. ValueUpTo(bytes)[i + 1] = ValueUpTo(bytes)[i] + bytes[i + 1] * Weight[i]
    BY <1>4, <2>1, ValueDef
  <2>4. Weight[i + 1] = Base * Weight[i] /\ Weight[i] \in Nat
    BY <2>1, WeightDef
  <2>5. q(i) \in Nat /\ q(i + 1) \in Nat
    BY <1>1, <2>1
  <2>6. ValueUpTo(bytes)[i] = value - q(i) * Weight[i]
    BY <1>7
  <2>7. ASSUME NEW a \in Nat, NEW b \in Nat, NEW w \in Nat
        PROVE  value - a * w + (a - Base * b) * w = value - b * (Base * w)
    BY CodecAssumption
  <2> HIDE DEF q, bytes
  <2>8. ValueUpTo(bytes)[i + 1] = value - q(i + 1) * (Base * Weight[i])
    BY <2>2, <2>3, <2>4, <2>5, <2>6, <2>7
  <2> QED
    BY <2>1, <2>4, <2>8
<1>8. width \in S
  <2> HIDE DEF S
  <2>1. \A i \in 0..width : i \in S
    BY <1>3, <1>6, <1>7, Induction
  <2> QED
    BY <2>1
<1>9. value < Weight[width] => q(width) = 0
  BY WeightDef, Division
<1>10. value < Weight[width] => Value(bytes) = value
  <2>1. Value(bytes) = value - q(width) * Weight[width]
    BY <1>4, <1>8 DEF Value
  <2>2. Weight[width] \in Nat
    BY WeightDef
  <2> HIDE DEF q, bytes
  <2> QED
    BY <1>9, <2>1, <2>2
<1> QED
  BY <1>4, <1>10

-----------------------------------------------------------------------------
(* Sequences.                                                               *)
LEMMA Part ==
    ASSUME NEW S, NEW s \in Seq(S), NEW m \in Nat, m > 0, NEW n \in Nat, n <= Len(s)
    PROVE  /\ SubSeq(s, m, n) \in Seq(S)
           /\ Len(SubSeq(s, m, n)) = IF m <= n THEN n - m + 1 ELSE 0
           /\ \A i \in 1..(n - m + 1) : SubSeq(s, m, n)[i] = s[m + i - 1]
<1>1. \A i \in m..n : s[i] \in S
  BY ElementOfSeq
<1>2. m \in Int /\ n \in Int
  OBVIOUS
<1> QED
  BY <1>1, <1>2, SubSeqProperties

LEMMA FromDef ==
    ASSUME NEW S, NEW s \in Seq(S), NEW n \in 0..Len(s)
    PROVE  /\ From(s, n) \in Seq(S)
           /\ Len(From(s, n)) = Len(s) - n
           /\ \A i \in 1..(Len(s) - n) : From(s, n)[i] = s[n + i]
<1>1. n + 1 \in Nat /\ n + 1 > 0 /\ Len(s) \in Nat
  OBVIOUS
<1>2. /\ SubSeq(s, n + 1, Len(s)) \in Seq(S)
      /\ Len(SubSeq(s, n + 1, Len(s))) = IF n + 1 <= Len(s) THEN Len(s) - (n + 1) + 1 ELSE 0
      /\ \A i \in 1..(Len(s) - (n + 1) + 1) : SubSeq(s, n + 1, Len(s))[i] = s[(n + 1) + i - 1]
  BY <1>1, Part
<1> QED
  BY <1>1, <1>2 DEF From

LEMMA Joined ==
    ASSUME NEW S, NEW s \in Seq(S), NEW t \in Seq(S)
    PROVE  /\ s \o t \in Seq(S)
           /\ Len(s \o t) = Len(s) + Len(t) /\ Len(s) \in Nat /\ Len(t) \in Nat
  BY ConcatProperties

LEMMA Elements ==
    ASSUME NEW S, NEW s \in Seq(S), NEW t \in Seq(S)
    PROVE  /\ s \o t \in Seq(S) /\ Len(s \o t) = Len(s) + Len(t)
           /\ \A i \in 1..Len(s) : (s \o t)[i] = s[i]
           /\ \A i \in 1..Len(t) : (s \o t)[Len(s) + i] = t[i]
<1>1. Len(s) \in Nat /\ Len(t) \in Nat
  OBVIOUS
<1> QED
  BY <1>1, ConcatProperties

(* What is read of s leaves of s \o t what it leaves of s, and t.           *)
LEMMA Extended ==
    ASSUME NEW S, NEW s \in Seq(S), NEW t \in Seq(S), NEW n \in 0..Len(s)
    PROVE  /\ \A m \in Nat : m > 0 => SubSeq(s \o t, m, n) = SubSeq(s, m, n)
           /\ From(s \o t, n) = From(s, n) \o t
<1>1. /\ s \o t \in Seq(S) /\ Len(s \o t) = Len(s) + Len(t)
      /\ \A i \in 1..Len(s) : (s \o t)[i] = s[i]
      /\ \A i \in 1..Len(t) : (s \o t)[Len(s) + i] = t[i]
      /\ Len(s) \in Nat /\ Len(t) \in Nat
  <2>1. Len(s) \in Nat /\ Len(t) \in Nat
    OBVIOUS
  <2> QED
    BY <2>1, Elements
<1>2. ASSUME NEW m \in Nat, m > 0 PROVE SubSeq(s \o t, m, n) = SubSeq(s, m, n)
  <2> DEFINE a == SubSeq(s \o t, m, n)
             b == SubSeq(s, m, n)
  <2>1. /\ a \in Seq(S) /\ Len(a) = (IF m <= n THEN n - m + 1 ELSE 0)
        /\ \A i \in 1..(n - m + 1) : a[i] = (s \o t)[m + i - 1]
    BY <1>1, <1>2, Part
  <2>2. /\ b \in Seq(S) /\ Len(b) = (IF m <= n THEN n - m + 1 ELSE 0)
        /\ \A i \in 1..(n - m + 1) : b[i] = s[m + i - 1]
    BY <1>2, Part
  <2>3. \A i \in 1..(n - m + 1) : m + i - 1 \in 1..Len(s)
    BY <1>1, <1>2
  <2> HIDE DEF a, b
  <2>4. \A i \in 1..Len(a) : a[i] = b[i]
    BY <1>1, <1>2, <2>1, <2>2, <2>3
  <2>5. a = b
    BY <2>1, <2>2, <2>4, SeqEqual
  <2> QED
    BY <2>5 DEF a, b
<1>3. From(s \o t, n) = From(s, n) \o t
  <2> DEFINE a == From(s \o t, n)
             b == From(s, n)
  <2>1. /\ a \in Seq(S) /\ Len(a) = Len(s) + Len(t) - n
        /\ \A i \in 1..(Len(s) + Len(t) - n) : a[i] = (s \o t)[n + i]
    <3> DEFINE u == s \o t
    <3>1. u \in Seq(S) /\ n \in 0..Len(u) /\ Len(u) = Len(s) + Len(t)
      BY <1>1
    <3> HIDE DEF u
    <3>2. /\ From(u, n) \in Seq(S) /\ Len(From(u, n)) = Len(u) - n
          /\ \A i \in 1..(Len(u) - n) : From(u, n)[i] = u[n + i]
      BY <3>1, FromDef
    <3> QED
      BY <3>1, <3>2 DEF u
  <2>2. /\ b \in Seq(S) /\ Len(b) = Len(s) - n
        /\ \A i \in 1..(Len(s) - n) : b[i] = s[n + i]
    BY FromDef
  <2> HIDE DEF a, b
  <2>3. /\ b \o t \in Seq(S) /\ Len(b \o t) = Len(b) + Len(t)
        /\ \A i \in 1..(Len(b) + Len(t)) :
              (b \o t)[i] = IF i <= Len(b) THEN b[i] ELSE t[i - Len(b)]
    BY <2>2, ConcatProperties
  <2>4. ASSUME NEW i \in 1..Len(a) PROVE a[i] = (b \o t)[i]
    <3>1. i \in 1..(Len(s) + Len(t) - n) /\ i \in 1..(Len(b) + Len(t)) /\ i \in Nat
      BY <1>1, <2>1, <2>2
    <3>2. CASE i <= Len(b)
      <4>1. n + i \in 1..Len(s) /\ i \in 1..(Len(s) - n)
        BY <1>1, <2>2, <3>1, <3>2
      <4> QED
        BY <1>1, <2>1, <2>2, <2>3, <3>1, <3>2, <4>1
    <3>3. CASE i > Len(b)
      <4>1. i - Len(b) \in 1..Len(t) /\ n + i = Len(s) + (i - Len(b))
        BY <1>1, <2>2, <3>1, <3>3
      <4>2. a[i] = t[i - Len(b)]
        BY <1>1, <2>1, <3>1, <4>1
      <4>3. (b \o t)[i] = t[i - Len(b)]
        BY <1>1, <2>2, <2>3, <3>1, <3>3
      <4> QED
        BY <4>2, <4>3
    <3> QED
      BY <1>1, <2>2, <3>1, <3>2, <3>3
  <2>5. Len(a) = Len(b \o t)
    BY <1>1, <2>1, <2>2, <2>3
  <2>6. a = b \o t
    BY <2>1, <2>3, <2>4, <2>5, SeqEqual
  <2> QED
    BY <2>6 DEF a, b
<1> QED
  BY <1>2, <1>3

(* s \o t is s and then t.                                                  *)
LEMMA Parted ==
    ASSUME NEW S, NEW s \in Seq(S), NEW t \in Seq(S)
    PROVE  SubSeq(s \o t, 1, Len(s)) = s /\ From(s \o t, Len(s)) = t
<1>1. Len(s) \in 0..Len(s) /\ Len(s) \in Nat /\ 1 \in Nat /\ 1 > 0
  OBVIOUS
<1>2. SubSeq(s \o t, 1, Len(s)) = SubSeq(s, 1, Len(s))
  BY <1>1, Extended
<1>3. SubSeq(s, 1, Len(s)) = s
  BY SubSeqFull
<1>4. From(s, Len(s)) = <<>>
  <2>1. From(s, Len(s)) \in Seq(S) /\ Len(From(s, Len(s))) = 0
    BY <1>1, FromDef
  <2> QED
    BY <2>1, EmptySeq
<1>5. From(s \o t, Len(s)) = <<>> \o t
  BY <1>1, <1>4, Extended
<1>6. <<>> \o t = t
  BY ConcatEmptySeq
<1> QED
  BY <1>2, <1>3, <1>5, <1>6

LEMMA Cancel ==
    ASSUME NEW S, NEW s \in Seq(S), NEW t \in Seq(S), NEW u \in Seq(S), s \o t = s \o u
    PROVE  t = u
<1>1. From(s \o t, Len(s)) = t /\ From(s \o u, Len(s)) = u
  BY Parted
<1> QED
  BY <1>1

(* A sequence is its first n elements and the rest.                         *)
LEMMA Cut ==
    ASSUME NEW S, NEW s \in Seq(S), NEW n \in 0..Len(s)
    PROVE  /\ SubSeq(s, 1, n) \in Seq(S) /\ From(s, n) \in Seq(S)
           /\ Len(SubSeq(s, 1, n)) = n
           /\ Len(From(s, n)) = Len(s) - n
           /\ s = SubSeq(s, 1, n) \o From(s, n)
<1>1. 1 \in 1..(Len(s) + 1) /\ n \in (1 - 1)..Len(s) /\ Len(s) \in n..Len(s) /\ n \in Nat
  OBVIOUS
<1>2. SubSeq(s, 1, n) \o SubSeq(s, n + 1, Len(s)) = SubSeq(s, 1, Len(s))
  BY <1>1, ConcatAdjacentSubSeq
<1>3. SubSeq(s, 1, Len(s)) = s
  BY SubSeqFull
<1>4. SubSeq(s, 1, n) \in Seq(S) /\ Len(SubSeq(s, 1, n)) = n
  <2>1. 1 \in Nat /\ 1 > 0 /\ n <= Len(s)
    OBVIOUS
  <2>2. Len(SubSeq(s, 1, n)) = (IF 1 <= n THEN n - 1 + 1 ELSE 0) /\ SubSeq(s, 1, n) \in Seq(S)
    BY <1>1, <2>1, Part
  <2> QED
    BY <1>1, <2>2
<1> QED
  BY <1>2, <1>3, <1>4, FromDef DEF From

-----------------------------------------------------------------------------
(* Fields, what they may hold, and the messages of a layout.                *)
Field == {Number(width) : width \in 1..8} \cup {Text(limit) : limit \in Nat}

Datum == Nat \cup Seq(Byte)

Typed(field, value) ==
    IF field.kind = "number" THEN value \in Nat /\ value < Weight[field.width]
    ELSE value \in Seq(Byte)

Message(layout, values) ==
    /\ layout \in Seq(Field)
    /\ values \in Seq(Datum)
    /\ Len(values) = Len(layout)
    /\ \A i \in 1..Len(layout) : Typed(layout[i], values[i])

\* What the Writer does not refuse.
Writable(layout, values) ==
    /\ Message(layout, values)
    /\ \A i \in 1..Len(layout) : Fits(layout[i], values[i])

LEMMA FieldKinds ==
    ASSUME NEW field \in Field
    PROVE  \/ /\ field.kind = "number" /\ field.width \in 1..8
              /\ field = Number(field.width)
           \/ /\ field.kind = "text" /\ field.limit \in Nat
              /\ field = Text(field.limit)
  BY DEF Field, Number, Text

LEMMA WrittenTyped ==
    ASSUME NEW field \in Field, NEW value, Typed(field, value)
    PROVE  Written(field, value) \in Seq(Byte)
<1>1. CASE field.kind = "number"
  <2>1. field.width \in 1..8 /\ value \in Nat
    BY <1>1, FieldKinds DEF Typed
  <2> QED
    BY <1>1, <2>1, Digits DEF Written
<1>2. CASE field.kind # "number"
  <2>1. value \in Seq(Byte) /\ Len(value) \in Nat /\ 2 \in 1..8
    BY <1>2 DEF Typed
  <2>2. LittleEndian(Len(value), 2) \in Seq(Byte)
    BY <2>1, Digits
  <2> QED
    BY <1>2, <2>1, <2>2, ConcatProperties DEF Written
<1> QED
  BY <1>1, <1>2

LEMMA WrittenDef ==
    ASSUME NEW layout, NEW values, Message(layout, values)
    PROVE  /\ WrittenUpTo(layout, values) \in [0..Len(layout) -> Seq(Byte)]
           /\ WrittenUpTo(layout, values)[0] = <<>>
           /\ \A i \in 1..Len(layout) :
                  WrittenUpTo(layout, values)[i] =
                      WrittenUpTo(layout, values)[i - 1] \o Written(layout[i], values[i])
<1> DEFINE n == Len(layout)
           D == Seq(Byte)
           E(s, i) == s \o Written(layout[i], values[i])
           step == [i \in 1..n |-> [s \in D |-> E(s, i)]]
<1>1. n \in Nat /\ \A i \in 1..n : layout[i] \in Field /\ Typed(layout[i], values[i])
  BY DEF Message
<1>2. \A s \in D, i \in 1..n : E(s, i) \in D
  BY <1>1, WrittenTyped, ConcatProperties
<1>3. step \in [1..n -> [D -> D]]
  <2> HIDE DEF D, E
  <2> QED
    BY <1>2
<1>4. PICK f : Steps(n, D, <<>>, step, f)
  <2>1. <<>> \in D
    OBVIOUS
  <2> HIDE DEF step, n, D
  <2> QED
    BY <1>1, <1>3, <2>1, Recursion
<1> HIDE DEF D
<1>5. \A i \in 1..n : f[i] = E(f[i - 1], i)
  <2> HIDE DEF E
  <2>1. \A i \in 1..n : i - 1 \in 0..n
    OBVIOUS
  <2> QED
    BY <1>4, <2>1 DEF Steps
<1>6. f \in [0..n -> D] /\ f[0] = <<>>
  BY <1>4 DEF Steps
<1>7. f = [i \in 0..n |-> IF i = 0 THEN <<>> ELSE f[i - 1] \o Written(layout[i], values[i])]
  BY <1>5, <1>6
<1> DEFINE W == WrittenUpTo(layout, values)
<1>8. W = [i \in 0..n |-> IF i = 0 THEN <<>> ELSE W[i - 1] \o Written(layout[i], values[i])]
  BY <1>7 DEF WrittenUpTo
<1> HIDE DEF W
<1>9. W[0] = <<>> /\ \A i \in 1..n : W[i] = E(W[i - 1], i)
  <2>1. \A i \in 1..n : i \in 0..n /\ i # 0
    OBVIOUS
  <2> QED
    BY <1>1, <1>8, <2>1
<1>10. W \in [0..n -> D]
  <2>1. W = [i \in 0..n |-> W[i]]
    BY <1>8
  <2>2. \A i \in 1..n : W[i - 1] \in D => W[i] = step[i][W[i - 1]]
    BY <1>9
  <2>3. <<>> \in D
    BY DEF D
  <2> HIDE DEF step, n
  <2>4. Follows(n, D, <<>>, step, W)
    BY <1>9, <2>1, <2>2 DEF Follows
  <2> QED
    BY <1>1, <1>3, <2>3, <2>4, Stepwise
<1> QED
  BY <1>9, <1>10 DEF W, D

-----------------------------------------------------------------------------
(* Reading.                                                                 *)
Reader == [ok : BOOLEAN, values : Seq(Datum), rest : Seq(Byte)]

ValueOf(bytes, n) == Value(SubSeq(bytes, 1, n))

LEMMA NumberRead ==
    ASSUME NEW r, NEW width \in 1..8
    PROVE  Read(r, Number(width)) =
               IF r.ok /\ Len(r.rest) >= width
               THEN [ok |-> TRUE,
                     values |-> Append(r.values, ValueOf(r.rest, width)),
                     rest |-> From(r.rest, width)]
               ELSE [r EXCEPT !.ok = FALSE]
<1> DEFINE field == Number(width)
<1>1. field.kind = "number" /\ field.width = width /\ width + 0 = width
  BY DEF Number
<1> HIDE DEF field
<1>2. Read(r, field) =
          IF r.ok /\ Len(r.rest) >= width
          THEN [ok |-> TRUE,
                values |-> Append(r.values, ValueOf(r.rest, width)),
                rest |-> From(r.rest, width)]
          ELSE [r EXCEPT !.ok = FALSE]
  BY <1>1 DEF Read, ValueOf
<1> QED
  BY <1>2 DEF field

LEMMA TextRead ==
    ASSUME NEW r, NEW limit
    PROVE  Read(r, Text(limit)) =
               IF /\ r.ok /\ Len(r.rest) >= 2
                  /\ ValueOf(r.rest, 2) <= limit
                  /\ Len(r.rest) >= 2 + ValueOf(r.rest, 2)
               THEN [ok |-> TRUE,
                     values |-> Append(r.values,
                                       SubSeq(r.rest, 3, 2 + ValueOf(r.rest, 2))),
                     rest |-> From(r.rest, 2 + ValueOf(r.rest, 2))]
               ELSE [r EXCEPT !.ok = FALSE]
  BY DEF Read, Text, ValueOf

LEMMA ValueTyped ==
    ASSUME NEW bytes \in Seq(Byte), NEW n \in 1..8, n <= Len(bytes)
    PROVE  ValueOf(bytes, n) \in Nat
<1>1. n \in 0..Len(bytes)
  OBVIOUS
<1> DEFINE part == SubSeq(bytes, 1, n)
<1>2. part \in Seq(Byte) /\ Len(part) = n
  BY <1>1, Cut
<1> HIDE DEF part
<1>3. ValueUpTo(part)[n] \in Nat
  BY <1>2, ValueDef
<1> QED
  BY <1>2, <1>3 DEF ValueOf, Value, part

LEMMA ReadTyped ==
    ASSUME NEW r \in Reader, NEW field \in Field
    PROVE  Read(r, field) \in Reader
<1>1. r.ok \in BOOLEAN /\ r.values \in Seq(Datum) /\ r.rest \in Seq(Byte)
  BY DEF Reader
<1>2. [r EXCEPT !.ok = FALSE] \in Reader
  BY DEF Reader
<1>3. Len(r.rest) \in Nat
  BY <1>1
<1>4. ASSUME NEW width \in 1..8 PROVE Read(r, Number(width)) \in Reader
  <2>1. CASE r.ok /\ Len(r.rest) >= width
    <3>1. ValueOf(r.rest, width) \in Datum
      BY <1>1, <2>1, ValueTyped DEF Datum
    <3>2. Append(r.values, ValueOf(r.rest, width)) \in Seq(Datum)
      BY <1>1, <3>1
    <3>3. width \in 0..Len(r.rest)
      BY <1>3, <2>1
    <3>4. From(r.rest, width) \in Seq(Byte)
      BY <1>1, <3>3, FromDef
    <3>5. [ok |-> TRUE,
           values |-> Append(r.values, ValueOf(r.rest, width)),
           rest |-> From(r.rest, width)] \in Reader
      BY <3>2, <3>4 DEF Reader
    <3> QED
      BY <2>1, <3>5, NumberRead
  <2>2. CASE ~(r.ok /\ Len(r.rest) >= width)
    BY <1>2, <2>2, NumberRead
  <2> QED
    BY <2>1, <2>2
<1>5. ASSUME NEW limit \in Nat PROVE Read(r, Text(limit)) \in Reader
  <2> DEFINE length == ValueOf(r.rest, 2)
             enough == /\ r.ok /\ Len(r.rest) >= 2
                       /\ length <= limit
                       /\ Len(r.rest) >= 2 + length
  <2>1. CASE enough
    <3>1. length \in Nat /\ Len(r.rest) >= 2 + length
      BY <1>1, <2>1, ValueTyped
    <3> HIDE DEF length
    <3>2. 3 \in Nat /\ 2 + length \in Nat /\ 2 + length \in 0..Len(r.rest)
      BY <1>3, <3>1
    <3>3. SubSeq(r.rest, 3, 2 + length) \in Seq(Byte) /\ From(r.rest, 2 + length) \in Seq(Byte)
      BY <1>1, <3>2, Part, FromDef
    <3>4. Append(r.values, SubSeq(r.rest, 3, 2 + length)) \in Seq(Datum)
      BY <1>1, <3>3, AppendProperties DEF Datum
    <3>5. [ok |-> TRUE,
           values |-> Append(r.values, SubSeq(r.rest, 3, 2 + length)),
           rest |-> From(r.rest, 2 + length)] \in Reader
      BY <3>3, <3>4 DEF Reader
    <3> QED
      BY <2>1, <3>5, TextRead DEF length
  <2>2. CASE ~enough
    BY <1>2, <2>2, TextRead
  <2> QED
    BY <2>1, <2>2
<1> QED
  BY <1>4, <1>5 DEF Field

LEMMA ReadDef ==
    ASSUME NEW layout \in Seq(Field), NEW bytes \in Seq(Byte)
    PROVE  /\ ReadUpTo(layout, bytes) \in [0..Len(layout) -> Reader]
           /\ ReadUpTo(layout, bytes)[0] = Reading(bytes)
           /\ \A i \in 1..Len(layout) :
                  ReadUpTo(layout, bytes)[i] = Read(ReadUpTo(layout, bytes)[i - 1], layout[i])
<1> DEFINE n == Len(layout)
           E(r, i) == Read(r, layout[i])
           step == [i \in 1..n |-> [r \in Reader |-> E(r, i)]]
<1>1. n \in Nat /\ \A i \in 1..n : layout[i] \in Field
  OBVIOUS
<1>2. \A r \in Reader, i \in 1..n : E(r, i) \in Reader
  BY <1>1, ReadTyped
<1>3. step \in [1..n -> [Reader -> Reader]]
  <2> HIDE DEF E
  <2> QED
    BY <1>2
<1>4. Reading(bytes) \in Reader
  BY DEF Reading, Reader
<1>5. PICK f : Steps(n, Reader, Reading(bytes), step, f)
  <2> HIDE DEF step, n
  <2> QED
    BY <1>1, <1>3, <1>4, Recursion
<1>6. \A i \in 1..n : f[i] = E(f[i - 1], i)
  <2> HIDE DEF E
  <2>1. \A i \in 1..n : i - 1 \in 0..n
    OBVIOUS
  <2> QED
    BY <1>5, <2>1 DEF Steps
<1>7. f \in [0..n -> Reader] /\ f[0] = Reading(bytes)
  BY <1>5 DEF Steps
<1>8. f = [i \in 0..n |-> IF i = 0 THEN Reading(bytes) ELSE Read(f[i - 1], layout[i])]
  BY <1>6, <1>7
<1> DEFINE R == ReadUpTo(layout, bytes)
<1>9. R = [i \in 0..n |-> IF i = 0 THEN Reading(bytes) ELSE Read(R[i - 1], layout[i])]
  BY <1>8 DEF ReadUpTo
<1> HIDE DEF R
<1>10. R[0] = Reading(bytes) /\ \A i \in 1..n : R[i] = E(R[i - 1], i)
  <2>1. \A i \in 1..n : i \in 0..n /\ i # 0
    OBVIOUS
  <2> QED
    BY <1>1, <1>9, <2>1
<1>11. R \in [0..n -> Reader]
  <2>1. R = [i \in 0..n |-> R[i]]
    BY <1>9
  <2>2. \A i \in 1..n : R[i - 1] \in Reader => R[i] = step[i][R[i - 1]]
    BY <1>10
  <2> HIDE DEF step, n
  <2>3. Follows(n, Reader, Reading(bytes), step, R)
    BY <1>10, <2>1, <2>2 DEF Follows
  <2> QED
    BY <1>1, <1>3, <1>4, <2>3, Stepwise
<1> QED
  BY <1>10, <1>11 DEF R

(* A field that was written is read, and what follows it is left.           *)
LEMMA ReadWritten ==
    ASSUME NEW field \in Field, NEW value, Typed(field, value), Fits(field, value),
           NEW r \in Reader, r.ok, NEW tail \in Seq(Byte),
           r.rest = Written(field, value) \o tail
    PROVE  Read(r, field) =
               [ok |-> TRUE, values |-> Append(r.values, value), rest |-> tail]
<1>1. CASE field.kind = "number"
  <2> DEFINE digits == LittleEndian(value, field.width)
  <2>1. field.width \in 1..8 /\ field = Number(field.width) /\ value \in Nat
        /\ value < Weight[field.width]
    BY <1>1, FieldKinds DEF Typed
  <2>2. digits \in Seq(Byte) /\ Len(digits) = field.width /\ Value(digits) = value
    BY <2>1, Digits
  <2>3. r.rest = digits \o tail
    BY <1>1 DEF Written
  <2> HIDE DEF digits
  <2>4. SubSeq(r.rest, 1, field.width) = digits /\ From(r.rest, field.width) = tail
    BY <2>2, <2>3, Parted
  <2>5. Len(r.rest) >= field.width
    <3>1. Len(r.rest) = Len(digits) + Len(tail)
      BY <2>2, <2>3, Joined
    <3>2. Len(tail) \in Nat
      OBVIOUS
    <3> QED
      BY <2>1, <2>2, <3>1, <3>2
  <2>6. ValueOf(r.rest, field.width) = value
    BY <2>2, <2>4 DEF ValueOf
  <2>7. Read(r, Number(field.width)) =
            [ok |-> TRUE, values |-> Append(r.values, value), rest |-> tail]
    BY <2>1, <2>4, <2>5, <2>6, NumberRead
  <2> QED
    BY <2>1, <2>7
<1>2. CASE field.kind = "text"
  <2> DEFINE length == Len(value)
             head == LittleEndian(length, 2)
  <2>1. field.limit \in Nat /\ field = Text(field.limit)
    BY <1>2, FieldKinds
  <2>2. value \in Seq(Byte) /\ length \in Nat /\ length <= field.limit /\ length < Weight[2]
    BY <1>2 DEF Typed, Fits
  <2>3. head \in Seq(Byte) /\ Len(head) = 2 /\ Value(head) = length
    BY <2>2, Digits
  <2>4. r.rest = (head \o value) \o tail
    BY <1>2 DEF Written
  <2> HIDE DEF head
  <2>5. r.rest = head \o (value \o tail)
    BY <2>2, <2>3, <2>4, ConcatAssociative
  <2>6. value \o tail \in Seq(Byte)
    BY <2>2, ConcatProperties
  <2>7. head \o value \in Seq(Byte) /\ Len(head \o value) = 2 + length
    <3>1. head \o value \in Seq(Byte) /\ Len(head \o value) = Len(head) + Len(value)
      <4>1. head \in Seq(Byte) /\ value \in Seq(Byte)
        BY <2>2, <2>3
      <4> QED
        BY <4>1, Joined
    <3> QED
      BY <2>3, <3>1
  <2>8. SubSeq(r.rest, 1, 2) = head
    BY <2>3, <2>5, <2>6, Parted
  <2>9. ValueOf(r.rest, 2) = length
    BY <2>3, <2>8 DEF ValueOf
  <2>10. From(r.rest, 2 + length) = tail
    BY <2>4, <2>7, Parted
  <2>11. SubSeq(r.rest, 3, 2 + length) = value
    <3>1. 2 + length \in 0..Len(head \o value) /\ 3 \in Nat /\ 3 > 0
      BY <2>2, <2>7
    <3>2. SubSeq((head \o value) \o tail, 3, 2 + length) = SubSeq(head \o value, 3, 2 + length)
      BY <2>7, <3>1, Extended
    <3>3. From(head \o value, 2) = value
      BY <2>2, <2>3, Parted
    <3>4. SubSeq(head \o value, 3, 2 + length) = value
      BY <2>7, <3>3 DEF From
    <3> QED
      BY <2>4, <3>2, <3>4
  <2>12. Len(r.rest) >= 2 + length /\ Len(r.rest) >= 2
    <3>1. Len(r.rest) = (2 + length) + Len(tail)
      BY <2>4, <2>7, ConcatProperties
    <3> QED
      BY <2>2, <3>1
  <2> HIDE DEF length
  <2>13. Read(r, Text(field.limit)) =
             [ok |-> TRUE, values |-> Append(r.values, value), rest |-> tail]
    BY <2>2, <2>9, <2>10, <2>11, <2>12, TextRead
  <2> QED
    BY <2>1, <2>13
<1> QED
  BY <1>1, <1>2, FieldKinds

\* A reader with more behind what it still has to read.
With(r, more) == [ok |-> r.ok, values |-> r.values, rest |-> r.rest \o more]

(* What is read whatever follows it is read the same.                       *)
LEMMA ReadMore ==
    ASSUME NEW field \in Field, NEW r \in Reader, NEW more \in Seq(Byte), Read(r, field).ok
    PROVE  r.ok /\ Read(With(r, more), field) = With(Read(r, field), more)
<1> DEFINE s == With(r, more)
<1>1. /\ r.values \in Seq(Datum) /\ r.rest \in Seq(Byte) /\ Len(r.rest) \in Nat
      /\ s.ok = r.ok /\ s.values = r.values /\ s.rest = r.rest \o more
  BY DEF Reader, With
<1>2. Len(s.rest) = Len(r.rest) + Len(more) /\ Len(more) \in Nat
  BY <1>1, ConcatProperties
<1> HIDE DEF s
<1>3. ASSUME NEW width \in 1..8, Read(r, Number(width)).ok
      PROVE  r.ok /\ Read(s, Number(width)) = With(Read(r, Number(width)), more)
  <2>1. r.ok /\ Len(r.rest) >= width
    BY <1>3, NumberRead DEF Reader
  <2>2. width \in 0..Len(r.rest) /\ 1 \in Nat /\ 1 > 0 /\ Len(s.rest) >= width
    BY <1>1, <1>2, <2>1
  <2>3. /\ SubSeq(s.rest, 1, width) = SubSeq(r.rest, 1, width)
        /\ From(s.rest, width) = From(r.rest, width) \o more
    <3>1. r.rest \in Seq(Byte)
      BY <1>1
    <3>2. \A m \in Nat : m > 0 => SubSeq(r.rest \o more, m, width) = SubSeq(r.rest, m, width)
      BY <2>2, <3>1, Extended
    <3>3. /\ SubSeq(r.rest \o more, 1, width) = SubSeq(r.rest, 1, width)
          /\ From(r.rest \o more, width) = From(r.rest, width) \o more
      BY <2>2, <3>1, <3>2, Extended
    <3> QED
      BY <1>1, <3>3
  <2>4. ValueOf(s.rest, width) = ValueOf(r.rest, width)
    BY <2>3 DEF ValueOf
  <2>5. Read(r, Number(width)) = [ok |-> TRUE,
                                  values |-> Append(r.values, ValueOf(r.rest, width)),
                                  rest |-> From(r.rest, width)]
    BY <2>1, NumberRead
  <2>6. Read(s, Number(width)) = [ok |-> TRUE,
                                  values |-> Append(r.values, ValueOf(r.rest, width)),
                                  rest |-> From(r.rest, width) \o more]
    BY <1>1, <2>1, <2>2, <2>3, <2>4, NumberRead
  <2> QED
    BY <2>1, <2>5, <2>6 DEF With
<1>4. ASSUME NEW limit \in Nat, Read(r, Text(limit)).ok
      PROVE  r.ok /\ Read(s, Text(limit)) = With(Read(r, Text(limit)), more)
  <2> DEFINE length == ValueOf(r.rest, 2)
  <2>1. r.ok /\ Len(r.rest) >= 2 /\ length <= limit /\ Len(r.rest) >= 2 + length
    BY <1>4, TextRead DEF Reader
  <2>2. length \in Nat
    BY <1>1, <2>1, ValueTyped
  <2>3. ValueOf(s.rest, 2) = length
    <3>1. 2 \in 0..Len(r.rest) /\ 1 \in Nat /\ 1 > 0
      BY <1>1, <2>1
    <3>2. SubSeq(s.rest, 1, 2) = SubSeq(r.rest, 1, 2)
      BY <1>1, <3>1, Extended
    <3> QED
      BY <3>2 DEF ValueOf
  <2>4. Read(r, Text(limit)) = [ok |-> TRUE,
                                values |-> Append(r.values, SubSeq(r.rest, 3, 2 + length)),
                                rest |-> From(r.rest, 2 + length)]
    BY <2>1, TextRead
  <2> HIDE DEF length
  <2>5. /\ SubSeq(s.rest, 3, 2 + length) = SubSeq(r.rest, 3, 2 + length)
        /\ From(s.rest, 2 + length) = From(r.rest, 2 + length) \o more
    <3>1. 2 + length \in 0..Len(r.rest) /\ 3 \in Nat /\ 3 > 0
      BY <1>1, <2>1, <2>2
    <3>2. /\ SubSeq(r.rest \o more, 3, 2 + length) = SubSeq(r.rest, 3, 2 + length)
          /\ From(r.rest \o more, 2 + length) = From(r.rest, 2 + length) \o more
      BY <1>1, <3>1, Extended
    <3> QED
      BY <1>1, <3>2
  <2>6. Len(s.rest) >= 2 /\ Len(s.rest) >= 2 + length
    BY <1>1, <1>2, <2>1, <2>2
  <2>7. Read(s, Text(limit)) = [ok |-> TRUE,
                                values |-> Append(r.values, SubSeq(r.rest, 3, 2 + length)),
                                rest |-> From(r.rest, 2 + length) \o more]
    BY <1>1, <2>1, <2>3, <2>5, <2>6, TextRead
  <2> QED
    BY <2>1, <2>4, <2>7 DEF With
<1> QED
  BY <1>3, <1>4 DEF Field, s

-----------------------------------------------------------------------------
(* Messages.                                                                *)
LEMMA Longer ==
    ASSUME NEW S, NEW s \in Seq(S), NEW i \in 0..(Len(s) - 1)
    PROVE  SubSeq(s, 1, i + 1) = Append(SubSeq(s, 1, i), s[i + 1])
<1>1. 1 \in 1..Len(s) /\ i + 1 \in 1..Len(s) /\ (i + 1) - 1 = i /\ i \in 0..Len(s)
  OBVIOUS
<1>2. SubSeq(s, 1, i + 1) = SubSeq(s, 1, i) \o <<s[i + 1]>>
  BY <1>1, SubSeqRecursiveSecond
<1>3. SubSeq(s, 1, i) \in Seq(S) /\ s[i + 1] \in S
  BY <1>1, Cut, ElementOfSeq
<1> QED
  BY <1>2, <1>3, AppendIsConcat

(* All that is written of a message starts with what its first fields are.  *)
LEMMA WrittenPrefix ==
    ASSUME NEW layout, NEW values, Message(layout, values), NEW i \in 0..Len(layout)
    PROVE  \E rest \in Seq(Byte) :
               WrittenUpTo(layout, values)[Len(layout)] = WrittenUpTo(layout, values)[i] \o rest
<1> DEFINE n == Len(layout)
           W == WrittenUpTo(layout, values)
           S == {k \in 0..n : \E rest \in Seq(Byte) : W[n] = W[n - k] \o rest}
<1>1. n \in Nat /\ W \in [0..n -> Seq(Byte)]
      /\ \A j \in 1..n : /\ W[j] = W[j - 1] \o Written(layout[j], values[j])
                         /\ Written(layout[j], values[j]) \in Seq(Byte)
  <2>1. n \in Nat /\ \A j \in 1..n : layout[j] \in Field /\ Typed(layout[j], values[j])
    BY DEF Message
  <2>2. \A j \in 1..n : Written(layout[j], values[j]) \in Seq(Byte)
    BY <2>1, WrittenTyped
  <2>3. W \in [0..n -> Seq(Byte)]
        /\ \A j \in 1..n : W[j] = W[j - 1] \o Written(layout[j], values[j])
    BY WrittenDef
  <2> QED
    BY <2>1, <2>2, <2>3
<1> HIDE DEF n, W
<1>2. 0 \in S
  <2>1. n - 0 = n /\ 0 \in 0..n /\ W[n] \in Seq(Byte)
    BY <1>1
  <2>2. W[n] = W[n] \o <<>> /\ <<>> \in Seq(Byte)
    BY <2>1, ConcatEmptySeq
  <2> QED
    BY <2>1, <2>2
<1>3. ASSUME NEW k \in 0..(n - 1), k \in S PROVE k + 1 \in S
  <2>1. n - k \in 1..n /\ n - (k + 1) = (n - k) - 1 /\ n - (k + 1) \in 0..n /\ k + 1 \in 0..n
    BY <1>1
  <2>2. PICK rest \in Seq(Byte) : W[n] = W[n - k] \o rest
    BY <1>3
  <2> DEFINE w == Written(layout[n - k], values[n - k])
  <2>3. W[n - k] = W[n - (k + 1)] \o w /\ w \in Seq(Byte) /\ W[n - (k + 1)] \in Seq(Byte)
    BY <1>1, <2>1
  <2> HIDE DEF w
  <2> DEFINE v == W[n - (k + 1)]
  <2>4. W[n] = v \o (w \o rest)
    <3>1. v \in Seq(Byte) /\ W[n] = (v \o w) \o rest
      BY <2>2, <2>3
    <3> HIDE DEF v
    <3> QED
      BY <2>3, <3>1, ConcatAssociative
  <2>5. w \o rest \in Seq(Byte)
    BY <2>3, Joined
  <2> QED
    BY <2>1, <2>4, <2>5
<1>4. \A k \in 0..n : k \in S
  <2> HIDE DEF S
  <2> QED
    BY <1>1, <1>2, <1>3, Induction
<1>5. n - i \in 0..n /\ n - (n - i) = i
  BY <1>1 DEF n
<1>6. \E rest \in Seq(Byte) : W[n] = W[n - (n - i)] \o rest
  BY <1>4, <1>5
<1> QED
  BY <1>5, <1>6 DEF n, W

(* A message that was written is read, and what follows it is left.         *)
LEMMA ReadBack ==
    ASSUME NEW layout, NEW values, Writable(layout, values), NEW tail \in Seq(Byte)
    PROVE  ReadAll(layout, WrittenUpTo(layout, values)[Len(layout)] \o tail) =
               [ok |-> TRUE, values |-> values, rest |-> tail]
<1> DEFINE n == Len(layout)
           W == WrittenUpTo(layout, values)
           bytes == W[n] \o tail
           R == ReadUpTo(layout, bytes)
           Q(i) == /\ R[i].ok /\ R[i].values = SubSeq(values, 1, i)
                   /\ bytes = W[i] \o R[i].rest
           S == {i \in 0..n : Q(i)}
<1>1. /\ layout \in Seq(Field) /\ n \in Nat
      /\ values \in Seq(Datum) /\ Len(values) = n
      /\ \A i \in 1..n : /\ layout[i] \in Field
                         /\ Typed(layout[i], values[i]) /\ Fits(layout[i], values[i])
  BY DEF Writable, Message
<1>2. W \in [0..n -> Seq(Byte)] /\ W[0] = <<>>
      /\ \A i \in 1..n : W[i] = W[i - 1] \o Written(layout[i], values[i])
  BY WrittenDef DEF Writable
<1>3. \A i \in 0..n : \E rest \in Seq(Byte) : W[n] = W[i] \o rest
  BY WrittenPrefix DEF Writable
<1> HIDE DEF n, W
<1>4. W[n] \in Seq(Byte) /\ bytes \in Seq(Byte)
  BY <1>1, <1>2, Joined
<1> HIDE DEF bytes
<1>5. R \in [0..n -> Reader] /\ R[0] = Reading(bytes)
      /\ \A i \in 1..n : R[i] = Read(R[i - 1], layout[i])
  BY <1>1, <1>4, ReadDef DEF n
<1> HIDE DEF R
<1>6. 0 \in S
  <2>1. R[0].ok /\ R[0].values = <<>> /\ R[0].rest = bytes
    BY <1>5 DEF Reading
  <2>2. SubSeq(values, 1, 0) = <<>>
    <3>1. 1 \in Int /\ 0 \in Int /\ 0 < 1
      OBVIOUS
    <3> QED
      BY <3>1, SubSeqEmpty
  <2>3. <<>> \o bytes = bytes
    BY <1>4, ConcatEmptySeq
  <2>4. bytes = W[0] \o R[0].rest /\ R[0].values = SubSeq(values, 1, 0)
    BY <1>2, <2>1, <2>2, <2>3
  <2>5. Q(0)
    BY <2>1, <2>4
  <2> HIDE DEF Q
  <2> QED
    BY <1>1, <2>5
<1>7. ASSUME NEW i \in 0..(n - 1), i \in S PROVE i + 1 \in S
  <2> DEFINE w == Written(layout[i + 1], values[i + 1])
  <2>1. i \in 0..n /\ i + 1 \in 1..n /\ i + 1 \in 0..n /\ (i + 1) - 1 = i
    BY <1>1
  <2>2. W[i + 1] = W[i] \o w /\ W[i] \in Seq(Byte)
    BY <1>2, <2>1
  <2>3. w \in Seq(Byte)
    BY <1>1, <2>1, WrittenTyped
  <2>4. PICK rest \in Seq(Byte) : W[n] = W[i + 1] \o rest
    BY <1>3, <2>1
  <2> HIDE DEF w
  <2>5. rest \o tail \in Seq(Byte) /\ w \o (rest \o tail) \in Seq(Byte)
    <3>1. rest \o tail \in Seq(Byte)
      BY Joined
    <3> QED
      BY <2>3, <3>1, Joined
  <2>6. bytes = W[i + 1] \o (rest \o tail)
    <3> DEFINE v == W[i + 1]
    <3>1. v \in Seq(Byte) /\ bytes = (v \o rest) \o tail
      BY <1>2, <2>1, <2>4 DEF bytes
    <3> HIDE DEF v
    <3>2. (v \o rest) \o tail = v \o (rest \o tail)
      BY <3>1, ConcatAssociative
    <3> QED
      BY <3>1, <3>2 DEF v
  <2>7. bytes = W[i] \o (w \o (rest \o tail))
    <3> DEFINE v == W[i]
               t == rest \o tail
    <3>1. v \in Seq(Byte) /\ t \in Seq(Byte) /\ bytes = (v \o w) \o t
      BY <2>2, <2>5, <2>6
    <3> HIDE DEF v, t
    <3>2. (v \o w) \o t = v \o (w \o t)
      <4>1. v \in Seq(Byte) /\ w \in Seq(Byte) /\ t \in Seq(Byte)
        BY <2>3, <3>1
      <4> QED
        BY <4>1, ConcatAssociative
    <3>3. bytes = v \o (w \o t)
      BY <3>1, <3>2
    <3> QED
      BY <3>3 DEF v, t
  <2>8. R[i].ok /\ R[i].values = SubSeq(values, 1, i) /\ bytes = W[i] \o R[i].rest
        /\ R[i] \in Reader /\ R[i].rest \in Seq(Byte)
    BY <1>5, <1>7, <2>1 DEF Reader
  <2>9. R[i].rest = w \o (rest \o tail)
    BY <2>2, <2>5, <2>7, <2>8, Cancel
  <2>10. Read(R[i], layout[i + 1]) = [ok |-> TRUE,
                                      values |-> Append(R[i].values, values[i + 1]),
                                      rest |-> rest \o tail]
    BY <1>1, <2>1, <2>5, <2>8, <2>9, ReadWritten DEF w
  <2>11. R[i + 1] = Read(R[i], layout[i + 1])
    BY <1>5, <2>1
  <2>12. Append(SubSeq(values, 1, i), values[i + 1]) = SubSeq(values, 1, i + 1)
    BY <1>1, <2>1, Longer
  <2>13. R[i + 1].ok /\ R[i + 1].values = SubSeq(values, 1, i + 1)
         /\ R[i + 1].rest = rest \o tail
    BY <2>8, <2>10, <2>11, <2>12
  <2> QED
    BY <2>1, <2>6, <2>13
<1>8. n \in S
  <2> HIDE DEF S
  <2>1. \A i \in 0..n : i \in S
    BY <1>1, <1>6, <1>7, Induction
  <2> QED
    BY <1>1, <2>1
<1>9. R[n].ok /\ R[n].values = values /\ R[n].rest = tail /\ R[n] \in Reader
  <2>1. R[n] \in Reader /\ R[n].rest \in Seq(Byte) /\ bytes = W[n] \o R[n].rest
    BY <1>1, <1>5, <1>8 DEF Reader
  <2>2. W[n] \o tail = W[n] \o R[n].rest
    BY <2>1 DEF bytes
  <2>3. R[n].rest = tail
    BY <1>4, <2>1, <2>2, Cancel
  <2>4. SubSeq(values, 1, n) = values
    BY <1>1, SubSeqFull
  <2> QED
    BY <1>8, <2>1, <2>3, <2>4
<1>10. R[n] = [ok |-> TRUE, values |-> values, rest |-> tail]
  BY <1>9 DEF Reader
<1> QED
  BY <1>10 DEF ReadAll, R, bytes, n, W

LEMMA EncodeIs ==
    ASSUME NEW layout, NEW values, Writable(layout, values)
    PROVE  /\ Encode(layout, values) = WrittenUpTo(layout, values)[Len(layout)]
           /\ Encode(layout, values) \in Seq(Byte)
<1>1. Message(layout, values) /\ layout \in Seq(Field)
      /\ \A i \in 1..Len(layout) : Fits(layout[i], values[i])
  BY DEF Writable, Message
<1>2. DOMAIN layout = 1..Len(layout) /\ Len(layout) \in Nat
  BY <1>1
<1>3. WrittenUpTo(layout, values) \in [0..Len(layout) -> Seq(Byte)]
  BY <1>1, WrittenDef
<1>4. WrittenUpTo(layout, values)[Len(layout)] \in Seq(Byte)
  BY <1>2, <1>3
<1> QED
  BY <1>1, <1>2, <1>4 DEF Encode

\* What the decoders of a layout read.
Accepted(layout, bytes) ==
    ReadAll(layout, bytes).ok /\ ReadAll(layout, bytes).rest = <<>>

(* decode_hello, decode_welcome, decode_goodbye and decode_player_state     *)
(* read what their encoders write (protocol.cpp:105): every message whose   *)
(* numbers have their width and whose texts their limit, as it was.         *)
THEOREM MessagesRoundTrip ==
    ASSUME NEW layout, NEW values, Writable(layout, values)
    PROVE  /\ Accepted(layout, Encode(layout, values))
           /\ Decode(layout, Encode(layout, values)) = values
<1> DEFINE bytes == Encode(layout, values)
<1>1. bytes \in Seq(Byte) /\ bytes = WrittenUpTo(layout, values)[Len(layout)]
  BY EncodeIs
<1>2. <<>> \in Seq(Byte)
  OBVIOUS
<1>3. ReadAll(layout, WrittenUpTo(layout, values)[Len(layout)] \o <<>>) =
          [ok |-> TRUE, values |-> values, rest |-> <<>>]
  BY <1>2, ReadBack
<1> HIDE DEF bytes
<1>4. bytes \o <<>> = bytes
  BY <1>1, ConcatEmptySeq
<1>5. ReadAll(layout, bytes) = [ok |-> TRUE, values |-> values, rest |-> <<>>]
  BY <1>1, <1>3, <1>4
<1>6. Accepted(layout, bytes) /\ Decode(layout, bytes) = values
  BY <1>5 DEF Accepted, Decode
<1> QED
  BY <1>6 DEF bytes

(* What is read of a whole layout is read the same whatever follows it.     *)
LEMMA ReadAllMore ==
    ASSUME NEW layout \in Seq(Field), NEW bytes \in Seq(Byte), NEW more \in Seq(Byte),
           ReadAll(layout, bytes).ok
    PROVE  ReadAll(layout, bytes \o more) = With(ReadAll(layout, bytes), more)
<1> DEFINE n == Len(layout)
           R == ReadUpTo(layout, bytes)
           Z == ReadUpTo(layout, bytes \o more)
           Q(i) == R[i].ok => Z[i] = With(R[i], more)
           S == {i \in 0..n : Q(i)}
<1>1. n \in Nat /\ \A i \in 1..n : layout[i] \in Field
  OBVIOUS
<1>2. bytes \o more \in Seq(Byte)
  BY Joined
<1>3. /\ R \in [0..n -> Reader] /\ R[0] = Reading(bytes)
      /\ \A i \in 1..n : R[i] = Read(R[i - 1], layout[i])
  BY ReadDef
<1>4. /\ Z[0] = Reading(bytes \o more)
      /\ \A i \in 1..n : Z[i] = Read(Z[i - 1], layout[i])
  BY <1>2, ReadDef
<1> HIDE DEF n, R, Z
<1>5. 0 \in S
  <2>1. Q(0)
    BY <1>3, <1>4 DEF Reading, With
  <2> HIDE DEF Q
  <2> QED
    BY <1>1, <2>1
<1>6. ASSUME NEW i \in 0..(n - 1), i \in S PROVE i + 1 \in S
  <2>1. i \in 0..n /\ i + 1 \in 1..n /\ i + 1 \in 0..n /\ (i + 1) - 1 = i
    BY <1>1
  <2>2. R[i + 1] = Read(R[i], layout[i + 1]) /\ Z[i + 1] = Read(Z[i], layout[i + 1])
    BY <1>3, <1>4, <2>1
  <2>3. R[i] \in Reader /\ layout[i + 1] \in Field
    BY <1>1, <1>3, <2>1
  <2>4. ASSUME R[i + 1].ok PROVE Z[i + 1] = With(R[i + 1], more)
    <3>1. R[i].ok /\ Read(With(R[i], more), layout[i + 1]) = With(R[i + 1], more)
      BY <2>2, <2>3, <2>4, ReadMore
    <3>2. Z[i] = With(R[i], more)
      BY <1>6, <3>1
    <3> QED
      BY <2>2, <3>1, <3>2
  <2>5. Q(i + 1)
    BY <2>4
  <2> HIDE DEF Q
  <2> QED
    BY <2>1, <2>5
<1>7. Q(n)
  <2> HIDE DEF S
  <2>1. \A i \in 0..n : i \in S
    BY <1>1, <1>5, <1>6, Induction
  <2>2. n \in S
    BY <1>1, <2>1
  <2> HIDE DEF Q
  <2> QED
    BY <2>2 DEF S
<1> QED
  BY <1>7 DEF ReadAll, R, Z, n

(* No message with anything behind it is read, r.remaining() == 0           *)
(* (protocol.cpp:116), and so none whose end is missing either: of two byte *)
(* vectors of which one starts with the other a decoder reads one at most.  *)
THEOREM NoPrefixIsRead ==
    ASSUME NEW layout \in Seq(Field), NEW bytes \in Seq(Byte), NEW more \in Seq(Byte),
           more # <<>>, Accepted(layout, bytes)
    PROVE  ~Accepted(layout, bytes \o more) /\ Decode(layout, bytes \o more) = Refused
<1>1. ReadAll(layout, bytes \o more) = With(ReadAll(layout, bytes), more)
  BY ReadAllMore DEF Accepted
<1>2. ReadAll(layout, bytes \o more).rest = <<>> \o more
  BY <1>1 DEF Accepted, With
<1>3. <<>> \o more = more
  BY ConcatEmptySeq
<1> QED
  BY <1>2, <1>3 DEF Accepted, Decode

(* So is a written message cut short anywhere, or with a byte too many.     *)
LEMMA CutIsRefused ==
    ASSUME NEW layout \in Seq(Field), NEW bytes \in Seq(Byte), Accepted(layout, bytes)
    PROVE  /\ \A n \in 0..(Len(bytes) - 1) :
                  /\ ~Accepted(layout, SubSeq(bytes, 1, n))
                  /\ Decode(layout, SubSeq(bytes, 1, n)) = Refused
           /\ Decode(layout, Append(bytes, 0)) = Refused
<1>1. ASSUME NEW n \in 0..(Len(bytes) - 1)
      PROVE  ~Accepted(layout, SubSeq(bytes, 1, n))
  <2> DEFINE head == SubSeq(bytes, 1, n)
             more == From(bytes, n)
  <2>1. /\ head \in Seq(Byte) /\ more \in Seq(Byte)
        /\ Len(more) = Len(bytes) - n /\ bytes = head \o more
    <3>1. n \in 0..Len(bytes)
      OBVIOUS
    <3> QED
      BY <3>1, Cut
  <2> HIDE DEF head, more
  <2>2. more # <<>>
    BY <2>1
  <2>3. ~Accepted(layout, head)
    BY <2>1, <2>2, NoPrefixIsRead
  <2> QED
    BY <2>3 DEF head
<1>2. \A n \in 0..(Len(bytes) - 1) : Decode(layout, SubSeq(bytes, 1, n)) = Refused
  BY <1>1 DEF Accepted, Decode
<1>3. Decode(layout, Append(bytes, 0)) = Refused
  <2>1. 0 \in Byte /\ <<0>> \in Seq(Byte) /\ <<0>> # <<>>
    BY CodecAssumption DEF Byte
  <2>2. Append(bytes, 0) = bytes \o <<0>>
    BY <2>1, AppendIsConcat
  <2> QED
    BY <2>1, <2>2, NoPrefixIsRead
<1> QED
  BY <1>1, <1>2, <1>3

-----------------------------------------------------------------------------
(* The messages RoundTrip asks about.                                       *)
LEMMA Weights ==
    /\ Weight[1] = Base /\ Weight[2] <= Weight[4]
    /\ \A w \in 1..8 : Base <= Weight[w] /\ Weight[IF w > 4 THEN 4 ELSE w] <= Weight[w]
<1>1. \A k \in 0..7 : Weight[k] <= Weight[k + 1]
  <2> SUFFICES ASSUME NEW k \in 0..7 PROVE Weight[k] <= Weight[k + 1]
    OBVIOUS
  <2>1. Weight[k + 1] = Base * Weight[k] /\ Weight[k] \in Nat
    BY WeightDef
  <2> QED
    BY <2>1, CodecAssumption
<1>2. Weight[1] = Base
  BY WeightDef, CodecAssumption
<1>3. /\ Weight[1] <= Weight[2] /\ Weight[2] <= Weight[3] /\ Weight[3] <= Weight[4]
      /\ Weight[4] <= Weight[5] /\ Weight[5] <= Weight[6] /\ Weight[6] <= Weight[7]
      /\ Weight[7] <= Weight[8]
  BY <1>1
<1>4. /\ Weight[1] \in Nat /\ Weight[2] \in Nat /\ Weight[3] \in Nat /\ Weight[4] \in Nat
      /\ Weight[5] \in Nat /\ Weight[6] \in Nat /\ Weight[7] \in Nat /\ Weight[8] \in Nat
  BY WeightDef
<1>5. ASSUME NEW w \in 1..8
      PROVE  Base <= Weight[w] /\ Weight[IF w > 4 THEN 4 ELSE w] <= Weight[w]
  <2>1. w = 1 \/ w = 2 \/ w = 3 \/ w = 4 \/ w = 5 \/ w = 6 \/ w = 7 \/ w = 8
    OBVIOUS
  <2> QED
    BY <1>2, <1>3, <1>4, <2>1
<1>6. Weight[2] <= Weight[4]
  BY <1>3, <1>4
<1> QED
  BY <1>2, <1>5, <1>6

LEMMA BytesTyped ==
    ASSUME NEW n \in Nat
    PROVE  Bytes(n) \in Seq(Byte) /\ Len(Bytes(n)) = n
<1>1. \A i \in 1..n : i % Base \in Byte
  BY CodecAssumption DEF Byte
<1> QED
  BY <1>1 DEF Bytes

LEMMA SampleTyped ==
    ASSUME NEW i \in 1..15, NEW width \in 1..8,
           NEW which \in {"least", "index", "greatest"}
    PROVE  Sample(i, width, which) \in Nat /\ Sample(i, width, which) < Weight[width]
<1> DEFINE w == IF width > 4 THEN 4 ELSE width
<1>1. /\ Weight[width] \in Nat /\ Weight[width] > 0 /\ Base <= Weight[width]
      /\ Weight[w] \in Nat /\ Weight[w] > 0 /\ Weight[w] <= Weight[width]
      /\ i < Base /\ Base \in Nat
  BY WeightDef, Weights, CodecAssumption
<1>2. \/ Sample(i, width, which) = 0
      \/ Sample(i, width, which) = i
      \/ Sample(i, width, which) = Weight[w] - 1
  BY DEF Sample
<1> HIDE DEF w
<1> QED
  BY <1>1, <1>2

LEMMA InputsTyped ==
    ASSUME NEW layout \in Seq(Field), Len(layout) <= 15, NEW values \in Inputs(layout)
    PROVE  Message(layout, values)
<1>1. PICK which \in {"least", "index", "greatest"},
           length \in [Texts(layout) -> {"empty", "short", "limit", "beyond"}] :
          values = [i \in DOMAIN layout |->
              IF i \in Texts(layout)
              THEN Bytes(CASE length[i] = "empty" -> 0
                           [] length[i] = "short" -> 3
                           [] length[i] = "limit" -> layout[i].limit
                           [] length[i] = "beyond" -> layout[i].limit + 1)
              ELSE Sample(i, layout[i].width, which)]
  BY DEF Inputs
<1>2. DOMAIN layout = 1..Len(layout) /\ Len(layout) \in Nat
  OBVIOUS
<1>3. ASSUME NEW i \in 1..Len(layout)
      PROVE  values[i] \in Datum /\ Typed(layout[i], values[i])
  <2>1. layout[i] \in Field /\ i \in 1..15
    BY <1>2
  <2>2. CASE layout[i].kind = "text"
    <3> DEFINE k == CASE length[i] = "empty" -> 0
                      [] length[i] = "short" -> 3
                      [] length[i] = "limit" -> layout[i].limit
                      [] length[i] = "beyond" -> layout[i].limit + 1
    <3>1. i \in Texts(layout)
      BY <1>2, <2>2 DEF Texts
    <3>2. layout[i].limit \in Nat /\ length[i] \in {"empty", "short", "limit", "beyond"}
      BY <2>1, <2>2, <3>1, FieldKinds
    <3>3. k \in Nat
      BY <3>2
    <3>4. values[i] = Bytes(k)
      BY <1>1, <1>2, <3>1
    <3> HIDE DEF k
    <3>5. values[i] \in Seq(Byte)
      BY <3>3, <3>4, BytesTyped
    <3> QED
      BY <2>2, <3>5 DEF Typed, Datum
  <2>3. CASE layout[i].kind = "number"
    <3>1. layout[i].width \in 1..8
      BY <2>1, <2>3, FieldKinds
    <3>2. i \notin Texts(layout)
      BY <2>3 DEF Texts
    <3>3. values[i] = Sample(i, layout[i].width, which)
      BY <1>1, <1>2, <3>2
    <3> QED
      BY <2>1, <2>3, <3>1, <3>3, SampleTyped DEF Typed, Datum
  <2> QED
    BY <2>1, <2>2, <2>3, FieldKinds
<1>4. values = [i \in 1..Len(layout) |-> values[i]]
  BY <1>1, <1>2
<1>5. values \in Seq(Datum) /\ Len(values) = Len(layout)
  BY <1>2, <1>3, <1>4
<1> QED
  BY <1>3, <1>5 DEF Message

(* A message is as long as its first field at least.                        *)
LEMMA EncodeLength ==
    ASSUME NEW layout, NEW values, Writable(layout, values), Len(layout) >= 1,
           layout[1].kind = "number" => layout[1].width >= 2
    PROVE  Len(Encode(layout, values)) >= 2
<1>1. Message(layout, values) /\ layout \in Seq(Field) /\ Len(layout) \in Nat
  BY DEF Writable, Message
<1>2. 1 \in 1..Len(layout) /\ 1 \in 0..Len(layout) /\ 1 - 1 = 0
  BY <1>1
<1> DEFINE W == WrittenUpTo(layout, values)
           first == Written(layout[1], values[1])
<1>3. layout[1] \in Field /\ Typed(layout[1], values[1])
  BY <1>1, <1>2 DEF Message
<1>4. first \in Seq(Byte)
  BY <1>3, WrittenTyped
<1>5. W[1] = <<>> \o first
  <2>1. \A i \in 1..Len(layout) : W[i] = W[i - 1] \o Written(layout[i], values[i])
    BY <1>1, WrittenDef
  <2>2. W[1] = W[1 - 1] \o first
    BY <1>2, <2>1
  <2>3. W[0] = <<>>
    BY <1>1, WrittenDef
  <2> QED
    BY <1>2, <2>2, <2>3
<1>6. Len(first) >= 2
  <2>1. CASE layout[1].kind = "number"
    <3>1. layout[1].width \in 1..8 /\ values[1] \in Nat
      BY <1>3, <2>1, FieldKinds DEF Typed
    <3>2. Len(LittleEndian(values[1], layout[1].width)) = layout[1].width
      BY <3>1, Digits
    <3> QED
      BY <2>1, <3>1, <3>2 DEF Written
  <2>2. CASE layout[1].kind # "number"
    <3>1. values[1] \in Seq(Byte) /\ Len(values[1]) \in Nat /\ 2 \in 1..8
      BY <1>3, <2>2 DEF Typed
    <3> DEFINE head == LittleEndian(Len(values[1]), 2)
    <3>2. head \in Seq(Byte) /\ Len(head) = 2
      BY <3>1, Digits
    <3>3. first = head \o values[1]
      BY <2>2 DEF Written
    <3> HIDE DEF head, first
    <3>4. Len(first) = Len(head) + Len(values[1])
      BY <3>1, <3>2, <3>3, Joined
    <3> QED
      BY <3>1, <3>2, <3>4
  <2> QED
    BY <2>1, <2>2
<1> HIDE DEF first
<1>7. W[1] = first
  <2>1. <<>> \o first = first
    BY <1>4, ConcatEmptySeq
  <2> QED
    BY <1>5, <2>1
<1>8. PICK rest \in Seq(Byte) : W[Len(layout)] = W[1] \o rest
  <2>1. \A i \in 0..Len(layout) : \E rest \in Seq(Byte) : W[Len(layout)] = W[i] \o rest
    BY <1>1, WrittenPrefix
  <2> QED
    BY <1>2, <2>1
<1>9. Encode(layout, values) = first \o rest
  BY <1>7, <1>8, EncodeIs
<1>10. Len(first \o rest) = Len(first) + Len(rest) /\ Len(rest) \in Nat /\ Len(first) \in Nat
  BY <1>4, Joined
<1> QED
  BY <1>6, <1>9, <1>10

LEMMA SamplesRoundTrip ==
    ASSUME NEW layout \in Seq(Field), Len(layout) >= 1, Len(layout) <= 15,
           layout[1].kind = "number" => layout[1].width >= 2
    PROVE  MessageRoundTrip(layout)
<1> SUFFICES ASSUME NEW values \in Inputs(layout)
             PROVE  LET bytes == Encode(layout, values) IN
                    IF \E i \in Texts(layout) : TooLong(layout[i].limit, Len(values[i]))
                    THEN bytes = <<>>
                    ELSE /\ Decode(layout, bytes) = values
                         /\ Decode(layout, Append(bytes, 0)) = Refused
                         /\ \A n \in {0, 1, Len(bytes) \div 2, Len(bytes) - 1} :
                                Decode(layout, SubSeq(bytes, 1, n)) = Refused
  BY DEF MessageRoundTrip
<1> DEFINE bytes == Encode(layout, values)
<1>1. Message(layout, values) /\ DOMAIN layout = 1..Len(layout)
  <2>1. Message(layout, values)
    BY InputsTyped
  <2> QED
    BY <2>1
<1>2. CASE \E i \in Texts(layout) : TooLong(layout[i].limit, Len(values[i]))
  <2>1. PICK i \in Texts(layout) : TooLong(layout[i].limit, Len(values[i]))
    BY <1>2
  <2>2. i \in DOMAIN layout /\ layout[i].kind = "text"
    BY DEF Texts
  <2>3. layout[i] \in Field /\ Typed(layout[i], values[i])
    BY <1>1, <2>2 DEF Message
  <2>4. layout[i].limit \in Nat /\ values[i] \in Seq(Byte)
    BY <2>2, <2>3, FieldKinds DEF Typed
  <2>5. Len(values[i]) \in Nat /\ Weight[2] \in Nat
    BY <2>4, WeightDef
  <2>6. ~Fits(layout[i], values[i])
    BY <2>1, <2>2, <2>4, <2>5 DEF TooLong, Fits
  <2>7. bytes = <<>>
    BY <2>2, <2>6 DEF Encode
  <2> QED
    BY <1>2, <2>7
<1>3. CASE ~\E i \in Texts(layout) : TooLong(layout[i].limit, Len(values[i]))
  <2>1. ASSUME NEW i \in 1..Len(layout) PROVE Fits(layout[i], values[i])
    <3>1. CASE layout[i].kind = "text"
      <4>1. i \in Texts(layout) /\ layout[i] \in Field /\ Typed(layout[i], values[i])
        BY <1>1, <3>1 DEF Texts, Message
      <4>2. layout[i].limit \in Nat /\ values[i] \in Seq(Byte)
        BY <3>1, <4>1, FieldKinds DEF Typed
      <4>3. Len(values[i]) \in Nat /\ Weight[2] \in Nat
        BY <4>2, WeightDef
      <4> QED
        BY <1>3, <4>1, <4>2, <4>3 DEF TooLong, Fits
    <3>2. CASE layout[i].kind # "text"
      BY <3>2 DEF Fits
    <3> QED
      BY <3>1, <3>2
  <2>2. Writable(layout, values)
    BY <1>1, <2>1 DEF Writable
  <2>3. Accepted(layout, bytes) /\ Decode(layout, bytes) = values /\ bytes \in Seq(Byte)
    BY <2>2, MessagesRoundTrip, EncodeIs
  <2>4. Len(bytes) >= 2 /\ Len(bytes) \in Nat
    BY <2>2, <2>3, EncodeLength
  <2> HIDE DEF bytes
  <2>5. /\ \A n \in 0..(Len(bytes) - 1) : Decode(layout, SubSeq(bytes, 1, n)) = Refused
        /\ Decode(layout, Append(bytes, 0)) = Refused
    BY <2>3, CutIsRefused
  <2>6. {0, 1, Len(bytes) \div 2, Len(bytes) - 1} \subseteq 0..(Len(bytes) - 1)
    BY <2>4
  <2>7. /\ Decode(layout, bytes) = values
        /\ Decode(layout, Append(bytes, 0)) = Refused
        /\ \A n \in {0, 1, Len(bytes) \div 2, Len(bytes) - 1} :
               Decode(layout, SubSeq(bytes, 1, n)) = Refused
    BY <2>3, <2>5, <2>6
  <2> QED
    BY <1>3, <2>7 DEF bytes
<1> QED
  BY <1>2, <1>3

-----------------------------------------------------------------------------
(* The layouts of the program.                                              *)
NumberField == {Number(width) : width \in 1..8}

LEMMA Layouts ==
    /\ Hello \in Seq(Field) /\ Len(Hello) = 4 /\ Hello[1] = Text(32)
    /\ Welcome \in Seq(Field) /\ Len(Welcome) = 8 /\ Welcome[1] = Number(2)
    /\ Goodbye \in Seq(Field) /\ Len(Goodbye) = 2 /\ Goodbye[1] = Number(2)
    /\ PlayerState \in Seq(NumberField) /\ Len(PlayerState) = 11
    /\ PlayerState[1] = Number(2)
    /\ SnapshotHead \in Seq(NumberField) /\ Len(SnapshotHead) = 2
    /\ PacketHeader \in Seq(NumberField) /\ Len(PacketHeader) = 8
    /\ MessageHeader \in Seq(NumberField) /\ Len(MessageHeader) = 3
<1>1. /\ Number(1) \in NumberField /\ Number(2) \in NumberField
      /\ Number(4) \in NumberField /\ Number(8) \in NumberField
  BY DEF NumberField
<1>2. /\ Number(2) \in Field /\ Number(4) \in Field /\ Number(8) \in Field
      /\ Text(32) \in Field /\ Text(64) \in Field /\ Text(128) \in Field /\ Text(512) \in Field
  BY DEF Field
<1>3. Hello \in Seq(Field) /\ Len(Hello) = 4 /\ Hello[1] = Text(32)
  BY <1>2 DEF Hello
<1>4. Welcome \in Seq(Field) /\ Len(Welcome) = 8 /\ Welcome[1] = Number(2)
  BY <1>2 DEF Welcome
<1>5. Goodbye \in Seq(Field) /\ Len(Goodbye) = 2 /\ Goodbye[1] = Number(2)
  BY <1>2 DEF Goodbye
<1>6. PlayerState \in Seq(NumberField) /\ Len(PlayerState) = 11 /\ PlayerState[1] = Number(2)
  BY <1>1 DEF PlayerState
<1>7. SnapshotHead \in Seq(NumberField) /\ Len(SnapshotHead) = 2
  BY <1>1 DEF SnapshotHead
<1>8. PacketHeader \in Seq(NumberField) /\ Len(PacketHeader) = 8
  BY <1>1 DEF PacketHeader
<1>9. MessageHeader \in Seq(NumberField) /\ Len(MessageHeader) = 3
  BY <1>1 DEF MessageHeader
<1> QED
  BY <1>3, <1>4, <1>5, <1>6, <1>7, <1>8, <1>9

LEMMA NumberFields ==
    /\ \A layout \in Seq(NumberField) : layout \in Seq(Field)
    /\ \A field \in NumberField : /\ field.kind = "number" /\ field.width \in 1..8
                                  /\ field = Number(field.width)
<1>1. NumberField \subseteq Field
  BY DEF NumberField, Field
<1>2. \A layout \in Seq(NumberField) : layout \in Seq(Field)
  BY <1>1
<1>3. \A field \in NumberField : /\ field.kind = "number" /\ field.width \in 1..8
                                 /\ field = Number(field.width)
  BY DEF NumberField, Number
<1> QED
  BY <1>2, <1>3

LEMMA AllSamplesRoundTrip ==
    \A layout \in {Hello, Welcome, Goodbye, PlayerState} : MessageRoundTrip(layout)
<1>1. Number(2).width = 2 /\ Text(32).kind = "text"
  BY DEF Number, Text
<1>2. MessageRoundTrip(Hello)
  <2>1. Hello \in Seq(Field) /\ Len(Hello) >= 1 /\ Len(Hello) <= 15
        /\ (Hello[1].kind = "number" => Hello[1].width >= 2)
    BY <1>1, Layouts
  <2> QED
    BY <2>1, SamplesRoundTrip
<1>3. MessageRoundTrip(Welcome)
  <2>1. Welcome \in Seq(Field) /\ Len(Welcome) >= 1 /\ Len(Welcome) <= 15
        /\ (Welcome[1].kind = "number" => Welcome[1].width >= 2)
    BY <1>1, Layouts
  <2> QED
    BY <2>1, SamplesRoundTrip
<1>4. MessageRoundTrip(Goodbye)
  <2>1. Goodbye \in Seq(Field) /\ Len(Goodbye) >= 1 /\ Len(Goodbye) <= 15
        /\ (Goodbye[1].kind = "number" => Goodbye[1].width >= 2)
    BY <1>1, Layouts
  <2> QED
    BY <2>1, SamplesRoundTrip
<1>5. MessageRoundTrip(PlayerState)
  <2>1. PlayerState \in Seq(Field) /\ Len(PlayerState) >= 1 /\ Len(PlayerState) <= 15
        /\ (PlayerState[1].kind = "number" => PlayerState[1].width >= 2)
    BY <1>1, Layouts, NumberFields
  <2> QED
    BY <2>1, SamplesRoundTrip
<1> QED
  BY <1>2, <1>3, <1>4, <1>5

-----------------------------------------------------------------------------
(* The sizes of what is written in numbers only.                            *)
LEMMA SizeDef ==
    ASSUME NEW layout \in Seq(NumberField)
    PROVE  /\ SizeUpTo(layout) \in [0..Len(layout) -> Nat]
           /\ SizeUpTo(layout)[0] = 0
           /\ \A i \in 1..Len(layout) :
                  SizeUpTo(layout)[i] = SizeUpTo(layout)[i - 1] + layout[i].width
<1> DEFINE n == Len(layout)
           E(m, i) == m + layout[i].width
           step == [i \in 1..n |-> [m \in Nat |-> E(m, i)]]
<1>1. n \in Nat /\ \A i \in 1..n : layout[i].width \in Nat
  <2>1. \A i \in 1..n : layout[i] \in NumberField
    OBVIOUS
  <2> QED
    BY <2>1, NumberFields
<1>2. step \in [1..n -> [Nat -> Nat]]
  BY <1>1
<1>3. PICK f : Steps(n, Nat, 0, step, f)
  <2>1. 0 \in Nat
    OBVIOUS
  <2> HIDE DEF step, n
  <2> QED
    BY <1>1, <1>2, <2>1, Recursion
<1>4. \A i \in 1..n : f[i] = E(f[i - 1], i)
  <2> HIDE DEF E
  <2>1. \A i \in 1..n : i - 1 \in 0..n
    OBVIOUS
  <2> QED
    BY <1>3, <2>1 DEF Steps
<1>5. f \in [0..n -> Nat] /\ f[0] = 0
  BY <1>3 DEF Steps
<1>6. f = [i \in 0..n |-> IF i = 0 THEN 0 ELSE f[i - 1] + layout[i].width]
  BY <1>4, <1>5
<1> DEFINE Z == SizeUpTo(layout)
<1>7. Z = [i \in 0..n |-> IF i = 0 THEN 0 ELSE Z[i - 1] + layout[i].width]
  BY <1>6 DEF SizeUpTo
<1> HIDE DEF Z
<1>8. Z[0] = 0 /\ \A i \in 1..n : Z[i] = E(Z[i - 1], i)
  <2>1. \A i \in 1..n : i \in 0..n /\ i # 0
    OBVIOUS
  <2> QED
    BY <1>1, <1>7, <2>1
<1>9. Z \in [0..n -> Nat]
  <2>1. Z = [i \in 0..n |-> Z[i]]
    BY <1>7
  <2>2. \A i \in 1..n : Z[i - 1] \in Nat => Z[i] = step[i][Z[i - 1]]
    BY <1>8
  <2>3. 0 \in Nat
    OBVIOUS
  <2> HIDE DEF step, n
  <2>4. Follows(n, Nat, 0, step, Z)
    BY <1>8, <2>1, <2>2 DEF Follows
  <2> QED
    BY <1>1, <1>2, <2>3, <2>4, Stepwise
<1> QED
  BY <1>8, <1>9 DEF Z

LEMMA SizeBounds ==
    ASSUME NEW layout \in Seq(NumberField)
    PROVE  /\ Size(layout) \in Nat
           /\ Len(layout) <= Size(layout) /\ Size(layout) <= 8 * Len(layout)
<1> DEFINE n == Len(layout)
           Z == SizeUpTo(layout)
           Q(i) == i <= Z[i] /\ Z[i] <= 8 * i
           S == {i \in 0..n : Q(i)}
<1>1. n \in Nat /\ \A i \in 1..n : layout[i].width \in 1..8
  <2>1. \A i \in 1..n : layout[i] \in NumberField
    OBVIOUS
  <2> QED
    BY <2>1, NumberFields
<1>2. Z \in [0..n -> Nat] /\ Z[0] = 0 /\ \A i \in 1..n : Z[i] = Z[i - 1] + layout[i].width
  BY SizeDef
<1> HIDE DEF Z, n
<1>3. 0 \in S
  BY <1>1, <1>2
<1>4. ASSUME NEW i \in 0..(n - 1), i \in S PROVE i + 1 \in S
  <2>1. i + 1 \in 1..n /\ i + 1 \in 0..n /\ i \in 0..n /\ (i + 1) - 1 = i
    BY <1>1
  <2>2. Z[i + 1] = Z[i] + layout[i + 1].width /\ layout[i + 1].width \in 1..8 /\ Z[i] \in Nat
    BY <1>1, <1>2, <2>1
  <2> QED
    BY <1>4, <2>1, <2>2
<1>5. n \in S
  <2> HIDE DEF S
  <2>1. \A i \in 0..n : i \in S
    BY <1>1, <1>3, <1>4, Induction
  <2> QED
    BY <1>1, <2>1
<1>6. Z[n] \in Nat
  BY <1>1, <1>2
<1> QED
  BY <1>5, <1>6 DEF Size, Z, n

LEMMA NumbersWritten ==
    ASSUME NEW layout \in Seq(NumberField), NEW values, Message(layout, values)
    PROVE  /\ Writable(layout, values)
           /\ Encode(layout, values) \in Seq(Byte)
           /\ Len(Encode(layout, values)) = Size(layout)
           /\ values \in Seq(Nat)
<1> DEFINE n == Len(layout)
           W == WrittenUpTo(layout, values)
           Z == SizeUpTo(layout)
           S == {i \in 0..n : Len(W[i]) = Z[i]}
<1>1. /\ n \in Nat /\ Len(values) = n /\ values \in Seq(Datum)
      /\ \A i \in 1..n : /\ layout[i].kind = "number" /\ layout[i].width \in 1..8
                         /\ values[i] \in Nat
  <2>1. \A i \in 1..n : layout[i] \in NumberField
    OBVIOUS
  <2>2. \A i \in 1..n : layout[i].kind = "number" /\ layout[i].width \in 1..8
    BY <2>1, NumberFields
  <2> QED
    BY <2>2 DEF Message, Typed
<1>2. Writable(layout, values)
  BY <1>1 DEF Writable, Fits
<1>3. values \in Seq(Nat)
  <2>1. values = [i \in 1..n |-> values[i]]
    BY <1>1
  <2> QED
    BY <1>1, <2>1
<1>4. /\ W \in [0..n -> Seq(Byte)] /\ W[0] = <<>>
      /\ \A i \in 1..n : W[i] = W[i - 1] \o Written(layout[i], values[i])
  BY WrittenDef
<1>5. Z[0] = 0 /\ \A i \in 1..n : Z[i] = Z[i - 1] + layout[i].width
  BY SizeDef
<1>6. Encode(layout, values) = W[n] /\ Encode(layout, values) \in Seq(Byte)
  BY <1>2, EncodeIs
<1>7. Size(layout) = Z[n]
  BY DEF Size
<1> HIDE DEF n, W, Z
<1>8. 0 \in S
  BY <1>1, <1>4, <1>5
<1>9. ASSUME NEW i \in 0..(n - 1), i \in S PROVE i + 1 \in S
  <2> DEFINE w == Written(layout[i + 1], values[i + 1])
             v == W[i]
  <2>1. i + 1 \in 1..n /\ i + 1 \in 0..n /\ i \in 0..n /\ (i + 1) - 1 = i
    BY <1>1
  <2>2. W[i + 1] = v \o w /\ Z[i + 1] = Z[i] + layout[i + 1].width
    BY <1>4, <1>5, <2>1
  <2>3. w \in Seq(Byte) /\ Len(w) = layout[i + 1].width
    BY <1>1, <2>1, Digits DEF Written
  <2>4. v \in Seq(Byte) /\ Len(v) = Z[i]
    BY <1>4, <1>9, <2>1
  <2> HIDE DEF v, w
  <2>5. Len(v \o w) = Len(v) + Len(w)
    BY <2>3, <2>4, Joined
  <2> QED
    BY <2>1, <2>2, <2>3, <2>4, <2>5
<1>10. n \in S
  <2> HIDE DEF S
  <2>1. \A i \in 0..n : i \in S
    BY <1>1, <1>8, <1>9, Induction
  <2> QED
    BY <1>1, <2>1
<1> QED
  BY <1>2, <1>3, <1>6, <1>7, <1>10

-----------------------------------------------------------------------------
(* Snapshots.                                                               *)
Snapshottable(tick, players) ==
    /\ tick \in Nat /\ tick < Weight[4]
    /\ players \in Seq(Seq(Datum)) /\ Len(players) <= SnapshotLimit
    /\ \A i \in 1..Len(players) : Message(PlayerState, players[i])

PlayersEncoded(players) == [i \in 1..Len(players) |-> Encode(PlayerState, players[i])]

EncodedUpTo(players, i) == WrittenUpTo(Entries(Len(players)), PlayersEncoded(players))[i]

LEMMA HeadWritten ==
    ASSUME NEW tick \in Nat, tick < Weight[4], NEW n \in Nat, n < Weight[2]
    PROVE  Message(SnapshotHead, <<tick, n>>)
<1>1. SnapshotHead \in Seq(Field) /\ Len(SnapshotHead) = 2
  BY Layouts, NumberFields
<1>2. SnapshotHead[1] = Number(4) /\ SnapshotHead[2] = Number(2)
  BY DEF SnapshotHead
<1>3. <<tick, n>> \in Seq(Datum) /\ Len(<<tick, n>>) = 2
  BY DEF Datum
<1>4. Typed(Number(4), tick) /\ Typed(Number(2), n)
  BY DEF Typed, Number
<1>5. \A i \in 1..2 : Typed(SnapshotHead[i], <<tick, n>>[i])
  <2>1. Typed(SnapshotHead[1], <<tick, n>>[1]) /\ Typed(SnapshotHead[2], <<tick, n>>[2])
    BY <1>2, <1>4
  <2>2. \A i \in 1..2 : i = 1 \/ i = 2
    OBVIOUS
  <2> QED
    BY <2>1, <2>2
<1> QED
  BY <1>1, <1>3, <1>5 DEF Message

LEMMA PlayersWritten ==
    ASSUME NEW players \in Seq(Seq(Datum)),
           \A i \in 1..Len(players) : Message(PlayerState, players[i])
    PROVE  /\ Writable(Entries(Len(players)), PlayersEncoded(players))
           /\ Entries(Len(players)) \in Seq(Field) /\ Len(Entries(Len(players))) = Len(players)
           /\ EncodedUpTo(players, Len(players)) \in Seq(Byte)
           /\ Len(EncodedUpTo(players, Len(players))) = Len(players) * PlayerSize
<1> DEFINE n == Len(players)
           layout == Entries(n)
           values == PlayersEncoded(players)
           W == WrittenUpTo(layout, values)
           size == Size(PlayerState)
<1>1. n \in Nat
  OBVIOUS
<1>2. size \in Nat /\ size <= 88
  <2>1. PlayerState \in Seq(NumberField) /\ Len(PlayerState) = 11
    BY Layouts
  <2>2. size \in Nat /\ size <= 8 * Len(PlayerState)
    BY <2>1, SizeBounds
  <2> QED
    BY <2>1, <2>2
<1>3. \A i \in 1..n : values[i] \in Seq(Byte) /\ Len(values[i]) = size
  BY Layouts, NumbersWritten DEF PlayersEncoded
<1>4. values \in Seq(Datum) /\ Len(values) = n
  <2>1. values = [i \in 1..n |-> values[i]]
    BY DEF PlayersEncoded
  <2>2. \A i \in 1..n : values[i] \in Datum
    BY <1>3 DEF Datum
  <2> HIDE DEF values
  <2> QED
    BY <1>1, <2>1, <2>2
<1>5. layout \in Seq(Field) /\ Len(layout) = n /\ \A i \in 1..n : layout[i] = PlayerBytes
  <2>1. PlayerBytes \in Field
    BY DEF PlayerBytes, Field
  <2> QED
    BY <1>1, <2>1 DEF Entries
<1> HIDE DEF n, layout, values, size
<1>6. PlayerBytes.kind = "text" /\ PlayerBytes.limit = 512
  BY DEF PlayerBytes, Text
<1>7. Weight[2] >= 256
  <2>1. Weight[2] = Base * Base
    <3>1. 1 \in 0..7 /\ 1 + 1 = 2
      OBVIOUS
    <3>2. Weight[1 + 1] = Base * Weight[1] /\ Weight[1] = Base
      BY <3>1, WeightDef, Weights
    <3> QED
      BY <3>1, <3>2
  <2>2. \A b \in Nat : b >= 16 => b * b >= 256
    OBVIOUS
  <2> QED
    BY <2>1, <2>2, CodecAssumption
<1>8. \A i \in 1..n : Typed(layout[i], values[i]) /\ Fits(layout[i], values[i])
  <2> SUFFICES ASSUME NEW i \in 1..n
               PROVE  Typed(PlayerBytes, values[i]) /\ Fits(PlayerBytes, values[i])
    BY <1>5
  <2>1. Len(values[i]) <= 512 /\ Len(values[i]) < Weight[2]
    BY <1>2, <1>3, <1>7, WeightDef
  <2> QED
    BY <1>3, <1>6, <2>1 DEF Typed, Fits
<1>9. Message(layout, values) /\ Writable(layout, values)
  BY <1>4, <1>5, <1>8 DEF Message, Writable
<1>10. /\ W \in [0..n -> Seq(Byte)] /\ W[0] = <<>>
       /\ \A i \in 1..n : W[i] = W[i - 1] \o Written(layout[i], values[i])
  BY <1>5, <1>9, WrittenDef
<1> HIDE DEF W
<1> DEFINE S == {i \in 0..n : Len(W[i]) = i * PlayerSize}
<1>11. PlayerSize = 2 + size /\ PlayerSize \in Nat
  BY <1>2 DEF PlayerSize, size
<1>12. 0 \in S
  BY <1>1, <1>10, <1>11
<1>13. ASSUME NEW i \in 0..(n - 1), i \in S PROVE i + 1 \in S
  <2> DEFINE value == values[i + 1]
             head == LittleEndian(Len(value), 2)
             v == W[i]
  <2>1. i + 1 \in 1..n /\ i + 1 \in 0..n /\ i \in 0..n /\ (i + 1) - 1 = i
    BY <1>1
  <2>2. value \in Seq(Byte) /\ Len(value) = size
    <3> DEFINE j == i + 1
    <3>1. j \in 1..n
      BY <2>1
    <3> HIDE DEF j
    <3>2. values[j] \in Seq(Byte) /\ Len(values[j]) = size
      BY <1>3, <3>1
    <3> QED
      BY <3>2 DEF j
  <2>3. W[i + 1] = v \o (head \o value)
    <3>1. layout[i + 1] = PlayerBytes
      BY <1>5, <2>1
    <3>2. W[i + 1] = v \o Written(layout[i + 1], value)
      BY <1>10, <2>1
    <3>3. Written(PlayerBytes, value) = head \o value
      BY <1>6 DEF Written
    <3> QED
      BY <3>1, <3>2, <3>3
  <2>4. v \in Seq(Byte) /\ Len(v) = i * PlayerSize
    BY <1>10, <1>13, <2>1
  <2> HIDE DEF value, v
  <2>5. head \in Seq(Byte) /\ Len(head) = 2
    BY <1>2, <2>2, Digits
  <2> HIDE DEF head
  <2>6. head \o value \in Seq(Byte) /\ Len(head \o value) = PlayerSize
    <3>1. head \o value \in Seq(Byte) /\ Len(head \o value) = Len(head) + Len(value)
      BY <2>2, <2>5, Joined
    <3> QED
      BY <1>11, <2>2, <2>5, <3>1
  <2> DEFINE w == head \o value
  <2>7. w \in Seq(Byte) /\ Len(w) = PlayerSize /\ W[i + 1] = v \o w
    BY <2>3, <2>6
  <2> HIDE DEF w
  <2>8. Len(v \o w) = Len(v) + Len(w)
    BY <2>4, <2>7, Joined
  <2>9. i * PlayerSize + PlayerSize = (i + 1) * PlayerSize
    BY <1>11
  <2> QED
    BY <2>1, <2>4, <2>7, <2>8, <2>9
<1>14. n \in S
  <2> HIDE DEF S
  <2>1. \A i \in 0..n : i \in S
    BY <1>1, <1>12, <1>13, Induction
  <2> QED
    BY <1>1, <2>1
<1>15. EncodedUpTo(players, n) = W[n] /\ W[n] \in Seq(Byte)
  BY <1>1, <1>10 DEF EncodedUpTo, W, layout, values, n
<1> QED
  BY <1>5, <1>9, <1>14, <1>15 DEF n, layout, values

(* What a snapshot is on the wire, and what decode_snapshot finds in it     *)
(* with more behind it: no bytes, or some.                                  *)
LEMMA SnapshotWritten ==
    ASSUME NEW tick, NEW players, Snapshottable(tick, players)
    PROVE  LET n == Len(players)
               bytes == EncodeSnapshot(tick, players)
               rest == EncodedUpTo(players, n)
           IN  /\ bytes \in Seq(Byte) /\ rest \in Seq(Byte)
               /\ Len(bytes) = SnapshotSize(n)
               /\ \A more \in Seq(Byte) :
                     /\ ReadAll(SnapshotHead, bytes \o more) =
                            [ok |-> TRUE, values |-> <<tick, n>>, rest |-> rest \o more]
                     /\ ReadAll(Entries(n), rest \o more) =
                            [ok |-> TRUE, values |-> PlayersEncoded(players), rest |-> more]
<1> DEFINE n == Len(players)
           bytes == EncodeSnapshot(tick, players)
           rest == EncodedUpTo(players, n)
           head == Encode(SnapshotHead, <<tick, n>>)
<1>1. /\ tick \in Nat /\ tick < Weight[4] /\ n \in Nat /\ n <= SnapshotLimit
      /\ n < Weight[2] /\ players \in Seq(Seq(Datum))
  <2>1. players \in Seq(Seq(Datum)) /\ n <= SnapshotLimit /\ tick \in Nat /\ tick < Weight[4]
    BY DEF Snapshottable
  <2>2. n \in Nat
    BY <2>1
  <2> QED
    <3>1. Weight[2] \in Nat /\ SnapshotLimit \in Nat /\ SnapshotLimit < Weight[2]
      BY WeightDef, CodecAssumption
    <3> HIDE DEF n
    <3> QED
      BY <2>1, <2>2, <3>1
<1>2. /\ Writable(Entries(n), PlayersEncoded(players)) /\ Len(Entries(n)) = n
      /\ rest \in Seq(Byte) /\ Len(rest) = n * PlayerSize
  BY PlayersWritten DEF Snapshottable
<1>3. Message(SnapshotHead, <<tick, n>>)
  BY <1>1, HeadWritten
<1>4. /\ Writable(SnapshotHead, <<tick, n>>) /\ head \in Seq(Byte)
      /\ Len(head) = Size(SnapshotHead)
  BY <1>3, Layouts, NumbersWritten
<1>5. head = WrittenUpTo(SnapshotHead, <<tick, n>>)[Len(SnapshotHead)]
  BY <1>4, EncodeIs
<1>6. bytes = head \o rest
  <2>1. ~(n > SnapshotLimit)
    <3>1. SnapshotLimit \in Nat
      BY CodecAssumption
    <3> HIDE DEF n
    <3> QED
      BY <1>1, <3>1
  <2> QED
    BY <2>1 DEF EncodeSnapshot, EncodedUpTo, PlayersEncoded
<1>7. \A more \in Seq(Byte) : ReadAll(Entries(n), rest \o more) =
          [ok |-> TRUE, values |-> PlayersEncoded(players), rest |-> more]
  BY <1>2, ReadBack DEF EncodedUpTo
<1> HIDE DEF rest, head, bytes
<1>8. bytes \in Seq(Byte) /\ Len(bytes) = Len(head) + Len(rest)
  BY <1>2, <1>4, <1>6, Joined
<1>9. Len(bytes) = SnapshotSize(n)
  BY <1>2, <1>4, <1>8 DEF SnapshotSize, HeadSize
<1>10. ASSUME NEW more \in Seq(Byte)
       PROVE  ReadAll(SnapshotHead, bytes \o more) =
                  [ok |-> TRUE, values |-> <<tick, n>>, rest |-> rest \o more]
  <2>1. (head \o rest) \o more = head \o (rest \o more) /\ rest \o more \in Seq(Byte)
    BY <1>2, <1>4, ConcatAssociative, Joined
  <2>2. bytes \o more = head \o (rest \o more)
    BY <1>6, <2>1
  <2>3. ReadAll(SnapshotHead, head \o (rest \o more)) =
            [ok |-> TRUE, values |-> <<tick, n>>, rest |-> rest \o more]
    BY <1>4, <1>5, <2>1, ReadBack
  <2> QED
    BY <2>2, <2>3
<1> QED
  BY <1>2, <1>7, <1>8, <1>9, <1>10 DEF rest, bytes

(* decode_snapshot reads every snapshot that encode_snapshot writes          *)
(* (protocol.cpp:166), of as many players as it may have, as it was; none    *)
(* that is cut short, however it is cut, and none with anything behind it.   *)
THEOREM SnapshotsRoundTrip ==
    ASSUME NEW tick, NEW players, Snapshottable(tick, players)
    PROVE  LET bytes == EncodeSnapshot(tick, players)
           IN  /\ Len(bytes) = SnapshotSize(Len(players))
               /\ DecodeSnapshot(bytes) = <<tick, players>>
               /\ \A more \in Seq(Byte) :
                      more # <<>> => DecodeSnapshot(bytes \o more) = Refused
               /\ \A k \in 0..(Len(bytes) - 1) :
                      DecodeSnapshot(SubSeq(bytes, 1, k)) = Refused
<1> DEFINE n == Len(players)
           bytes == EncodeSnapshot(tick, players)
           rest == EncodedUpTo(players, n)
           encoded == PlayersEncoded(players)
<1>1. /\ bytes \in Seq(Byte) /\ rest \in Seq(Byte) /\ Len(bytes) = SnapshotSize(n)
      /\ \A more \in Seq(Byte) :
            /\ ReadAll(SnapshotHead, bytes \o more) =
                   [ok |-> TRUE, values |-> <<tick, n>>, rest |-> rest \o more]
            /\ ReadAll(Entries(n), rest \o more) =
                   [ok |-> TRUE, values |-> encoded, rest |-> more]
  BY SnapshotWritten
<1>2. /\ players \in Seq(Seq(Datum)) /\ n \in Nat /\ n <= SnapshotLimit
      /\ \A i \in 1..n : Message(PlayerState, players[i])
  BY DEF Snapshottable
<1>3. Entries(n) \in Seq(Field) /\ SnapshotHead \in Seq(Field)
  BY <1>2, PlayersWritten, Layouts, NumberFields
<1>4. \A i \in 1..n : Decode(PlayerState, encoded[i]) = players[i] /\ players[i] # Refused
  <2> SUFFICES ASSUME NEW i \in 1..n
               PROVE  Decode(PlayerState, encoded[i]) = players[i] /\ players[i] # Refused
    OBVIOUS
  <2>1. encoded[i] = Encode(PlayerState, players[i])
    BY DEF PlayersEncoded
  <2>2. Writable(PlayerState, players[i]) /\ players[i] \in Seq(Nat)
    BY <1>2, Layouts, NumbersWritten
  <2> QED
    BY <2>1, <2>2, MessagesRoundTrip, RefusedAssumption
<1>5. ~(n > SnapshotLimit)
  <2>1. SnapshotLimit \in Nat
    BY CodecAssumption
  <2> HIDE DEF n
  <2> QED
    BY <1>2, <2>1
<1>6. players = [i \in 1..n |-> players[i]]
  BY <1>2
<1> HIDE DEF bytes, rest, encoded, n
<1>7. /\ ReadAll(SnapshotHead, bytes) = [ok |-> TRUE, values |-> <<tick, n>>, rest |-> rest]
      /\ ReadAll(Entries(n), rest) = [ok |-> TRUE, values |-> encoded, rest |-> <<>>]
  <2>1. bytes \o <<>> = bytes /\ rest \o <<>> = rest /\ <<>> \in Seq(Byte)
    BY <1>1, ConcatEmptySeq
  <2> QED
    BY <1>1, <2>1
<1>8. DecodeSnapshot(bytes) = <<tick, players>>
  <2>1. DecodeSnapshot(bytes) = <<tick, [i \in 1..n |-> Decode(PlayerState, encoded[i])]>>
    <3>1. ~\E i \in 1..n : Decode(PlayerState, encoded[i]) = Refused
      BY <1>4
    <3> DEFINE head == ReadAll(SnapshotHead, bytes)
               entries(m) == ReadAll(Entries(m), head.rest)
               found(m) == [i \in 1..m |-> Decode(PlayerState, entries(m).values[i])]
    <3>2. /\ head.ok /\ head.values[1] = tick /\ head.values[2] = n /\ head.rest = rest
      BY <1>7
    <3>3. /\ entries(n).ok /\ entries(n).values = encoded /\ entries(n).rest = <<>>
      BY <1>7, <3>2
    <3>4. DecodeSnapshot(bytes) =
              IF ~head.ok THEN Refused
              ELSE IF \/ head.values[2] > SnapshotLimit
                      \/ ~entries(head.values[2]).ok
                      \/ entries(head.values[2]).rest # <<>>
              THEN Refused
              ELSE IF \E i \in 1..head.values[2] :
                          Decode(PlayerState, entries(head.values[2]).values[i]) = Refused
              THEN Refused
              ELSE <<head.values[1], found(head.values[2])>>
      BY DEF DecodeSnapshot
    <3>5. found(n) = [i \in 1..n |-> Decode(PlayerState, encoded[i])]
      BY <3>3
    <3>6. ~\E i \in 1..n : Decode(PlayerState, entries(n).values[i]) = Refused
      BY <3>1, <3>3
    <3> HIDE DEF head, entries, found
    <3> QED
      BY <1>5, <3>2, <3>3, <3>4, <3>5, <3>6
  <2>2. [i \in 1..n |-> Decode(PlayerState, encoded[i])] = players
    BY <1>4, <1>6
  <2> QED
    BY <2>1, <2>2
<1>9. ASSUME NEW more \in Seq(Byte), more # <<>>
      PROVE  DecodeSnapshot(bytes \o more) = Refused
  <2>1. /\ ReadAll(SnapshotHead, bytes \o more) =
               [ok |-> TRUE, values |-> <<tick, n>>, rest |-> rest \o more]
        /\ ReadAll(Entries(n), rest \o more) = [ok |-> TRUE, values |-> encoded, rest |-> more]
    BY <1>1
  <2> QED
    BY <1>9, <2>1 DEF DecodeSnapshot
<1>10. ASSUME NEW k \in 0..(Len(bytes) - 1)
       PROVE  DecodeSnapshot(SubSeq(bytes, 1, k)) = Refused
  <2> DEFINE short == SubSeq(bytes, 1, k)
             more == From(bytes, k)
             head == ReadAll(SnapshotHead, short)
             entries == ReadAll(Entries(n), head.rest)
  <2>1. /\ short \in Seq(Byte) /\ more \in Seq(Byte) /\ Len(more) = Len(bytes) - k
        /\ bytes = short \o more
    <3>1. k \in 0..Len(bytes)
      BY <1>1
    <3> QED
      BY <1>1, <3>1, Cut
  <2> HIDE DEF short, more
  <2>2. more # <<>>
    BY <1>1, <2>1
  <2>3. CASE ~head.ok
    BY <2>3 DEF DecodeSnapshot, short
  <2>4. CASE head.ok
    <3>1. ReadAll(SnapshotHead, bytes) = With(head, more)
      BY <1>3, <2>1, <2>4, ReadAllMore
    <3>2. head.values = <<tick, n>> /\ rest = head.rest \o more
      BY <1>7, <3>1 DEF With
    <3>3. head.rest \in Seq(Byte)
      <4>1. Len(SnapshotHead) \in 0..Len(SnapshotHead)
        BY Layouts
      <4>2. head \in Reader
        BY <1>3, <2>1, <4>1, ReadDef DEF ReadAll
      <4> HIDE DEF head
      <4> QED
        BY <4>2 DEF Reader
    <3> HIDE DEF head
    <3>4. entries.ok => entries.rest # <<>>
      <4> SUFFICES ASSUME entries.ok, entries.rest = <<>> PROVE FALSE
        OBVIOUS
      <4>1. ReadAll(Entries(n), rest) = With(entries, more)
        BY <1>3, <2>1, <3>2, <3>3, ReadAllMore
      <4>2. <<>> = <<>> \o more
        BY <1>7, <4>1 DEF With
      <4> QED
        BY <2>1, <2>2, <4>2, ConcatEmptySeq
    <3>5. DecodeSnapshot(short) = Refused
      BY <2>4, <3>2, <3>4 DEF DecodeSnapshot, head
    <3> QED
      BY <3>5 DEF short
  <2> QED
    BY <2>3, <2>4
<1> QED
  BY <1>1, <1>8, <1>9, <1>10 DEF bytes, n

LEMMA FunctionIsSequence ==
    ASSUME NEW n \in Nat, NEW S, NEW f \in [1..n -> S]
    PROVE  f \in Seq(S) /\ Len(f) = n
  OBVIOUS

LEMMA PlayersTyped ==
    ASSUME NEW n \in Nat
    PROVE  /\ Players(n) \in Seq(Seq(Datum)) /\ Len(Players(n)) = n
           /\ \A k \in 1..n : Message(PlayerState, Players(n)[k])
<1> DEFINE player(k) == [i \in DOMAIN PlayerState |-> i + (k % 4)]
<1>1. DOMAIN PlayerState = 1..11 /\ PlayerState \in Seq(NumberField) /\ Len(PlayerState) = 11
  BY Layouts
<1>2. ASSUME NEW k \in 1..n
      PROVE  player(k) \in Seq(Datum) /\ Message(PlayerState, player(k))
  <2>1. k % 4 \in 0..3
    OBVIOUS
  <2>2. player(k) \in Seq(Datum) /\ Len(player(k)) = 11
    <3> DEFINE value(i) == i + (k % 4)
    <3>1. player(k) = [i \in 1..11 |-> value(i)]
      BY <1>1
    <3>2. \A i \in 1..11 : value(i) \in Datum
      BY <2>1 DEF Datum
    <3> HIDE DEF player, value
    <3>3. player(k) \in [1..11 -> Datum]
      BY <3>1, <3>2
    <3>4. 11 \in Nat
      OBVIOUS
    <3> QED
      BY <3>3, <3>4, FunctionIsSequence, Zenon
  <2>3. ASSUME NEW i \in 1..11 PROVE Typed(PlayerState[i], player(k)[i])
    <3>1. PlayerState[i] \in NumberField
      <4>1. i \in 1..Len(PlayerState)
        BY <1>1
      <4> QED
        BY <1>1, <4>1, ElementOfSeq
    <3>2. PlayerState[i].kind = "number" /\ PlayerState[i].width \in 1..8
      BY <3>1, NumberFields
    <3> DEFINE weight == Weight[PlayerState[i].width]
    <3>3. weight \in Nat /\ Base <= weight /\ Base \in Nat /\ Base >= 16
      BY <3>2, WeightDef, Weights, CodecAssumption
    <3>4. player(k)[i] = i + (k % 4)
      BY <1>1
    <3> HIDE DEF weight
    <3>5. player(k)[i] \in Nat /\ player(k)[i] < weight
      BY <2>1, <3>3, <3>4
    <3> QED
      BY <3>2, <3>5 DEF Typed, weight
  <2>4. PlayerState \in Seq(Field)
    BY <1>1, NumberFields
  <2> HIDE DEF player
  <2> QED
    BY <1>1, <2>2, <2>3, <2>4 DEF Message
<1>3. Players(n) = [k \in 1..n |-> player(k)]
  BY DEF Players
<1> HIDE DEF player
<1> QED
  BY <1>2, <1>3

LEMMA NothingIsNoSnapshot == DecodeSnapshot(<<>>) = Refused
<1> DEFINE R == ReadUpTo(SnapshotHead, <<>>)
<1>1. SnapshotHead \in Seq(Field) /\ Len(SnapshotHead) = 2 /\ <<>> \in Seq(Byte)
  BY Layouts, NumberFields
<1>2. R \in [0..2 -> Reader] /\ R[0] = Reading(<<>>)
      /\ \A i \in 1..2 : R[i] = Read(R[i - 1], SnapshotHead[i])
  BY <1>1, ReadDef
<1> HIDE DEF R
<1>3. SnapshotHead[1] = Number(4) /\ SnapshotHead[2] = Number(2)
  BY DEF SnapshotHead
<1>4. R[0].rest = <<>>
  BY <1>2 DEF Reading
<1>5. R[1] = Read(R[0], Number(4)) /\ R[2] = Read(R[1], Number(2))
  <2>1. 1 \in 1..2 /\ 2 \in 1..2 /\ 1 - 1 = 0 /\ 2 - 1 = 1
    OBVIOUS
  <2> QED
    BY <1>2, <1>3, <2>1
<1>6. \A r \in Reader : [r EXCEPT !.ok = FALSE].ok = FALSE
  BY DEF Reader
<1>7. R[0] \in Reader /\ R[1] \in Reader
  BY <1>2
<1>8. ~R[1].ok
  <2>1. ~(Len(R[0].rest) >= 4) /\ 4 \in 1..8 /\ R[0] \in Reader
    BY <1>2, <1>4
  <2>2. R[1] = [R[0] EXCEPT !.ok = FALSE]
    BY <1>5, <2>1, NumberRead
  <2> QED
    BY <1>6, <1>7, <2>2
<1>9. ~R[2].ok
  <2>1. R[2] = [R[1] EXCEPT !.ok = FALSE]
    <3>1. 2 \in 1..8
      OBVIOUS
    <3> QED
      BY <1>5, <1>8, <3>1, NumberRead
  <2> QED
    BY <1>6, <1>7, <2>1
<1>10. ~ReadAll(SnapshotHead, <<>>).ok
  BY <1>1, <1>9 DEF ReadAll, R
<1> QED
  BY <1>10 DEF DecodeSnapshot

LEMMA CrowdsRoundTrip == SnapshotRoundTrip
<1> SUFFICES ASSUME NEW n \in Crowds
             PROVE  LET bytes == EncodeSnapshot(n, Players(n)) IN
                    IF n > SnapshotLimit
                    THEN bytes = <<>> /\ DecodeSnapshot(bytes) = Refused
                    ELSE /\ Len(bytes) = SnapshotSize(n)
                         /\ DecodeSnapshot(bytes) = <<n, Players(n)>>
                         /\ DecodeSnapshot(Append(bytes, 0)) = Refused
                         /\ DecodeSnapshot(SubSeq(bytes, 1, Len(bytes) - 1)) = Refused
  BY DEF SnapshotRoundTrip
<1> DEFINE bytes == EncodeSnapshot(n, Players(n))
<1>1. n \in Nat /\ SnapshotLimit \in Nat
  BY CodecAssumption DEF Crowds
<1>2. Len(Players(n)) = n
  BY <1>1, PlayersTyped
<1>3. CASE n > SnapshotLimit
  <2>1. bytes = <<>>
    BY <1>2, <1>3 DEF EncodeSnapshot
  <2> QED
    BY <1>3, <2>1, NothingIsNoSnapshot
<1>4. CASE ~(n > SnapshotLimit)
  <2>1. Weight[2] \in Nat /\ Weight[4] \in Nat /\ Weight[2] <= Weight[4]
        /\ SnapshotLimit < Weight[2]
    BY WeightDef, Weights, CodecAssumption
  <2>2. n < Weight[4]
    BY <1>1, <1>4, <2>1
  <2>3. Snapshottable(n, Players(n))
    <3>1. /\ Players(n) \in Seq(Seq(Datum))
          /\ \A k \in 1..n : Message(PlayerState, Players(n)[k])
      BY <1>1, PlayersTyped
    <3>2. n <= SnapshotLimit
      BY <1>1, <1>4
    <3> QED
      BY <1>1, <1>2, <2>2, <3>1, <3>2 DEF Snapshottable
  <2>4. /\ Len(bytes) = SnapshotSize(n)
        /\ DecodeSnapshot(bytes) = <<n, Players(n)>>
        /\ \A more \in Seq(Byte) : more # <<>> => DecodeSnapshot(bytes \o more) = Refused
        /\ \A k \in 0..(Len(bytes) - 1) : DecodeSnapshot(SubSeq(bytes, 1, k)) = Refused
    BY <1>2, <2>3, SnapshotsRoundTrip
  <2>5. bytes \in Seq(Byte)
    BY <2>3, SnapshotWritten
  <2>6. Len(bytes) \in Nat /\ Len(bytes) > 0
    <3>1. Size(SnapshotHead) \in Nat /\ Size(SnapshotHead) >= 2 /\ PlayerSize \in Nat
      <4>1. SnapshotHead \in Seq(NumberField) /\ Len(SnapshotHead) = 2
        BY Layouts
      <4>2. Size(SnapshotHead) \in Nat /\ Size(SnapshotHead) >= 2
        BY <4>1, SizeBounds
      <4>3. Size(PlayerState) \in Nat
        BY Layouts, SizeBounds
      <4> QED
        BY <4>2, <4>3 DEF PlayerSize
    <3>2. n * PlayerSize \in Nat
      BY <1>1, <3>1
    <3> HIDE DEF bytes
    <3> QED
      BY <2>4, <3>1, <3>2 DEF SnapshotSize, HeadSize
  <2> HIDE DEF bytes
  <2>7. 0 \in Byte /\ <<0>> \in Seq(Byte) /\ <<0>> # <<>>
    BY CodecAssumption DEF Byte
  <2>8. Append(bytes, 0) = bytes \o <<0>>
    BY <2>5, <2>7, AppendIsConcat
  <2>9. DecodeSnapshot(Append(bytes, 0)) = Refused
    BY <2>4, <2>7, <2>8
  <2>10. Len(bytes) - 1 \in 0..(Len(bytes) - 1)
    BY <2>6
  <2> QED
    BY <1>4, <2>4, <2>9, <2>10 DEF bytes
<1> QED
  BY <1>3, <1>4

-----------------------------------------------------------------------------
(* Datagrams.                                                               *)
\* What encode_packet can write of a header and a message.
Sendable(header, message) ==
    /\ header \in Seq(Nat) /\ Len(header) = 4
    /\ header[1] < Weight[4] /\ header[2] < Weight[4] /\ header[3] < Weight[4]
    /\ header[4] < Weight[8]
    /\ message = [type |-> message.type, channel |-> message.channel,
                  reliable |-> message.reliable, payload |-> message.payload]
    /\ message.type \in 0..(Weight[1] - 1) /\ message.channel \in 0..(Weight[1] - 1)
    /\ message.reliable \in BOOLEAN
    /\ message.payload \in Seq(Byte) /\ Len(message.payload) <= MessageLimit
    /\ Size(MessageHeader) + Len(message.payload) < Weight[2]

Outer(header, message) ==
    <<Magic, Version, IF message.reliable THEN 1 ELSE 0,
      Size(MessageHeader) + Len(message.payload)>> \o header

Inner(message) == <<message.type, message.channel, Len(message.payload)>>

LEMMA HeaderSizes ==
    /\ Size(PacketHeader) \in Nat /\ Size(PacketHeader) >= 8
    /\ Size(MessageHeader) \in Nat /\ Size(MessageHeader) >= 3
<1>1. PacketHeader \in Seq(NumberField) /\ Len(PacketHeader) = 8
  BY Layouts
<1>2. MessageHeader \in Seq(NumberField) /\ Len(MessageHeader) = 3
  BY Layouts
<1>3. Size(PacketHeader) \in Nat /\ Size(PacketHeader) >= 8
  BY <1>1, SizeBounds
<1>4. Size(MessageHeader) \in Nat /\ Size(MessageHeader) >= 3
  BY <1>2, SizeBounds
<1> QED
  BY <1>3, <1>4

LEMMA InnerWritten ==
    ASSUME NEW header, NEW message, Sendable(header, message)
    PROVE  Message(MessageHeader, Inner(message))
<1> DEFINE length == Len(message.payload)
           values == Inner(message)
<1>1. /\ message.type \in Nat /\ message.type < Weight[1]
      /\ message.channel \in Nat /\ message.channel < Weight[1]
  BY WeightDef DEF Sendable
<1>2. length \in Nat /\ length < Weight[2]
  <2>1. Size(MessageHeader) + length < Weight[2] /\ message.payload \in Seq(Byte)
    BY DEF Sendable
  <2>2. length \in Nat
    BY <2>1
  <2> HIDE DEF length
  <2> QED
    BY <2>1, <2>2, WeightDef, HeaderSizes
<1> HIDE DEF length
<1>3. /\ MessageHeader[1] = Number(1) /\ MessageHeader[2] = Number(1)
      /\ MessageHeader[3] = Number(2) /\ Len(MessageHeader) = 3
  BY DEF MessageHeader
<1>4. values = <<message.type, message.channel, length>>
  BY DEF Inner, length
<1>5. values \in Seq(Datum) /\ Len(values) = 3
  BY <1>1, <1>2, <1>4 DEF Datum
<1>6. /\ Typed(Number(1), values[1]) /\ Typed(Number(1), values[2])
      /\ Typed(Number(2), values[3])
  BY <1>1, <1>2, <1>4 DEF Typed, Number
<1> HIDE DEF values
<1>7. \A i \in 1..3 : Typed(MessageHeader[i], values[i])
  <2>1. \A i \in 1..3 : i = 1 \/ i = 2 \/ i = 3
    OBVIOUS
  <2> QED
    BY <1>3, <1>6, <2>1
<1>8. MessageHeader \in Seq(Field)
  BY Layouts, NumberFields
<1> QED
  BY <1>3, <1>5, <1>7, <1>8 DEF Message, values

LEMMA OuterFields ==
    ASSUME NEW header, NEW message, Sendable(header, message)
    PROVE  LET values == Outer(header, message)
           IN  /\ values \in Seq(Datum) /\ Len(values) = 8
               /\ values[1] = Magic /\ values[2] = Version
               /\ values[3] = (IF message.reliable THEN 1 ELSE 0)
               /\ values[4] = Size(MessageHeader) + Len(message.payload)
               /\ \A i \in 1..4 : values[4 + i] = header[i]
<1> DEFINE length == Len(message.payload)
           flag == IF message.reliable THEN 1 ELSE 0
           front == <<Magic, Version, flag, Size(MessageHeader) + length>>
           values == front \o header
<1>1. length \in Nat /\ header \in Seq(Nat) /\ Len(header) = 4
  BY DEF Sendable
<1>2. Magic \in Nat /\ Version \in Nat /\ flag \in Nat /\ Size(MessageHeader) + length \in Nat
  <2>1. Magic \in Nat /\ Version \in Nat
    BY CodecAssumption
  <2>2. Size(MessageHeader) + length \in Nat
    <3> HIDE DEF length
    <3> QED
      BY <1>1, HeaderSizes
  <2> QED
    BY <2>1, <2>2
<1>3. front \in Seq(Nat) /\ Len(front) = 4
  BY <1>2
<1>4. /\ front[1] = Magic /\ front[2] = Version /\ front[3] = flag
      /\ front[4] = Size(MessageHeader) + length
  OBVIOUS
<1> HIDE DEF front, flag, length
<1>5. /\ values \in Seq(Nat) /\ Len(values) = 4 + 4
      /\ \A i \in 1..4 : values[i] = front[i] /\ values[4 + i] = header[i]
  <2>1. /\ values \in Seq(Nat) /\ Len(values) = Len(front) + Len(header)
        /\ \A i \in 1..Len(front) : values[i] = front[i]
        /\ \A i \in 1..Len(header) : values[Len(front) + i] = header[i]
    <3>1. front \in Seq(Nat) /\ header \in Seq(Nat)
      BY <1>1, <1>3
    <3> QED
      BY <3>1, Elements
  <2> HIDE DEF values
  <2> QED
    BY <1>1, <1>3, <2>1
<1>6. values = Outer(header, message)
  BY DEF Outer, front, flag, length
<1> HIDE DEF values
<1>7. values \in Seq(Datum) /\ Len(values) = 8
  <2>1. Len(values) = 8
    BY <1>5
  <2>2. Nat \subseteq Datum
    BY DEF Datum
  <2> QED
    BY <1>5, <2>1, <2>2, SeqMonotonic
<1>8. /\ values[1] = Magic /\ values[2] = Version /\ values[3] = flag
      /\ values[4] = Size(MessageHeader) + length
  BY <1>4, <1>5
<1> QED
  BY <1>5, <1>6, <1>7, <1>8 DEF flag, length

LEMMA OuterWritten ==
    ASSUME NEW header, NEW message, Sendable(header, message)
    PROVE  Message(PacketHeader, Outer(header, message))
<1> DEFINE values == Outer(header, message)
           size == Size(MessageHeader) + Len(message.payload)
           flag == IF message.reliable THEN 1 ELSE 0
<1>1. /\ values \in Seq(Datum) /\ Len(values) = 8
      /\ values[1] = Magic /\ values[2] = Version /\ values[3] = flag /\ values[4] = size
      /\ \A i \in 1..4 : values[4 + i] = header[i]
  BY OuterFields
<1> HIDE DEF values
<1>2. values[5] = header[1] /\ values[6] = header[2] /\ values[7] = header[3]
      /\ values[8] = header[4]
  BY <1>1
<1>3. size \in Nat /\ size < Weight[2]
  <2>1. Len(message.payload) \in Nat /\ size < Weight[2]
    BY DEF Sendable
  <2> QED
    BY <2>1, HeaderSizes
<1> HIDE DEF size
<1>4. flag \in Nat /\ flag < Weight[1]
  BY Weights, CodecAssumption
<1> HIDE DEF flag
<1>5. /\ Magic \in Nat /\ Magic < Weight[4] /\ Version \in Nat /\ Version < Weight[1]
  <2>1. Weight[4] \in Nat /\ Weight[1] \in Nat
    BY WeightDef
  <2>2. Magic \in 0..(Weight[4] - 1) /\ Version \in 0..(Weight[1] - 1)
    BY CodecAssumption
  <2> QED
    BY <2>1, <2>2
<1>6. /\ header[1] \in Nat /\ header[1] < Weight[4] /\ header[2] \in Nat /\ header[2] < Weight[4]
      /\ header[3] \in Nat /\ header[3] < Weight[4] /\ header[4] \in Nat /\ header[4] < Weight[8]
  <2>1. header \in Seq(Nat) /\ \A i \in 1..4 : i \in 1..Len(header)
    BY DEF Sendable
  <2>2. \A i \in 1..4 : header[i] \in Nat
    BY <2>1, ElementOfSeq
  <2> QED
    BY <2>2 DEF Sendable
<1>7. /\ PacketHeader[1] = Number(4) /\ PacketHeader[2] = Number(1)
      /\ PacketHeader[3] = Number(1) /\ PacketHeader[4] = Number(2)
      /\ PacketHeader[5] = Number(4) /\ PacketHeader[6] = Number(4)
      /\ PacketHeader[7] = Number(4) /\ PacketHeader[8] = Number(8)
      /\ Len(PacketHeader) = 8
  BY DEF PacketHeader
<1>8. /\ Typed(Number(4), values[1]) /\ Typed(Number(1), values[2])
      /\ Typed(Number(1), values[3]) /\ Typed(Number(2), values[4])
  BY <1>1, <1>3, <1>4, <1>5 DEF Typed, Number
<1>9. /\ Typed(Number(4), values[5]) /\ Typed(Number(4), values[6])
      /\ Typed(Number(4), values[7]) /\ Typed(Number(8), values[8])
  BY <1>2, <1>6 DEF Typed, Number
<1>10. \A i \in 1..8 : Typed(PacketHeader[i], values[i])
  <2>1. \A i \in 1..8 : i = 1 \/ i = 2 \/ i = 3 \/ i = 4 \/ i = 5 \/ i = 6 \/ i = 7 \/ i = 8
    OBVIOUS
  <2> QED
    BY <1>7, <1>8, <1>9, <2>1
<1>11. PacketHeader \in Seq(Field)
  BY Layouts, NumberFields
<1> QED
  BY <1>1, <1>7, <1>10, <1>11 DEF Message, values

(* What a datagram is, and what decode_packet finds in it: the header's     *)
(* fields, the message's, and the payload.                                  *)
LEMMA PacketWritten ==
    ASSUME NEW header, NEW message, Sendable(header, message)
    PROVE  LET bytes == EncodePacket(header, message)
               rest == Encode(MessageHeader, Inner(message)) \o message.payload
           IN  /\ bytes \in Seq(Byte) /\ rest \in Seq(Byte)
               /\ Len(bytes) = DatagramSize(Len(message.payload))
               /\ Len(rest) = Size(MessageHeader) + Len(message.payload)
               /\ ReadAll(PacketHeader, bytes) =
                      [ok |-> TRUE, values |-> Outer(header, message), rest |-> rest]
               /\ ReadAll(MessageHeader, rest) =
                      [ok |-> TRUE, values |-> Inner(message), rest |-> message.payload]
<1> DEFINE payload == message.payload
           front == Encode(PacketHeader, Outer(header, message))
           middle == Encode(MessageHeader, Inner(message))
           rest == middle \o payload
           bytes == EncodePacket(header, message)
<1>1. /\ PacketHeader \in Seq(NumberField) /\ MessageHeader \in Seq(NumberField)
  BY Layouts
<1>2. /\ Writable(PacketHeader, Outer(header, message))
      /\ front \in Seq(Byte) /\ Len(front) = Size(PacketHeader)
  BY <1>1, OuterWritten, NumbersWritten
<1>3. /\ Writable(MessageHeader, Inner(message))
      /\ middle \in Seq(Byte) /\ Len(middle) = Size(MessageHeader)
  BY <1>1, InnerWritten, NumbersWritten
<1>4. payload \in Seq(Byte) /\ Len(payload) <= MessageLimit /\ Len(payload) \in Nat
      /\ Size(MessageHeader) + Len(payload) < Weight[2]
  BY DEF Sendable
<1>5. front = WrittenUpTo(PacketHeader, Outer(header, message))[Len(PacketHeader)]
  BY <1>2, EncodeIs
<1>6. middle = WrittenUpTo(MessageHeader, Inner(message))[Len(MessageHeader)]
  BY <1>3, EncodeIs
<1>7. ReadAll(MessageHeader, rest) = [ok |-> TRUE, values |-> Inner(message), rest |-> payload]
  BY <1>3, <1>4, <1>6, ReadBack
<1>8. bytes = (front \o middle) \o payload
  <2>1. ~(Len(payload) > MessageLimit) /\ ~(Len(payload) >= Weight[2])
    <3> DEFINE length == Len(payload)
    <3>1. length \in Nat /\ length <= MessageLimit /\ Size(MessageHeader) + length < Weight[2]
      BY <1>4
    <3>2. MessageLimit \in Nat /\ Weight[2] \in Nat /\ Size(MessageHeader) \in Nat
      BY CodecAssumption, WeightDef, HeaderSizes
    <3> HIDE DEF length
    <3>3. ~(length > MessageLimit) /\ ~(length >= Weight[2])
      BY <3>1, <3>2
    <3> QED
      BY <3>3 DEF length
  <2> QED
    BY <2>1 DEF EncodePacket, Outer, Inner
<1> HIDE DEF front, middle, payload, bytes
<1>9. rest \in Seq(Byte) /\ Len(rest) = Len(middle) + Len(payload)
  BY <1>3, <1>4, Joined
<1>10. (front \o middle) \o payload = front \o rest
  BY <1>2, <1>3, <1>4, ConcatAssociative
<1> HIDE DEF rest
<1>11. bytes = front \o rest
  BY <1>8, <1>10
<1>12. bytes \in Seq(Byte) /\ Len(bytes) = Len(front) + Len(rest)
  BY <1>2, <1>9, <1>11, Joined
<1>13. Len(bytes) = DatagramSize(Len(payload))
  BY <1>2, <1>3, <1>4, <1>9, <1>12, HeaderSizes DEF DatagramSize, HeaderSize
<1>14. ReadAll(PacketHeader, front \o rest) =
           [ok |-> TRUE, values |-> Outer(header, message), rest |-> rest]
  BY <1>2, <1>5, <1>9, ReadBack
<1>15. ReadAll(PacketHeader, bytes) =
           [ok |-> TRUE, values |-> Outer(header, message), rest |-> rest]
  BY <1>11, <1>14
<1> QED
  BY <1>3, <1>7, <1>9, <1>12, <1>13, <1>15 DEF rest, bytes, middle, payload

(* decode_packet reads every datagram encode_packet writes of up to         *)
(* kMaxDatagramSize bytes (protocol.cpp:223), header and message as they    *)
(* were, no larger one, none that is cut short, however it is cut, and none *)
(* with anything behind it.                                                 *)
THEOREM PacketsRoundTrip ==
    ASSUME NEW header, NEW message, Sendable(header, message)
    PROVE  LET bytes == EncodePacket(header, message)
           IN  /\ Len(bytes) = DatagramSize(Len(message.payload))
               /\ DecodePacket(bytes) =
                      IF Len(bytes) <= DatagramLimit
                      THEN [header |-> header, message |-> message] ELSE Refused
               /\ \A k \in 0..(Len(bytes) - 1) :
                      DecodePacket(SubSeq(bytes, 1, k)) = Refused
               /\ \A more \in Seq(Byte) :
                      more # <<>> => DecodePacket(bytes \o more) = Refused
<1> DEFINE payload == message.payload
           outer == Outer(header, message)
           inner == Inner(message)
           rest == Encode(MessageHeader, Inner(message)) \o message.payload
           bytes == EncodePacket(header, message)
           length == Len(payload)
<1>1. /\ bytes \in Seq(Byte) /\ rest \in Seq(Byte)
      /\ Len(bytes) = DatagramSize(length)
      /\ Len(rest) = Size(MessageHeader) + length
      /\ ReadAll(PacketHeader, bytes) = [ok |-> TRUE, values |-> outer, rest |-> rest]
      /\ ReadAll(MessageHeader, rest) = [ok |-> TRUE, values |-> inner, rest |-> payload]
  BY PacketWritten
<1>2. /\ outer \in Seq(Datum) /\ Len(outer) = 8
      /\ outer[1] = Magic /\ outer[2] = Version
      /\ outer[3] = (IF message.reliable THEN 1 ELSE 0)
      /\ outer[4] = Size(MessageHeader) + length
      /\ \A i \in 1..4 : outer[4 + i] = header[i]
  BY OuterFields
<1>3. inner[1] = message.type /\ inner[2] = message.channel /\ inner[3] = length
  BY DEF Inner
<1>4. /\ message = [type |-> message.type, channel |-> message.channel,
                    reliable |-> message.reliable, payload |-> payload]
      /\ message.reliable \in BOOLEAN /\ length <= MessageLimit
      /\ header \in Seq(Nat) /\ Len(header) = 4
  BY DEF Sendable
<1> HIDE DEF payload, outer, inner, rest, bytes, length
<1>5. SubSeq(outer, 5, 8) = header
  <2> DEFINE first == 5
             last == 8
             part == SubSeq(outer, first, last)
  <2>1. first \in Nat /\ first > 0 /\ last \in Nat /\ last <= Len(outer)
    BY <1>2
  <2> HIDE DEF first, last
  <2>2. /\ part \in Seq(Datum) /\ Len(part) = (IF first <= last THEN last - first + 1 ELSE 0)
        /\ \A i \in 1..(last - first + 1) : part[i] = outer[first + i - 1]
    <3>1. outer \in Seq(Datum)
      BY <1>2
    <3> QED
      BY <2>1, <3>1, Part
  <2> HIDE DEF part
  <2>3. Len(part) = 4
    BY <2>2 DEF first, last
  <2>4. \A i \in 1..4 : part[i] = header[i]
    <3> SUFFICES ASSUME NEW i \in 1..4 PROVE part[i] = header[i]
      OBVIOUS
    <3>1. first + i - 1 = 4 + i /\ i \in 1..(last - first + 1)
      BY DEF first, last
    <3> QED
      BY <1>2, <2>2, <3>1
  <2>5. header \in Seq(Datum)
    <3>1. Nat \subseteq Datum
      BY DEF Datum
    <3> QED
      BY <1>4, <3>1, SeqMonotonic
  <2>6. Len(part) = Len(header) /\ \A i \in 1..Len(part) : part[i] = header[i]
    BY <1>4, <2>3, <2>4
  <2>7. part = header
    BY <2>2, <2>5, <2>6, SeqEqual
  <2> QED
    BY <2>7 DEF part, first, last
<1>6. (outer[3] % 2 = 1) = message.reliable
  <2>1. 1 % 2 = 1 /\ 0 % 2 = 0
    OBVIOUS
  <2>2. CASE message.reliable
    BY <1>2, <1>4, <2>1, <2>2
  <2>3. CASE ~message.reliable
    <3>1. ~(outer[3] % 2 = 1)
      BY <1>2, <2>1, <2>3
    <3> QED
      BY <1>4, <2>3, <3>1
  <2> QED
    BY <1>4, <2>2, <2>3
<1>7. MessageLimit \in Nat /\ DatagramLimit \in Nat /\ Len(bytes) \in Nat /\ length \in Nat
      /\ length <= MessageLimit
  <2>1. MessageLimit \in Nat /\ DatagramLimit \in Nat
    BY CodecAssumption
  <2>2. Len(bytes) \in Nat
    BY <1>1
  <2>3. length \in Nat
    BY DEF length, payload, Sendable
  <2> QED
    BY <1>4, <2>1, <2>2, <2>3
<1>8. DecodePacket(bytes) = IF Len(bytes) <= DatagramLimit
                            THEN [header |-> header, message |-> message] ELSE Refused
  <2> DEFINE head == ReadAll(PacketHeader, bytes)
             found == ReadAll(MessageHeader, head.rest)
             good == /\ head.values[1] = Magic
                     /\ head.values[2] = Version
                     /\ head.values[4] = Len(head.rest)
                     /\ found.values[3] = Len(found.rest)
                     /\ found.values[3] <= MessageLimit
             answer == [header |-> SubSeq(head.values, 5, 8),
                        message |-> [type |-> found.values[1], channel |-> found.values[2],
                                     reliable |-> head.values[3] % 2 = 1,
                                     payload |-> found.rest]]
  <2>1. DecodePacket(bytes) =
            IF ~head.ok \/ ~found.ok \/ Len(bytes) > DatagramLimit THEN Refused
            ELSE IF good THEN answer ELSE Refused
    BY DEF DecodePacket
  <2>2. head.ok /\ head.values = outer /\ head.rest = rest
    BY <1>1
  <2>3. found.ok /\ found.values = inner /\ found.rest = payload
    BY <1>1, <2>2
  <2> HIDE DEF head, found
  <2>4. good
    BY <1>1, <1>2, <1>3, <1>4, <2>2, <2>3 DEF length
  <2>5. answer = [header |-> header, message |-> message]
    <3>1. answer.header = header
      BY <1>5, <2>2
    <3>2. answer.message = [type |-> message.type, channel |-> message.channel,
                            reliable |-> message.reliable, payload |-> payload]
      BY <1>3, <1>6, <2>2, <2>3
    <3>3. answer.message = message
      BY <1>4, <3>2
    <3> QED
      BY <3>1, <3>3
  <2> HIDE DEF good, answer
  <2>6. (Len(bytes) > DatagramLimit) <=> ~(Len(bytes) <= DatagramLimit)
    BY <1>7
  <2> QED
    BY <2>1, <2>2, <2>3, <2>4, <2>5, <2>6
<1>9. ASSUME NEW k \in 0..(Len(bytes) - 1)
      PROVE  DecodePacket(SubSeq(bytes, 1, k)) = Refused
  <2> DEFINE short == SubSeq(bytes, 1, k)
             more == From(bytes, k)
             head == ReadAll(PacketHeader, short)
             found == ReadAll(MessageHeader, head.rest)
             good == /\ head.values[1] = Magic
                     /\ head.values[2] = Version
                     /\ head.values[4] = Len(head.rest)
                     /\ found.values[3] = Len(found.rest)
                     /\ found.values[3] <= MessageLimit
             answer == [header |-> SubSeq(head.values, 5, 8),
                        message |-> [type |-> found.values[1], channel |-> found.values[2],
                                     reliable |-> head.values[3] % 2 = 1,
                                     payload |-> found.rest]]
  <2>1. /\ short \in Seq(Byte) /\ more \in Seq(Byte) /\ Len(more) = Len(bytes) - k
        /\ bytes = short \o more
    <3>1. k \in 0..Len(bytes)
      BY <1>7
    <3> QED
      BY <1>1, <3>1, Cut
  <2>2. DecodePacket(short) =
            IF ~head.ok \/ ~found.ok \/ Len(short) > DatagramLimit THEN Refused
            ELSE IF good THEN answer ELSE Refused
    BY DEF DecodePacket
  <2> HIDE DEF short, more, answer
  <2>3. head.ok => ~good
    <3> SUFFICES ASSUME head.ok PROVE head.values[4] # Len(head.rest)
      OBVIOUS
    <3>1. PacketHeader \in Seq(Field) /\ Len(PacketHeader) \in 0..Len(PacketHeader)
      BY Layouts, NumberFields
    <3>2. head \in Reader
      BY <2>1, <3>1, ReadDef DEF ReadAll
    <3>3. ReadAll(PacketHeader, bytes) = With(head, more)
      BY <2>1, <3>1, ReadAllMore
    <3>4. head.values = outer /\ rest = head.rest \o more
      BY <1>1, <3>3 DEF With
    <3> HIDE DEF head
    <3>5. head.rest \in Seq(Byte)
      BY <3>2 DEF Reader
    <3>6. Len(rest) = Len(head.rest) + Len(more) /\ Len(head.rest) \in Nat
      BY <2>1, <3>4, <3>5, Joined
    <3>7. head.values[4] = Len(rest)
      BY <1>1, <1>2, <3>4
    <3> QED
      BY <1>7, <2>1, <3>6, <3>7
  <2> HIDE DEF head, found, good
  <2>4. DecodePacket(short) = Refused
    BY <2>2, <2>3
  <2> QED
    BY <2>4 DEF short
<1>10. ASSUME NEW more \in Seq(Byte), more # <<>>
       PROVE  DecodePacket(bytes \o more) = Refused
  <2> DEFINE head == ReadAll(PacketHeader, bytes \o more)
  <2>1. PacketHeader \in Seq(Field)
    BY Layouts, NumberFields
  <2>2. ReadAll(PacketHeader, bytes).ok
    BY <1>1
  <2>3. head = With(ReadAll(PacketHeader, bytes), more)
    BY <1>1, <2>1, <2>2, ReadAllMore
  <2>4. head.values = outer /\ head.rest = rest \o more
    BY <1>1, <2>3 DEF With
  <2>5. Len(rest \o more) = Len(rest) + Len(more) /\ Len(rest) \in Nat
    BY <1>1, Joined
  <2>6. Len(more) \in Nat /\ Len(more) > 0
    BY <1>10, EmptySeq
  <2>7. Len(head.rest) = Len(rest) + Len(more) /\ head.values[4] = Len(rest)
    BY <1>1, <1>2, <2>4, <2>5
  <2> HIDE DEF head
  <2>8. head.values[4] # Len(head.rest)
    BY <2>5, <2>6, <2>7
  <2> QED
    BY <2>8 DEF DecodePacket, head
<1> QED
  BY <1>1, <1>8, <1>9, <1>10 DEF bytes, length, payload

LEMMA SamplesSendable ==
    ASSUME NEW n \in Payloads, NEW reliable \in BOOLEAN
    PROVE  Sendable(<<1, 2, 3, 4>>, [type |-> 4, channel |-> 1, reliable |-> reliable,
                                     payload |-> Bytes(n)])
<1> DEFINE header == <<1, 2, 3, 4>>
           message == [type |-> 4, channel |-> 1, reliable |-> reliable, payload |-> Bytes(n)]
           outside == Size(PacketHeader)
           inside == Size(MessageHeader)
<1>1. outside \in Nat /\ outside >= 8 /\ inside \in Nat /\ inside >= 3
  BY HeaderSizes
<1>2. /\ DatagramLimit \in Nat /\ MessageLimit \in Nat /\ DatagramLimit <= MessageLimit
      /\ Weight[2] \in Nat /\ DatagramLimit < Weight[2]
  BY CodecAssumption, WeightDef
<1>3. n \in 0..(DatagramLimit - (outside + inside + 0) + 1)
  BY DEF Payloads, DatagramSize, HeaderSize
<1> HIDE DEF outside, inside
<1>4. n \in Nat /\ n <= MessageLimit /\ inside + n < Weight[2]
  BY <1>1, <1>2, <1>3
<1>5. Bytes(n) \in Seq(Byte) /\ Len(Bytes(n)) = n
  BY <1>4, BytesTyped
<1>6. Base \in Nat /\ Base >= 16 /\ Weight[1] = Base
  BY CodecAssumption, Weights
<1>7. /\ Weight[4] \in Nat /\ Base <= Weight[4] /\ Weight[8] \in Nat /\ Base <= Weight[8]
  <2>1. 4 \in 1..8 /\ 8 \in 1..8
    OBVIOUS
  <2> QED
    BY <2>1, Weights, WeightDef
<1>8. /\ header \in Seq(Nat) /\ Len(header) = 4
      /\ header[1] < Weight[4] /\ header[2] < Weight[4] /\ header[3] < Weight[4]
      /\ header[4] < Weight[8]
  BY <1>6, <1>7
<1>9. /\ message = [type |-> message.type, channel |-> message.channel,
                    reliable |-> message.reliable, payload |-> message.payload]
      /\ message.type = 4 /\ message.channel = 1 /\ message.reliable \in BOOLEAN
      /\ message.payload = Bytes(n)
  OBVIOUS
<1> HIDE DEF header, message
<1>10. message.type \in 0..(Weight[1] - 1) /\ message.channel \in 0..(Weight[1] - 1)
  BY <1>6, <1>9
<1>11. /\ message.payload \in Seq(Byte) /\ Len(message.payload) <= MessageLimit
       /\ Size(MessageHeader) + Len(message.payload) < Weight[2]
  BY <1>4, <1>5, <1>9 DEF inside
<1>12. Sendable(header, message)
  BY <1>8, <1>9, <1>10, <1>11 DEF Sendable
<1> QED
  BY <1>12 DEF header, message

LEMMA DatagramsRoundTrip == PacketRoundTrip
<1> SUFFICES ASSUME NEW n \in Payloads, NEW reliable \in BOOLEAN
             PROVE  LET header == <<1, 2, 3, 4>>
                        message == [type |-> 4, channel |-> 1, reliable |-> reliable,
                                    payload |-> Bytes(n)]
                        bytes == EncodePacket(header, message)
                    IN  /\ Len(bytes) = DatagramSize(n)
                        /\ DecodePacket(bytes) =
                               IF Len(bytes) <= DatagramLimit
                               THEN [header |-> header, message |-> message] ELSE Refused
                        /\ DecodePacket(SubSeq(bytes, 1, Len(bytes) - 1)) = Refused
  BY DEF PacketRoundTrip
<1> DEFINE header == <<1, 2, 3, 4>>
           message == [type |-> 4, channel |-> 1, reliable |-> reliable, payload |-> Bytes(n)]
           bytes == EncodePacket(header, message)
<1>1. Sendable(header, message)
  BY SamplesSendable
<1>2. n \in Nat /\ Len(Bytes(n)) = n /\ message.payload = Bytes(n)
  <2>1. n \in Nat
    BY CodecAssumption, HeaderSizes DEF Payloads, DatagramSize, HeaderSize
  <2> QED
    BY <2>1, BytesTyped
<1> HIDE DEF header, message
<1>3. /\ Len(bytes) = DatagramSize(Len(message.payload))
      /\ DecodePacket(bytes) = IF Len(bytes) <= DatagramLimit
                               THEN [header |-> header, message |-> message] ELSE Refused
      /\ \A k \in 0..(Len(bytes) - 1) : DecodePacket(SubSeq(bytes, 1, k)) = Refused
  BY <1>1, PacketsRoundTrip
<1>4. Len(bytes) = DatagramSize(n)
  BY <1>2, <1>3
<1>5. Len(bytes) - 1 \in 0..(Len(bytes) - 1)
  BY <1>2, <1>4, HeaderSizes DEF DatagramSize, HeaderSize
<1>6. DecodePacket(SubSeq(bytes, 1, Len(bytes) - 1)) = Refused
  BY <1>3, <1>5
<1> QED
  BY <1>3, <1>4, <1>6 DEF header, message

(* Every message of the protocol, with its texts empty, short, at their     *)
(* limit and beyond it, every crowd and every payload (protocol.cpp:105,    *)
(* 166 and 223): what the runs check of the format for one size of a byte.  *)
THEOREM FormatsRoundTrip == FormatRoundTrip
  BY AllSamplesRoundTrip, CrowdsRoundTrip, DatagramsRoundTrip DEF FormatRoundTrip

\* types.hpp, protocol.hpp: 28 and 4 bytes of headers, 6 of a snapshot's head,
\* 36 of a PlayerState and 2 of its length.
LEMMA Sizes == HeaderSize = 32 /\ HeadSize = 6 /\ PlayerSize = 38
<1>1. Size(PacketHeader) = 28
  <2> DEFINE Z == SizeUpTo(PacketHeader)
  <2>1. PacketHeader \in Seq(NumberField) /\ Len(PacketHeader) = 8
    BY Layouts
  <2>2. Z \in [0..8 -> Nat] /\ Z[0] = 0
        /\ \A i \in 1..8 : Z[i] = Z[i - 1] + PacketHeader[i].width
    BY <2>1, SizeDef
  <2>3. Size(PacketHeader) = Z[8]
    BY <2>1 DEF Size
  <2> HIDE DEF Z
  <2>4. /\ PacketHeader[1].width = 4 /\ PacketHeader[2].width = 1
        /\ PacketHeader[3].width = 1 /\ PacketHeader[4].width = 2
        /\ PacketHeader[5].width = 4 /\ PacketHeader[6].width = 4
        /\ PacketHeader[7].width = 4 /\ PacketHeader[8].width = 8
    BY DEF PacketHeader, Number
  <2>5. /\ Z[1] = Z[0] + 4 /\ Z[2] = Z[1] + 1 /\ Z[3] = Z[2] + 1 /\ Z[4] = Z[3] + 2
        /\ Z[5] = Z[4] + 4 /\ Z[6] = Z[5] + 4 /\ Z[7] = Z[6] + 4 /\ Z[8] = Z[7] + 8
    BY <2>2, <2>4
  <2> QED
    BY <2>2, <2>3, <2>5
<1>2. Size(MessageHeader) = 4
  <2> DEFINE Z == SizeUpTo(MessageHeader)
  <2>1. MessageHeader \in Seq(NumberField) /\ Len(MessageHeader) = 3
    BY Layouts
  <2>2. Z \in [0..3 -> Nat] /\ Z[0] = 0
        /\ \A i \in 1..3 : Z[i] = Z[i - 1] + MessageHeader[i].width
    BY <2>1, SizeDef
  <2>3. Size(MessageHeader) = Z[3]
    BY <2>1 DEF Size
  <2> HIDE DEF Z
  <2>4. /\ MessageHeader[1].width = 1 /\ MessageHeader[2].width = 1
        /\ MessageHeader[3].width = 2
    BY DEF MessageHeader, Number
  <2>5. Z[1] = Z[0] + 1 /\ Z[2] = Z[1] + 1 /\ Z[3] = Z[2] + 2
    BY <2>2, <2>4
  <2> QED
    BY <2>2, <2>3, <2>5
<1>3. Size(SnapshotHead) = 6
  <2> DEFINE Z == SizeUpTo(SnapshotHead)
  <2>1. SnapshotHead \in Seq(NumberField) /\ Len(SnapshotHead) = 2
    BY Layouts
  <2>2. Z \in [0..2 -> Nat] /\ Z[0] = 0
        /\ \A i \in 1..2 : Z[i] = Z[i - 1] + SnapshotHead[i].width
    BY <2>1, SizeDef
  <2>3. Size(SnapshotHead) = Z[2]
    BY <2>1 DEF Size
  <2> HIDE DEF Z
  <2>4. SnapshotHead[1].width = 4 /\ SnapshotHead[2].width = 2
    BY DEF SnapshotHead, Number
  <2>5. Z[1] = Z[0] + 4 /\ Z[2] = Z[1] + 2
    BY <2>2, <2>4
  <2> QED
    BY <2>2, <2>3, <2>5
<1>4. Size(PlayerState) = 36
  <2> DEFINE Z == SizeUpTo(PlayerState)
  <2>1. PlayerState \in Seq(NumberField) /\ Len(PlayerState) = 11
    BY Layouts
  <2>2. Z \in [0..11 -> Nat] /\ Z[0] = 0
        /\ \A i \in 1..11 : Z[i] = Z[i - 1] + PlayerState[i].width
    BY <2>1, SizeDef
  <2>3. Size(PlayerState) = Z[11]
    BY <2>1 DEF Size
  <2> HIDE DEF Z
  <2>4. /\ PlayerState[1].width = 2 /\ PlayerState[2].width = 4 /\ PlayerState[3].width = 4
        /\ PlayerState[4].width = 4 /\ PlayerState[5].width = 4 /\ PlayerState[6].width = 4
        /\ PlayerState[7].width = 4 /\ PlayerState[8].width = 4 /\ PlayerState[9].width = 4
        /\ PlayerState[10].width = 1 /\ PlayerState[11].width = 1
    BY DEF PlayerState, Number
  <2>5. /\ Z[1] = Z[0] + 2 /\ Z[2] = Z[1] + 4 /\ Z[3] = Z[2] + 4 /\ Z[4] = Z[3] + 4
        /\ Z[5] = Z[4] + 4 /\ Z[6] = Z[5] + 4 /\ Z[7] = Z[6] + 4 /\ Z[8] = Z[7] + 4
        /\ Z[9] = Z[8] + 4 /\ Z[10] = Z[9] + 1 /\ Z[11] = Z[10] + 1
    BY <2>2, <2>4
  <2> QED
    BY <2>2, <2>3, <2>5
<1> QED
  BY <1>1, <1>2, <1>3, <1>4 DEF HeaderSize, HeadSize, PlayerSize
=============================================================================
