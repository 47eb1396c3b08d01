---------------------------- MODULE TeNumProofs ----------------------------
(***************************************************************************)
(* What fac, ncr and npr return, for every width of unsigned int, unsigned *)
(* long and double, and for every bound on their arguments.                *)
(***************************************************************************)
EXTENDS TeNum, WellFoundedInduction, TLAPS

\* Calls one after another, each with a function and arguments of its own; Spec is the
\* first of them.
Calls == Init /\ [][Next \/ Init']_vars

\* Division of naturals.
LEMMA Divides ==
  ASSUME NEW a \in Nat, NEW b \in Nat \ {0}
  PROVE  a \div b \in Nat /\ a \div b <= a /\ (b * a) \div b = a
<1>1. a \div b \in Nat /\ a % b \in Nat /\ a = b * (a \div b) + (a % b)
  BY SMT
<1>2. b * (a \div b) \in Nat /\ a \div b <= b * (a \div b)
  <2> DEFINE q == a \div b
  <2>1. q \in Nat
    BY <1>1
  <2> HIDE DEF q
  <2>2. b * q \in Nat /\ q <= b * q
    BY <2>1, SMT
  <2> QED BY <2>2 DEF q
<1>3. a \div b <= a
  <2> DEFINE q == a \div b
             p == b * q
  <2>1. q \in Nat /\ p \in Nat /\ q <= p /\ a = p + (a % b) /\ a % b \in Nat
    BY <1>1, <1>2
  <2> HIDE DEF q, p
  <2>2. q <= a
    BY <2>1
  <2> QED BY <2>2 DEF q
<1>4. (b * a) \div b = a
  BY SMT
<1> QED BY <1>1, <1>3, <1>4

\* A product that passes the test "x > ULONG_MAX / y" of the loops does not wrap.
LEMMA Passes ==
  ASSUME NEW x \in Nat, NEW y \in Nat \ {0}, NEW m \in Nat, x <= m \div y
  PROVE  x * y \in Nat /\ x * y <= m
<1> DEFINE q == m \div y
<1>1. q \in Nat /\ m % y \in Nat /\ m = y * q + (m % y)
  BY SMT
<1> HIDE DEF q
<1>2. x <= q
  BY DEF q
<1>3. x * y <= q * y /\ x * y \in Nat /\ q * y \in Nat /\ y * q = q * y
  BY <1>1, <1>2, SMT
<1> DEFINE a == x * y
           b == q * y
<1>4. a \in Nat /\ b \in Nat /\ a <= b /\ m = b + (m % y)
  BY <1>1, <1>3
<1> HIDE DEF a, b
<1>5. a <= m
  BY <1>1, <1>4
<1> QED BY <1>3, <1>5 DEF a

\* Words.
LEMMA Words ==
  ASSUME ULongMax \in LongMaxes
  PROVE  /\ ULongMax \in Nat /\ UIntMax \in Nat /\ 3 <= UIntMax /\ UIntMax <= ULongMax
         /\ Numbers \subseteq Word
         /\ \A x \in Int : Wrap(x) \in Word
         /\ \A x \in Word : Wrap(x) = x
<1>1. ULongMax \in Nat /\ UIntMax \in Nat /\ 3 <= UIntMax /\ UIntMax <= ULongMax
  BY WidthAssumption
<1>2. \A x \in Int : Wrap(x) \in Word
  BY <1>1, SMT DEF Wrap, Word
<1>3. \A x \in Word : Wrap(x) = x
  BY <1>1, SMT DEF Wrap, Word
<1>4. Numbers \subseteq Word
  BY <1>1 DEF Numbers, Word
<1> QED BY <1>1, <1>2, <1>3, <1>4

\* A nonempty set of naturals has a least element: < on Nat is well-founded.
LEMMA Least ==
  ASSUME NEW T, T \subseteq Nat, T # {}
  PROVE  \E m \in T : \A k \in T : m <= k
<1> DEFINE L == OpToRel(<, Nat)
<1>1. IsWellFoundedOn(L, Nat)
  BY NatLessThanWellFounded
<1>2. \A x, y \in Nat : y < x => <<y, x>> \in L
  BY DEF OpToRel
<1> HIDE DEF L
<1>3. PICK x \in T : \A y \in T : ~(<<y, x>> \in L)
  BY <1>1, WFMin
<1>4. ASSUME NEW y \in T PROVE x <= y
  <2>1. x \in Nat /\ y \in Nat /\ <<y, x>> \notin L
    BY <1>3
  <2>2. ~(y < x)
    BY <1>2, <2>1, Zenon
  <2> QED BY <2>1, <2>2
<1> QED BY <1>4

(***************************************************************************)
(* Rounding                                                                *)
(***************************************************************************)

\* There is a double as large as x.
Fits(x) == \E u \in Units : x <= MaxExact * u

\* The unit of x is 1 as long as doubles hold every integer, and at most two MaxExact-th
\* parts of x beyond.
LEMMA UlpFits ==
  ASSUME NEW x \in Nat, Fits(x)
  PROVE  /\ Ulp(x) \in Nat \ {0}
         /\ x <= MaxExact => Ulp(x) = 1
         /\ x > MaxExact => MaxExact * Ulp(x) <= 2 * x
<1>1. MaxExact \in Nat /\ 8 <= MaxExact /\ Units \subseteq Nat \ {0} /\ 1 \in Units
  BY RoundAssumption
<1> DEFINE T == {u \in Units : x <= MaxExact * u}
           P(u) == x <= MaxExact * u /\ \A v \in Units : v < u => MaxExact * v < x
<1>2. PICK m \in T : \A k \in T : m <= k
  <2>1. T \subseteq Nat /\ T # {}
    BY <1>1 DEF Fits
  <2> HIDE DEF T
  <2> QED BY <2>1, Least
<1>3. m \in Units /\ P(m)
  <2>1. ASSUME NEW v \in Units, v < m PROVE MaxExact * v < x
    <3>1. v \notin T
      BY <1>1, <1>2, <2>1
    <3>2. v \in Nat /\ MaxExact * v \in Nat
      BY <1>1, SMT
    <3> QED BY <3>1, <3>2
  <2> QED BY <1>2, <2>1
<1> DEFINE u == Ulp(x)
<1>4. u \in Units /\ P(u)
  BY <1>3, Zenon DEF Ulp
<1> HIDE DEF u
<1>5. u \in Nat \ {0}
  BY <1>1, <1>4
<1>6. ASSUME x <= MaxExact PROVE u = 1
  BY <1>1, <1>4, <1>5, <1>6
<1>7. ASSUME x > MaxExact PROVE MaxExact * u <= 2 * x
  <2>1. u # 1
    BY <1>1, <1>4, <1>7
  <2>2. PICK v \in Units : u = 2 * v
    BY <1>4, <2>1, RoundAssumption
  <2>3. v \in Nat /\ v < u /\ MaxExact * v < x
    BY <1>1, <1>4, <1>5, <2>2
  <2>4. MaxExact * v \in Nat /\ MaxExact * (2 * v) = 2 * (MaxExact * v)
    BY <1>1, <2>3, SMT
  <2> QED BY <2>2, <2>3, <2>4
<1> QED BY <1>5, <1>6, <1>7 DEF u

\* Rounding moves a number by at most one MaxExact-th part of it, and not at all as long
\* as doubles hold every integer.
LEMMA RoundNear ==
  ASSUME NEW x \in Nat, Fits(x)
  PROVE  /\ Round(x) \in Nat /\ Round(x) <= 2 * x
         /\ x <= MaxExact => Round(x) = x
         /\ Off(x, Round(x)) \in Nat /\ MaxExact * Off(x, Round(x)) <= x
<1>1. MaxExact \in Nat /\ 8 <= MaxExact
  BY RoundAssumption
<1> DEFINE u == Ulp(x)
           q == x \div u
           d == x % u
           y == Round(x)
           o == Off(x, y)
<1>2. u \in Nat \ {0} /\ (x <= MaxExact => u = 1) /\ (x > MaxExact => MaxExact * u <= 2 * x)
  BY UlpFits
<1>3. y = IF 2 * d < u \/ (2 * d = u /\ q % 2 = 0) THEN q * u ELSE (q + 1) * u
  BY DEF Round
<1> HIDE DEF u, y
<1>4. q \in Nat /\ d \in Nat /\ d < u /\ x = u * q + d
  BY <1>2, SMT
<1> HIDE DEF q, d
<1>5. q * u \in Nat /\ (q + 1) * u = q * u + u /\ u * q = q * u
  BY <1>2, <1>4, SMT
<1> DEFINE z == q * u
<1>6. z \in Nat /\ x = z + d /\ ((y = z /\ 2 * d <= u) \/ (y = z + u /\ u <= 2 * d))
  <2> DEFINE c == q % 2 = 0
             w == (q + 1) * u
  <2>1. z \in Nat /\ w = z + u /\ x = z + d
    BY <1>4, <1>5
  <2>2. y = IF 2 * d < u \/ (2 * d = u /\ c) THEN z ELSE w
    BY <1>3
  <2> HIDE DEF z, w, c
  <2> QED BY <1>2, <1>4, <2>1, <2>2
<1> HIDE DEF z
<1>7. y \in Nat /\ o \in Nat /\ 2 * o <= u /\ y <= x + o /\ (o = 0 => y = x)
  BY <1>2, <1>4, <1>6 DEF Off
<1> HIDE DEF o
<1>8. ASSUME x <= MaxExact PROVE y = x /\ o = 0
  BY <1>2, <1>7, <1>8
<1>9. MaxExact * o <= x /\ 8 * o <= MaxExact * o /\ MaxExact * o \in Nat
  <2>1. MaxExact * o \in Nat /\ 8 * o <= MaxExact * o
    BY <1>1, <1>7, SMT
  <2>2. CASE x <= MaxExact
    BY <1>1, <1>8, <2>1, <2>2
  <2>3. CASE x > MaxExact
    <3>1. MaxExact * (2 * o) <= MaxExact * u /\ MaxExact * (2 * o) = 2 * (MaxExact * o)
          /\ MaxExact * u \in Nat
      BY <1>1, <1>2, <1>7, SMT
    <3> QED BY <1>2, <2>1, <2>3, <3>1
  <2> QED BY <1>1, <2>1, <2>2, <2>3
<1>10. y <= 2 * x
  BY <1>7, <1>9
<1> QED BY <1>7, <1>8, <1>9, <1>10 DEF y, o

\* Words and products of two rounded words have doubles near them.
LEMMA WordsFit ==
  ASSUME ULongMax \in LongMaxes
  PROVE  /\ \A x \in Nat : x <= ULongMax => Fits(x)
         /\ \A x, y \in Nat : x <= 2 * ULongMax /\ y <= 2 * ULongMax
                                => x * y \in Nat /\ Fits(x * y)
<1>1. ULongMax \in Nat /\ MaxExact \in Nat /\ Units \subseteq Nat
  BY WidthAssumption, RoundAssumption
<1>2. PICK u \in Units : 4 * ULongMax * ULongMax <= MaxExact * u
  BY RoundAssumption
<1> DEFINE s == 4 * ULongMax * ULongMax
           t == MaxExact * u
<1>3. s \in Nat /\ ULongMax <= s /\ t \in Nat /\ s <= t
  BY <1>1, <1>2, SMT
<1>4. ASSUME NEW x \in Nat, x <= s PROVE Fits(x)
  <2> HIDE DEF s
  <2> QED BY <1>3, <1>4 DEF Fits
<1>5. ASSUME NEW x \in Nat, NEW y \in Nat, x <= 2 * ULongMax, y <= 2 * ULongMax
      PROVE  x * y \in Nat /\ x * y <= s
  <2> DEFINE w == 2 * ULongMax
  <2>1. w \in Nat /\ x <= w /\ y <= w /\ s = w * w
    BY <1>1, <1>5, SMT
  <2> HIDE DEF w, s
  <2>2. x * y \in Nat /\ x * y <= x * w /\ x * w <= w * w /\ x * w \in Nat /\ w * w \in Nat
    BY <2>1, SMT
  <2> QED BY <2>1, <2>2
<1> QED BY <1>1, <1>3, <1>4, <1>5

\* Three errors in a row, each of at most one part.
LEMMA ThreeParts ==
  ASSUME NEW M \in Nat, 8 <= M, NEW p \in Nat, NEW q \in Nat, NEW c \in Nat, NEW y \in Nat,
         M * Off(p, q) <= p, M * Off(q, c) <= q, M * Off(c, y) <= c
  PROVE  M * Off(p, y) <= 4 * p
<1> DEFINE a == Off(p, q)
           b == Off(q, c)
           d == Off(c, y)
           e == Off(p, y)
<1>1. /\ a \in Nat /\ b \in Nat /\ d \in Nat /\ e \in Nat
      /\ q <= p + a /\ c <= q + b /\ e <= a + b + d
  BY DEF Off
<1>2. M * a <= p /\ M * b <= q /\ M * d <= c
  OBVIOUS
<1> HIDE DEF a, b, d, e
<1>3. /\ M * a \in Nat /\ M * b \in Nat /\ M * d \in Nat /\ M * e \in Nat
      /\ 8 * a <= M * a /\ 8 * b <= M * b
      /\ M * e <= M * (a + b + d) /\ M * (a + b + d) = M * a + M * b + M * d
  BY <1>1, SMT
<1> DEFINE ma == M * a
           mb == M * b
           md == M * d
           me == M * e
<1>4. /\ ma \in Nat /\ mb \in Nat /\ md \in Nat /\ me \in Nat
      /\ 8 * a <= ma /\ 8 * b <= mb /\ me <= ma + mb + md
      /\ ma <= p /\ mb <= q /\ md <= c
  BY <1>2, <1>3
<1> HIDE DEF ma, mb, md, me
<1>5. me <= 4 * p
  BY <1>1, <1>4
<1> QED BY <1>5 DEF me, e

\* Rounding a word.
LEMMA RoundOnce ==
  ASSUME ULongMax \in LongMaxes, NEW x \in Nat, x <= ULongMax
  PROVE  Within(Round(x), x, 1)
<1>1. MaxExact \in Nat
  BY RoundAssumption
<1>2. (x <= MaxExact => Round(x) = x) /\ MaxExact * Off(x, Round(x)) <= x
  BY WordsFit, RoundNear
<1> QED BY <1>2 DEF Within

\* Rounding both factors and their product.
LEMMA RoundProduct ==
  ASSUME ULongMax \in LongMaxes,
         NEW a \in Nat, a <= ULongMax, NEW b \in Nat, b <= ULongMax
  PROVE  Within(Round(Round(a) * Round(b)), a * b, 4)
<1>1. MaxExact \in Nat /\ 8 <= MaxExact /\ ULongMax \in Nat
  BY RoundAssumption, WidthAssumption
<1> DEFINE A == Round(a)
           B == Round(b)
           C == A * B
           y == Round(C)
           f == Off(a, A)
           g == Off(b, B)
<1>2. /\ A \in Nat /\ A <= 2 * a /\ (a <= MaxExact => A = a)
      /\ f \in Nat /\ MaxExact * f <= a
  BY WordsFit, RoundNear
<1>3. /\ B \in Nat /\ B <= 2 * b /\ (b <= MaxExact => B = b)
      /\ g \in Nat /\ MaxExact * g <= b
  BY WordsFit, RoundNear
<1> HIDE DEF A, B
<1>4. C \in Nat /\ Fits(C)
  <2>1. A <= 2 * ULongMax /\ B <= 2 * ULongMax
    BY <1>1, <1>2, <1>3
  <2> QED BY <1>2, <1>3, <2>1, WordsFit
<1>5. y \in Nat /\ (C <= MaxExact => y = C) /\ MaxExact * Off(C, y) <= C
  BY <1>4, RoundNear
<1> SUFFICES Within(y, a * b, 4)
  BY DEF A, B
<1> HIDE DEF y
<1>6. a * b \in Nat /\ A * b \in Nat
  BY <1>2, SMT
<1>7. CASE a * b <= MaxExact
  <2>1. CASE a = 0 \/ b = 0
    <3>1. A * B = 0 /\ a * b = 0
      BY <1>1, <1>2, <1>3, <2>1, SMT
    <3>2. y = 0
      BY <1>1, <1>5, <3>1
    <3> QED BY <1>7, <3>1, <3>2 DEF Within
  <2>2. CASE a # 0 /\ b # 0
    <3>1. a <= a * b /\ b <= a * b
      BY <2>2, SMT
    <3>2. A = a /\ B = b
      BY <1>1, <1>2, <1>3, <1>6, <1>7, <3>1
    <3> QED BY <1>5, <1>7, <3>2 DEF Within
  <2> QED BY <2>1, <2>2
<1>8. CASE a * b > MaxExact
  <2>1. Off(a * b, A * b) = f * b /\ Off(A * b, A * B) = A * g
    <3>1. /\ a * b \in Nat /\ A * b \in Nat /\ A * B \in Nat
          /\ (a - A) * b = a * b - A * b /\ (A - a) * b = A * b - a * b
          /\ A * (b - B) = A * b - A * B /\ A * (B - b) = A * B - A * b
          /\ (a > A <=> a * b > A * b \/ (b = 0 /\ a > A))
      BY <1>2, <1>3, SMT
    <3>2. Off(a * b, A * b) = f * b
      <4>1. CASE a > A
        <5>1. f = a - A
          BY <4>1 DEF Off
        <5>2. f * b = a * b - A * b /\ f * b \in Nat
          BY <1>2, <3>1, <5>1, SMT
        <5> QED BY <3>1, <5>2 DEF Off
      <4>2. CASE ~(a > A)
        <5>1. f = A - a
          BY <4>2 DEF Off
        <5>2. f * b = A * b - a * b /\ f * b \in Nat
          BY <1>2, <3>1, <5>1, SMT
        <5> QED BY <3>1, <5>2 DEF Off
      <4> QED BY <4>1, <4>2
    <3>3. Off(A * b, A * B) = A * g
      <4>1. CASE b > B
        <5>1. g = b - B
          BY <4>1 DEF Off
        <5>2. A * g = A * b - A * B /\ A * g \in Nat
          BY <1>2, <1>3, <3>1, <5>1, SMT
        <5> QED BY <3>1, <5>2 DEF Off
      <4>2. CASE ~(b > B)
        <5>1. g = B - b
          BY <4>2 DEF Off
        <5>2. A * g = A * B - A * b /\ A * g \in Nat
          BY <1>2, <1>3, <3>1, <5>1, SMT
        <5> QED BY <3>1, <5>2 DEF Off
      <4> QED BY <4>1, <4>2
    <3> QED BY <3>2, <3>3
  <2> HIDE DEF f, g
  <2>2. MaxExact * (f * b) <= a * b /\ MaxExact * (A * g) <= A * b
    <3>1. (MaxExact * f) * b <= a * b /\ A * (MaxExact * g) <= A * b
      BY <1>1, <1>2, <1>3, SMT
    <3>2. (MaxExact * f) * b = MaxExact * (f * b) /\ A * (MaxExact * g) = MaxExact * (A * g)
      BY <1>1, <1>2, <1>3, SMT
    <3> QED BY <3>1, <3>2
  <2>3. MaxExact * Off(a * b, y) <= 4 * (a * b)
    <3> DEFINE p == a * b
               q == A * b
    <3>1. p \in Nat /\ q \in Nat /\ C \in Nat /\ y \in Nat
      BY <1>4, <1>5, <1>6
    <3>2. MaxExact * Off(p, q) <= p /\ MaxExact * Off(q, C) <= q /\ MaxExact * Off(C, y) <= C
      BY <1>5, <2>1, <2>2
    <3> HIDE DEF p, q, C
    <3>3. MaxExact * Off(p, y) <= 4 * p
      BY <1>1, <3>1, <3>2, ThreeParts
    <3> QED BY <3>3 DEF p
  <2> QED BY <1>1, <1>6, <1>8, <2>3 DEF Within
<1> QED BY <1>1, <1>6, <1>7, <1>8

\* What a function returns is a value, also after npr's multiplication.
LEMMA FinishType ==
  ASSUME TypeOK, NEW v \in Value, v.num <= 2 * ULongMax, Finish(v)
  PROVE  /\ factor' \in Value /\ ret' \in Value /\ factor'.num <= 2 * ULongMax'
         /\ pc' \in {"start", "ncr", "mid", "fac", "done"}
         /\ UNCHANGED args
<1>1. NAN \in Value /\ INFINITY \in Value
  BY DEF NAN, INFINITY, Value
<1>2. factor \in Value /\ ret \in Value
  BY DEF TypeOK
<1>3. Times(factor, v) \in Value
  <2>1. factor.num \in Nat /\ v.num \in Nat
    BY <1>2 DEF Value
  <2>2. factor.num * v.num \in Nat /\ Fits(factor.num * v.num)
    BY <2>1, WordsFit DEF TypeOK
  <2>3. Num(Round(factor.num * v.num)) \in Value
    BY <2>2, RoundNear DEF Num, Value
  <2> QED BY <1>1, <2>3 DEF Times
<1>4. ULongMax' = ULongMax
  BY DEF Finish, args
<1> QED BY <1>2, <1>3, <1>4 DEF Finish, TypeOK

\* A value that fac and ncr may return.
Returned(v) == v \in Value /\ v.num <= 2 * ULongMax /\ (v.kind = "num" \/ v = NAN \/ v = INFINITY)

\* NaN, infinity and (double)result.
LEMMA ReturnedOnes ==
  ASSUME TypeOK
  PROVE  /\ Returned(NAN) /\ NAN.kind = "nan"
         /\ Returned(INFINITY) /\ INFINITY.kind = "inf"
         /\ Returned(ToDouble(result)) /\ ToDouble(result).kind = "num"
         /\ ToDouble(result).num = Round(result) /\ result \in Nat /\ result <= ULongMax
<1>1. ULongMax \in Nat /\ ULongMax \in LongMaxes /\ result \in Nat /\ result <= ULongMax
  BY Words DEF TypeOK, Word
<1>2. Round(result) \in Nat /\ Round(result) <= 2 * ULongMax
  <2>1. Round(result) \in Nat /\ Round(result) <= 2 * result
    BY <1>1, WordsFit, RoundNear
  <2> QED BY <1>1, <2>1
<1>3. ToDouble(result) = [kind |-> "num", num |-> Round(result)]
  BY DEF ToDouble, Num
<1> QED BY <1>1, <1>2, <1>3 DEF Returned, NAN, INFINITY, Value

\* Conversions deliver unsigned ints.
LEMMA Converts ==
  ASSUME UIntMax \in Nat, NEW d \in Double, ~Negative(d), ~TooLarge(d)
  PROVE  /\ ToUInt(d) \subseteq Numbers
         /\ ~d.nan => ToUInt(d) = {d.half \div 2} /\ d.half \div 2 \in Numbers
                      /\ d.half \in Nat
<1>1. CASE d.nan
  BY <1>1 DEF ToUInt, Double
<1>2. CASE ~d.nan
  <2>1. d.half \in Int /\ 0 <= d.half /\ d.half <= 2 * UIntMax
    BY <1>2 DEF Double, Negative, TooLarge
  <2>2. d.half \div 2 \in Numbers
    BY <2>1, SMT DEF Numbers
  <2> QED BY <1>2, <2>1, <2>2 DEF ToUInt
<1> QED BY <1>1, <1>2

\* Everything stays a word, a double or a value.
LEMMA StepType ==
  ASSUME TypeOK, [Next]_vars
  PROVE  TypeOK'
<1>1. /\ ULongMax \in Nat /\ UIntMax \in Nat /\ 3 <= UIntMax /\ UIntMax <= ULongMax
      /\ Numbers \subseteq Word
      /\ \A x \in Int : Wrap(x) \in Word
  BY Words DEF TypeOK
<1>2. Returned(NAN) /\ Returned(INFINITY) /\ Returned(ToDouble(result))
  BY ReturnedOnes
<1>3. 1 \in Word /\ result \in Nat /\ i \in Nat /\ un \in Nat /\ ur \in Nat
  BY <1>1 DEF TypeOK, Word
<1>4. n \in Double /\ r \in Double /\ FacArg \in Double
  BY DEF TypeOK, FacArg
<1>5. ASSUME NEW v, Returned(v), Finish(v), UNCHANGED <<un, ur, i, result>>
      PROVE  TypeOK'
  BY <1>5, FinishType DEF TypeOK, args, Word, Returned
<1>6. CASE FacRefuse
  BY <1>2, <1>5, <1>6 DEF FacRefuse
<1>7. CASE FacEnter
  <2>1. un' \in Word
    BY <1>1, <1>4, <1>7, Converts DEF FacEnter
  <2> QED BY <2>1, <1>3, <1>7 DEF FacEnter, TypeOK, args, Word
<1>8. CASE FacOverflow
  BY <1>2, <1>5, <1>8 DEF FacOverflow
<1>9. CASE FacTurn
  <2>1. result * i \in Int /\ i + 1 \in Int
    BY <1>3, SMT
  <2>2. result' \in Word /\ i' \in Word
    BY <1>1, <1>9, <2>1 DEF FacTurn
  <2> QED BY <2>2, <1>9 DEF FacTurn, TypeOK, args, Word
<1>10. CASE FacReturn
  BY <1>2, <1>3, <1>5, <1>10 DEF FacReturn
<1>11. CASE NcrRefuse
  BY <1>2, <1>5, <1>11 DEF NcrRefuse
<1>12. CASE NcrEnter
  <2>1. PICK b \in ToUInt(r) : ur' = Smaller(un', b)
    BY <1>12 DEF NcrEnter
  <2>2. un' \in Numbers /\ b \in Numbers
    BY <1>1, <1>4, <1>12, <2>1, Converts DEF NcrEnter, NcrNan
  <2>3. un' - b \in Int
    BY <1>1, <2>2 DEF Numbers
  <2>4. un' \in Word /\ ur' \in Word
    BY <1>1, <2>1, <2>2, <2>3 DEF Smaller
  <2> QED BY <2>4, <1>3, <1>12 DEF NcrEnter, TypeOK, args, Word
<1>13. CASE NcrOverflow
  BY <1>2, <1>5, <1>13 DEF NcrOverflow
<1>14. CASE NcrTurn
  <2>1. NcrTerm \in Word
    BY <1>1, <1>3 DEF NcrTerm
  <2>2. result * NcrTerm \in Int
    BY <1>1, <1>3, <2>1, SMT DEF Word
  <2>3. Wrap(result * NcrTerm) \in Word
    BY <1>1, <2>2
  <2> DEFINE w == Wrap(result * NcrTerm)
  <2>4. w \in Nat /\ w <= ULongMax
    BY <1>1, <2>3 DEF Word
  <2> HIDE DEF w
  <2>5. i \in Nat \ {0} /\ result' = w \div i /\ i' = Wrap(i + 1)
    BY <1>3, <1>14 DEF NcrTurn, w
  <2>6. w \div i \in Nat /\ w \div i <= w
    BY <2>4, <2>5, Divides
  <2>7. result' \in Word /\ i' \in Word
    BY <1>1, <1>3, <2>4, <2>5, <2>6 DEF Word
  <2> QED BY <2>7, <1>14 DEF NcrTurn, TypeOK, args, Word
<1>15. CASE NcrReturn
  BY <1>2, <1>3, <1>5, <1>15 DEF NcrReturn
<1>16. CASE UNCHANGED vars
  BY <1>16 DEF vars, args, TypeOK, Word
<1> QED BY <1>6, <1>7, <1>8, <1>9, <1>10, <1>11, <1>12, <1>13, <1>14, <1>15, <1>16 DEF Next

\* The initial states are well typed.
LEMMA InitType == Init => TypeOK
<1> SUFFICES ASSUME Init PROVE TypeOK
  OBVIOUS
<1>1. 0 \in Word /\ 1 \in Word
  BY Words DEF Init, Word
<1>2. n \in Double /\ r \in Double
  <2>1. \A x \in -1..MaxHalves : [nan |-> FALSE, half |-> x] \in Double
    BY WidthAssumption DEF Double
  <2>2. [nan |-> TRUE, half |-> 0] \in Double
    BY DEF Double
  <2> QED BY <2>1, <2>2 DEF Init, Arguments
<1>3. NAN \in Value /\ NAN.num = 0 /\ 0 <= 2 * ULongMax
  BY Words DEF Init, NAN, Value
<1> QED BY <1>1, <1>2, <1>3 DEF Init, TypeOK

\* The loops of fac and ncr stay within unsigned long.
LEMMA NumTypeHolds == Calls => []TypeOK
<1>1. TypeOK /\ [Next]_vars => TypeOK'
  BY StepType
<1> QED BY <1>1, InitType, PTL DEF Calls

(***************************************************************************)
(* Exactness                                                               *)
(***************************************************************************)

\* Both arguments are numbers.
Given == ~n.nan /\ ~r.nan

\* Which function runs where.
Control == /\ pc = "fac" => fn \in {"fac", "npr"}
           /\ pc = "ncr" => fn \in {"ncr", "npr"}
           /\ pc = "mid" => fn = "npr"

\* fac's loop: the product of the numbers below i.  The last conjunct makes the
\* overflow test stop the loop before i itself could wrap.
FacLoop ==
  pc = "fac" => /\ un \in Numbers /\ i \in 1..(un + 1)
                /\ result \in Nat \ {0} /\ result = Fact[i - 1]
                /\ i >= 3 => result >= 2
                /\ ~FacArg.nan => un = FacArg.half \div 2

\* The arguments of a call of ncr that is not refused.
Sound == N \in Numbers /\ R \in 0..N

\* ncr's loop: a binomial coefficient after each turn.
NcrLoop ==
  pc = "ncr" /\ Given =>
    /\ Sound /\ un = N /\ ur \in {R, N - R} /\ 2 * ur <= un
    /\ i \in 1..(ur + 1)
    /\ result = Binom[un - ur + i - 1][i - 1]

\* What npr keeps of ncr.
Kept ==
  fn = "npr" /\ pc \in {"mid", "fac"} =>
    /\ factor.kind = "num" \/ factor = NAN \/ factor = INFINITY
    /\ factor.kind = "num" /\ Given =>
         Sound /\ Binom[N][R] <= ULongMax /\ factor.num = Round(Binom[N][R])

IInv == TypeOK /\ Control /\ FacLoop /\ NcrLoop /\ Kept /\ NumExact

\* The end of fac, for fac itself and for npr: the factorial is rounded and passed on.
LEMMA FacEnds ==
  ASSUME IInv, pc \in {"start", "mid", "fac"}, pc = "start" => fn = "fac",
         NEW v, Returned(v), Finish(v), UNCHANGED <<un, ur, i, result>>,
         v.kind = "num" /\ ~FacArg.nan =>
           LET f == Fact[FacArg.half \div 2]
           IN f \in Nat /\ f <= ULongMax /\ v.num = Round(f)
  PROVE  IInv'
<1>1. TypeOK'
  BY FinishType DEF IInv, TypeOK, args, Word, Returned
<1>2. pc' = "done" /\ fn \in {"fac", "npr"} /\ UNCHANGED args
      /\ ret' = IF fn = "npr" THEN Times(factor, v) ELSE v
  BY DEF Finish, IInv, Control, TypeOK
<1>3. Control' /\ FacLoop' /\ NcrLoop' /\ Kept'
  BY <1>2 DEF Control, FacLoop, NcrLoop, Kept
<1>4. NumExact'
  <2>0. N' = N /\ R' = R /\ fn' = fn /\ n' = n /\ r' = r
    BY <1>2 DEF args, N, R
  <2>1. CASE fn = "fac"
    <3> SUFFICES ASSUME ret'.kind = "num", ~n.nan PROVE Within(ret'.num, Fact[N], 1)
      BY <1>2, <2>0, <2>1 DEF NumExact, Finite
    <3>1. Fact[N] \in Nat /\ Fact[N] <= ULongMax /\ ret'.num = Round(Fact[N])
      BY <1>2, <2>1 DEF FacArg, N
    <3> QED BY <3>1, RoundOnce DEF IInv, TypeOK
  <2>2. CASE fn = "npr"
    <3> SUFFICES ASSUME ret'.kind = "num", Given
                 PROVE  Within(ret'.num, Binom[N][R] * Fact[R], 4)
      BY <1>2, <2>0, <2>2 DEF NumExact, Finite, Given
    <3>1. factor.kind = "num" \/ factor = NAN \/ factor = INFINITY
      BY <2>2 DEF IInv, Kept
    <3>2. ret' = Times(factor, v)
      BY <1>2, <2>2
    <3>3. /\ factor.kind = "num" /\ v.kind = "num"
          /\ ret' = Num(Round(factor.num * v.num))
      BY <3>1, <3>2 DEF Times, NAN, INFINITY, Num, Returned
    <3>4. Binom[N][R] \in Nat /\ Binom[N][R] <= ULongMax /\ factor.num = Round(Binom[N][R])
      <4>1. Sound /\ Binom[N][R] <= ULongMax /\ factor.num = Round(Binom[N][R])
        BY <2>2, <3>3 DEF IInv, Kept
      <4>2. N \in Numbers /\ R \in Numbers
        BY <4>1, WidthAssumption DEF Sound, Numbers
      <4> QED BY <4>1, <4>2, BinomAssumption
    <3>5. Fact[R] \in Nat /\ Fact[R] <= ULongMax /\ v.num = Round(Fact[R])
      BY <2>2, <3>3 DEF FacArg, Given, R
    <3>6. ret'.num = Round(Round(Binom[N][R]) * Round(Fact[R]))
      BY <3>3, <3>4, <3>5 DEF Num
    <3> QED BY <3>4, <3>5, <3>6, RoundProduct DEF IInv, TypeOK
  <2> QED BY <1>2, <2>1, <2>2
<1> QED BY <1>1, <1>3, <1>4 DEF IInv

\* The end of ncr, for ncr itself and for npr.
LEMMA NcrEnds ==
  ASSUME IInv, pc \in {"start", "ncr"}, fn \in {"ncr", "npr"},
         NEW v, Returned(v), Finish(v), UNCHANGED <<un, ur, i, result>>,
         v.kind = "num" /\ Given =>
           Sound /\ Binom[N][R] \in Nat /\ Binom[N][R] <= ULongMax /\ v.num = Round(Binom[N][R])
  PROVE  IInv'
<1>1. TypeOK'
  BY FinishType DEF IInv, TypeOK, args, Word, Returned
<1>2. UNCHANGED args
  BY DEF Finish
<1>3. N' = N /\ R' = R /\ fn' = fn /\ n' = n /\ r' = r /\ Sound' = Sound /\ Given' = Given
  BY <1>2 DEF args, N, R, Sound, Given
<1>4. CASE fn = "ncr"
  <2>1. pc' = "done" /\ ret' = v
    BY <1>4 DEF Finish
  <2>2. v.kind = "num" /\ Given => Within(v.num, Binom[N][R], 1)
    BY RoundOnce DEF IInv, TypeOK
  <2>3. NumExact'
    BY <1>3, <1>4, <2>1, <2>2 DEF NumExact, Finite, Given
  <2> QED BY <1>1, <1>4, <2>1, <2>3, <1>3 DEF IInv, Control, FacLoop, NcrLoop, Kept
<1>5. CASE fn = "npr"
  <2>1. pc' = "mid" /\ factor' = v
    BY <1>5 DEF Finish
  <2>2. Kept'
    BY <1>2, <1>3, <2>1 DEF Kept, Returned, args
  <2> QED BY <1>1, <1>3, <1>5, <2>1, <2>2 DEF IInv, Control, FacLoop, NcrLoop, NumExact, Finite
<1> QED BY <1>4, <1>5

\* A turn of fac's loop multiplies without wrapping, i included.
LEMMA FacTurns ==
  ASSUME IInv, FacTurn
  PROVE  FacLoop'
<1>1. /\ ULongMax \in Nat /\ UIntMax \in Nat /\ 3 <= UIntMax /\ UIntMax <= ULongMax
      /\ \A x \in Word : Wrap(x) = x
  BY Words DEF IInv, TypeOK
<1>2. /\ pc = "fac" /\ i <= un /\ ~(i > ULongMax \div result)
      /\ result' = Wrap(result * i) /\ i' = Wrap(i + 1)
      /\ UNCHANGED <<args, un, ur, pc, factor, ret>>
  BY DEF FacTurn, FacFull
<1>3. /\ un \in Nat /\ un <= UIntMax /\ i \in Nat \ {0} /\ i <= un
      /\ result \in Nat \ {0} /\ result = Fact[i - 1] /\ (i >= 3 => result >= 2)
  BY <1>1, <1>2 DEF IInv, FacLoop, Numbers
<1>4. i * result \in Nat /\ i * result <= ULongMax
  <2>1. ULongMax \div result \in Nat
    BY <1>1, <1>3, Divides
  <2>2. i <= ULongMax \div result
    BY <1>2, <1>3, <2>1
  <2> QED BY <1>1, <1>3, <2>2, Passes
<1>5. result * i = i * result /\ i * result # 0 /\ (i >= 2 => i * result >= 2)
  BY <1>3, SMT
<1>6. result' = i * result
  BY <1>1, <1>2, <1>4, <1>5 DEF Word
<1>7. i + 1 <= ULongMax
  <2> SUFFICES ASSUME i = ULongMax PROVE FALSE
    BY <1>1, <1>3
  <2>1. i >= 3 /\ result >= 2
    BY <1>1, <1>3
  <2>2. 2 * i <= i * result
    BY <1>3, <2>1, SMT
  <2> QED BY <1>1, <1>3, <1>4, <2>2
<1>8. i' = i + 1
  BY <1>1, <1>2, <1>3, <1>7 DEF Word
<1>9. Fact[i] = i * Fact[i - 1]
  <2>1. i \in Numbers \ {0}
    BY <1>1, <1>3 DEF Numbers
  <2> QED BY <2>1, FactAssumption
<1>10. result' = Fact[i' - 1]
  BY <1>3, <1>6, <1>8, <1>9
<1>11. un' = un /\ FacArg' = FacArg
  BY <1>2 DEF args, FacArg
<1>12. un \in Numbers /\ (~FacArg.nan => un = FacArg.half \div 2)
  BY <1>2 DEF IInv, FacLoop
<1>13. i' \in 1..(un' + 1) /\ result' \in Nat \ {0} /\ (i' >= 3 => result' >= 2)
  BY <1>3, <1>4, <1>5, <1>6, <1>8, <1>11
<1> QED BY <1>10, <1>11, <1>12, <1>13 DEF FacLoop

\* Every step of fac keeps the invariant.
LEMMA FacSteps ==
  ASSUME IInv, FacRefuse \/ FacEnter \/ FacOverflow \/ FacTurn \/ FacReturn
  PROVE  IInv'
<1>1. TypeOK'
  BY StepType DEF IInv, Next
<1>2. /\ ULongMax \in Nat /\ UIntMax \in Nat /\ 3 <= UIntMax
      /\ FacArg \in Double
  BY Words DEF IInv, TypeOK, FacArg
<1>3. /\ Returned(NAN) /\ NAN.kind = "nan" /\ Returned(INFINITY) /\ INFINITY.kind = "inf"
      /\ Returned(ToDouble(result)) /\ ToDouble(result).kind = "num"
      /\ ToDouble(result).num = Round(result) /\ result \in Nat /\ result <= ULongMax
  BY ReturnedOnes DEF IInv
<1>4. AtFac => pc \in {"start", "mid"} /\ (pc = "start" => fn = "fac")
  BY DEF AtFac
<1>5. CASE FacRefuse
  BY <1>3, <1>4, <1>5, FacEnds DEF FacRefuse
<1>6. CASE FacEnter
  <2>1. /\ AtFac /\ un' \in ToUInt(FacArg) /\ i' = 1 /\ result' = 1 /\ pc' = "fac"
        /\ UNCHANGED <<args, ur, factor, ret>>
    BY <1>6 DEF FacEnter
  <2>2. un' \in Numbers /\ (~FacArg.nan => un' = FacArg.half \div 2)
    BY <1>2, <1>6, <2>1, Converts DEF FacEnter
  <2>3. FacArg' = FacArg /\ fn' = fn
    BY <2>1 DEF args, FacArg
  <2>4. FacLoop'
    <3>1. Fact[1 - 1] = 1
      BY FactAssumption
    <3>2. 1 \in 1..(un' + 1)
      <4>1. un' \in Nat
        BY <1>2, <2>2 DEF Numbers
      <4>2. \A x \in Nat : 1 \in 1..(x + 1)
        OBVIOUS
      <4> QED BY <4>1, <4>2
    <3> QED BY <2>1, <2>2, <2>3, <3>1, <3>2 DEF FacLoop
  <2>5. fn \in {"fac", "npr"}
    BY <1>4, <2>1 DEF IInv, Control
  <2>6. Kept'
    <3> SUFFICES ASSUME fn = "npr"
                 PROVE  /\ factor.kind = "num" \/ factor = NAN \/ factor = INFINITY
                        /\ factor.kind = "num" /\ Given =>
                             /\ Sound /\ Binom[N][R] <= ULongMax
                             /\ factor.num = Round(Binom[N][R])
      BY <2>1, <2>3 DEF Kept, args, Given, Sound, N, R
    <3> QED BY <2>1, <1>4 DEF IInv, Kept
  <2> QED BY <1>1, <2>1, <2>3, <2>4, <2>5, <2>6 DEF IInv, Control, NcrLoop, NumExact, Finite
<1>7. CASE FacOverflow
  BY <1>3, <1>7, FacEnds DEF FacOverflow
<1>8. CASE FacTurn
  <2>1. pc = "fac" /\ UNCHANGED <<args, un, ur, pc, factor, ret>>
    BY <1>8 DEF FacTurn
  <2>2. Control' /\ NcrLoop' /\ Kept' /\ NumExact'
    BY <2>1 DEF IInv, Control, NcrLoop, Kept, NumExact, Finite, args, Given, Sound, N, R
  <2> QED BY <1>1, <1>8, <2>2, FacTurns DEF IInv
<1>9. CASE FacReturn
  <2>1. pc = "fac" /\ i > un /\ Finish(ToDouble(result)) /\ UNCHANGED <<un, ur, i, result>>
    BY <1>9 DEF FacReturn
  <2>2. result \in Nat /\ i - 1 = un /\ result = Fact[un]
    BY <1>2, <2>1 DEF IInv, FacLoop, Numbers
  <2>3. ~FacArg.nan => result = Fact[FacArg.half \div 2]
    BY <2>1, <2>2 DEF IInv, FacLoop
  <2> QED BY <1>3, <2>1, <2>2, <2>3, FacEnds
<1> QED BY <1>5, <1>6, <1>7, <1>8, <1>9

\* ncr's arguments, when they are numbers that it does not refuse, and the smaller
\* of the two ways to choose.
LEMMA Chosen ==
  ASSUME TypeOK, Given, ~NcrNan, ~TooLarge(n), ~TooLarge(r)
  PROVE  /\ Sound /\ ToUInt(n) = {N} /\ ToUInt(r) = {R}
         /\ Smaller(N, R) \in {R, N - R} /\ Smaller(N, R) \in Nat /\ 2 * Smaller(N, R) <= N
<1>1. /\ ULongMax \in Nat /\ UIntMax \in Nat /\ UIntMax <= ULongMax
      /\ \A x \in Word : Wrap(x) = x
  BY Words DEF TypeOK
<1>2. n.half \in Int /\ r.half \in Int /\ 0 <= n.half /\ 0 <= r.half
      /\ r.half <= n.half /\ n.half <= 2 * UIntMax
  <2>1. n.half \in Int /\ r.half \in Int
    BY DEF TypeOK, Double
  <2>2. /\ ~(n.half < 0) /\ ~(r.half < 0) /\ ~(n.half < r.half)
        /\ ~(n.half > 2 * UIntMax)
    BY DEF NcrNan, Negative, Less, TooLarge, Given
  <2> QED BY <1>1, <2>1, <2>2
<1>3. N \in Nat /\ R \in Nat /\ R <= N /\ N <= UIntMax
  BY <1>1, <1>2, SMT DEF N, R
<1>4. ToUInt(n) = {N} /\ ToUInt(r) = {R}
  BY DEF ToUInt, Given, N, R
<1>5. N \div 2 \in Nat /\ 2 * (N \div 2) <= N /\ N <= 2 * (N \div 2) + 1
  BY <1>3, SMT
<1>6. Wrap(N - R) = N - R
  BY <1>1, <1>3 DEF Word
<1>7. Smaller(N, R) = IF R > N \div 2 THEN N - R ELSE R
  BY <1>6 DEF Smaller
<1>8. Smaller(N, R) \in {R, N - R} /\ Smaller(N, R) \in Nat /\ 2 * Smaller(N, R) <= N
  <2>1. CASE R > N \div 2
    BY <1>3, <1>5, <1>7, <2>1
  <2>2. CASE ~(R > N \div 2)
    BY <1>3, <1>5, <1>7, <2>2
  <2> QED BY <2>1, <2>2
<1>9. Sound
  BY <1>1, <1>3 DEF Sound, Numbers
<1> QED BY <1>4, <1>8, <1>9

\* A turn of ncr's loop takes one binomial coefficient to the next: the product
\* does not wrap, and the division leaves no remainder.
LEMMA NcrTurns ==
  ASSUME IInv, NcrTurn
  PROVE  NcrLoop'
<1>1. /\ ULongMax \in Nat /\ UIntMax \in Nat /\ 3 <= UIntMax /\ UIntMax <= ULongMax
      /\ \A x \in Word : Wrap(x) = x
  BY Words DEF IInv, TypeOK
<1>2. /\ pc = "ncr" /\ i <= ur /\ NcrTerm # 0 /\ result <= ULongMax \div NcrTerm
      /\ result' = Wrap(result * NcrTerm) \div i /\ i' = Wrap(i + 1)
      /\ UNCHANGED <<args, un, ur, pc, factor, ret>>
  BY DEF NcrTurn
<1>3. Given' = Given /\ Sound' = Sound /\ N' = N /\ R' = R
  BY <1>2 DEF args, Given, Sound, N, R
<1> SUFFICES ASSUME Given
             PROVE  /\ Sound /\ un = N /\ ur \in {R, N - R} /\ 2 * ur <= un
                    /\ i' \in 1..(ur + 1)
                    /\ result' = Binom[un - ur + i' - 1][i' - 1]
  BY <1>2, <1>3 DEF NcrLoop
<1>4. /\ Sound /\ un = N /\ ur \in {R, N - R} /\ 2 * ur <= un
      /\ i \in 1..(ur + 1) /\ result = Binom[un - ur + i - 1][i - 1]
  BY <1>2 DEF IInv, NcrLoop
<1>5. /\ un \in Nat /\ un <= UIntMax /\ ur \in Nat /\ ur <= un
      /\ i \in Nat \ {0} /\ i <= ur /\ i <= un
  <2>1. N \in Nat /\ N <= UIntMax /\ R \in Nat /\ R <= N
    BY <1>1, <1>4 DEF Sound, Numbers
  <2> QED BY <1>2, <1>4, <2>1
<1> DEFINE t == un - ur + i
<1>6. t \in Nat \ {0} /\ t <= un /\ t - 1 = un - ur + i - 1
  BY <1>5
<1>7. NcrTerm = t
  <2>1. t \in Word
    BY <1>1, <1>5, <1>6 DEF Word
  <2> QED BY <1>1, <2>1 DEF NcrTerm
<1> HIDE DEF t
<1>8. t \in Numbers \ {0} /\ i \in Numbers \ {0} /\ t - 1 \in Numbers /\ i - 1 \in Numbers
  BY <1>1, <1>5, <1>6 DEF Numbers
<1> DEFINE c == Binom[t][i]
           b == Binom[t - 1][i - 1]
<1>9. c \in Nat /\ b \in Nat /\ i * c = t * b
  BY <1>8, BinomAssumption
<1>10. result = b
  BY <1>4, <1>6 DEF b
<1> HIDE DEF c, b
<1>11. b * t \in Nat /\ b * t <= ULongMax /\ b * t = t * b
  <2>1. b <= ULongMax \div t
    BY <1>2, <1>7, <1>10
  <2>2. b * t \in Nat /\ b * t <= ULongMax
    BY <1>1, <1>6, <1>9, <2>1, Passes
  <2> QED BY <1>6, <1>9, <2>2, SMT
<1>12. Wrap(result * NcrTerm) = i * c
  <2>1. b * t \in Word
    BY <1>1, <1>11 DEF Word
  <2>2. Wrap(b * t) = b * t
    BY <1>1, <2>1
  <2> QED BY <1>7, <1>9, <1>10, <1>11, <2>2
<1>13. result' = c
  <2>1. (i * c) \div i = c
    BY <1>5, <1>9, Divides
  <2> QED BY <1>2, <1>12, <2>1
<1>14. i' = i + 1
  <2>1. i + 1 \in Word
    BY <1>1, <1>4, <1>5 DEF Word
  <2> QED BY <1>1, <1>2, <2>1
<1>15. un - ur + i' - 1 = t /\ i' - 1 = i /\ i' \in 1..(ur + 1)
  BY <1>5, <1>14 DEF t
<1> QED BY <1>4, <1>13, <1>15 DEF c

\* Every step of ncr keeps the invariant.
LEMMA NcrSteps ==
  ASSUME IInv, NcrRefuse \/ NcrEnter \/ NcrOverflow \/ NcrTurn \/ NcrReturn
  PROVE  IInv'
<1>1. TypeOK'
  BY StepType DEF IInv, Next
<1>2. /\ ULongMax \in Nat /\ UIntMax \in Nat /\ 3 <= UIntMax
  BY Words DEF IInv, TypeOK
<1>3. /\ Returned(NAN) /\ NAN.kind = "nan" /\ Returned(INFINITY) /\ INFINITY.kind = "inf"
      /\ Returned(ToDouble(result)) /\ ToDouble(result).kind = "num"
      /\ ToDouble(result).num = Round(result) /\ result \in Nat /\ result <= ULongMax
  BY ReturnedOnes DEF IInv
<1>4. CASE NcrRefuse
  BY <1>3, <1>4, NcrEnds DEF NcrRefuse, AtNcr
<1>5. CASE NcrEnter
  <2>1. /\ pc = "start" /\ fn \in {"ncr", "npr"} /\ i' = 1 /\ result' = 1 /\ pc' = "ncr"
        /\ UNCHANGED <<args, factor, ret>>
    BY <1>5 DEF NcrEnter, AtNcr
  <2>2. Given' = Given /\ Sound' = Sound /\ N' = N /\ R' = R /\ fn' = fn
    BY <2>1 DEF args, Given, Sound, N, R
  <2>3. NcrLoop'
    <3> SUFFICES ASSUME Given
                 PROVE  /\ Sound /\ un' = N /\ ur' \in {R, N - R} /\ 2 * ur' <= un'
                        /\ 1 \in 1..(ur' + 1)
                        /\ 1 = Binom[un' - ur' + 1 - 1][1 - 1]
      BY <2>1, <2>2 DEF NcrLoop
    <3>1. /\ Sound /\ ToUInt(n) = {N} /\ ToUInt(r) = {R}
          /\ Smaller(N, R) \in {R, N - R} /\ Smaller(N, R) \in Nat /\ 2 * Smaller(N, R) <= N
      BY <1>5, Chosen DEF IInv, NcrEnter
    <3>2. un' = N /\ ur' = Smaller(N, R)
      BY <1>5, <3>1 DEF NcrEnter
    <3> DEFINE u == Smaller(N, R)
    <3>3. N \in Nat /\ N <= UIntMax /\ u \in Nat /\ 2 * u <= N
      BY <1>2, <3>1 DEF Sound, Numbers
    <3> HIDE DEF u
    <3>4. N - u + 1 - 1 \in Numbers /\ 1 \in 1..(u + 1)
      BY <1>2, <3>3 DEF Numbers
    <3>5. Binom[N - u + 1 - 1][1 - 1] = 1
      BY <3>4, BinomAssumption
    <3> QED BY <3>1, <3>2, <3>4, <3>5 DEF u
  <2> QED BY <1>1, <2>1, <2>2, <2>3 DEF IInv, Control, FacLoop, Kept, NumExact, Finite
<1>6. CASE NcrOverflow
  BY <1>3, <1>6, NcrEnds DEF NcrOverflow, IInv, Control
<1>7. CASE NcrTurn
  <2>1. pc = "ncr" /\ UNCHANGED <<args, un, ur, pc, factor, ret>>
    BY <1>7 DEF NcrTurn
  <2>2. Control' /\ FacLoop' /\ Kept' /\ NumExact'
    BY <2>1 DEF IInv, Control, FacLoop, Kept, NumExact, Finite, args
  <2> QED BY <1>1, <1>7, <2>2, NcrTurns DEF IInv
<1>8. CASE NcrReturn
  <2>1. /\ pc = "ncr" /\ i > ur /\ Finish(ToDouble(result)) /\ UNCHANGED <<un, ur, i, result>>
        /\ fn \in {"ncr", "npr"}
    BY <1>8 DEF NcrReturn, IInv, Control
  <2>2. result \in Nat
    BY <1>2 DEF IInv, TypeOK, Word
  <2>3. ASSUME Given PROVE Sound /\ result = Binom[N][R]
    <3>1. /\ Sound /\ un = N /\ ur \in {R, N - R}
          /\ i \in 1..(ur + 1) /\ result = Binom[un - ur + i - 1][i - 1]
      BY <2>1, <2>3 DEF IInv, NcrLoop
    <3>2. N \in Nat /\ R \in 0..N /\ N \in Numbers
      BY <1>2, <3>1 DEF Sound, Numbers
    <3>3. ur \in Nat /\ i - 1 = ur /\ un - ur + i - 1 = N
      BY <2>1, <3>1, <3>2
    <3>4. result = Binom[N][ur]
      BY <3>1, <3>3
    <3>5. Binom[N][N - R] = Binom[N][R]
      BY <3>2, BinomAssumption
    <3> QED BY <3>1, <3>4, <3>5
  <2> QED BY <1>3, <2>1, <2>2, <2>3, NcrEnds
<1> QED BY <1>4, <1>5, <1>6, <1>7, <1>8

\* The invariant holds throughout.
LEMMA NumInv == Calls => []IInv
<1>1. Init => IInv
  <2> SUFFICES ASSUME Init PROVE IInv
    OBVIOUS
  <2>1. TypeOK
    BY InitType
  <2> QED BY <2>1 DEF Init, IInv, Control, FacLoop, NcrLoop, Kept, NumExact, Finite
<1>2. IInv /\ [Next]_vars => IInv'
  <2> SUFFICES ASSUME IInv, [Next]_vars PROVE IInv'
    OBVIOUS
  <2>1. CASE UNCHANGED vars
    BY <2>1 DEF vars, args, IInv, TypeOK, Word, Control, FacLoop, FacArg, NcrLoop, Kept,
                NumExact, Finite, Given, Sound, N, R
  <2> QED BY <2>1, FacSteps, NcrSteps DEF Next
<1> QED BY <1>1, <1>2, PTL DEF Calls

\* A finite result of fac, ncr or npr of numbers is the factorial, the binomial
\* coefficient or the number of arrangements, up to one unit of rounding, four for npr,
\* and exactly where doubles hold every integer, whatever the two word sizes are.
LEMMA NumExactHolds == Calls => []NumExact
<1>1. IInv => NumExact
  BY DEF IInv
<1> QED BY <1>1, NumInv, PTL

(***************************************************************************)
(* Divisors                                                                *)
(***************************************************************************)

\* ncr's loop where unsigned long is the wider type, for arguments that may be
\* NaN.  When r came out greater than n, ur is a wrapped difference near ULONG_MAX
\* and the factors grow from un - ur, wrapped; the overflow test then stops the
\* loop before a factor reaches zero, as the result is at least i.
WideLoop ==
  pc = "ncr" /\ ULongMax > UIntMax =>
    /\ un \in Numbers /\ i >= 1
    /\ \/ ur <= un /\ i <= ur + 1
       \/ \E d \in Numbers \ {0} : /\ un - ur = d - (ULongMax + 1)
                                   /\ i + d <= ULongMax
                                   /\ result >= i

\* One turn with a wrapped difference: the result outgrows i again, and the next
\* factor is still below 2^w.
LEMMA Outgrows ==
  ASSUME NEW M \in Nat, NEW U \in Nat, 3 <= U, M > 2 * U,
         NEW d \in Nat \ {0}, d <= U, NEW k \in Nat \ {0}, NEW x \in Nat, x >= k,
         x * (k + d) <= M
  PROVE  /\ x * (k + d) \in Nat /\ (x * (k + d)) \div k >= k + 1
         /\ k + d + 1 <= M
<1>1. x * (k + d) \in Nat /\ k * (k + d) <= x * (k + d)
  <2> DEFINE z == k + d
  <2>1. z \in Nat
    OBVIOUS
  <2> HIDE DEF z
  <2>2. x * z \in Nat /\ k * z <= x * z
    BY <2>1, SMT
  <2> QED BY <2>2 DEF z
<1>2. k * (k + 1) <= k * (k + d)
  BY SMT
<1> DEFINE y == x * (k + d)
<1>3. y \in Nat /\ k * (k + 1) <= y /\ y <= M /\ k * (k + 1) \in Nat
  BY <1>1, <1>2, SMT
<1>4. k * (k + d) <= M
  BY <1>1, <1>3, SMT
<1> HIDE DEF y
<1>5. y \div k >= k + 1
  <2> DEFINE q == y \div k
  <2>1. q \in Nat /\ y % k \in Nat /\ y % k < k /\ y = k * q + (y % k)
    BY <1>3, SMT
  <2> HIDE DEF q
  <2> SUFFICES ASSUME q <= k PROVE FALSE
    BY <2>1 DEF q
  <2>2. k * q <= k * k /\ k * q \in Nat /\ k * k \in Nat /\ k * (k + 1) = k * k + k
    BY <2>1, SMT
  <2> QED BY <1>3, <2>1, <2>2
<1>6. k + d + 1 <= M
  <2>1. CASE k = 1
    BY <2>1
  <2>2. CASE k >= 2
    <3>1. 2 * (k + d) <= k * (k + d)
      BY <2>2, SMT
    <3> QED BY <1>4, <3>1, <2>2
  <2> QED BY <2>1, <2>2
<1> QED BY <1>1, <1>5, <1>6 DEF y

\* A negative difference wraps once.
LEMMA WrapsOnce ==
  ASSUME ULongMax \in Nat, NEW x \in Word
  PROVE  Wrap(x - (ULongMax + 1)) = x
<1> DEFINE m == ULongMax + 1
           a == x - m
           q == a \div m
           z == a % m
<1>1. m \in Nat \ {0} /\ x \in Nat /\ x < m /\ a \in Int
  BY DEF Word
<1>2. q \in Int /\ z \in Nat /\ z < m /\ a = m * q + z
  BY <1>1, SMT
<1> HIDE DEF q, z, m
<1>3. x - z = m * (q + 1)
  <2>1. m * (q + 1) = m * q + m /\ m * q \in Int
    BY <1>1, <1>2, SMT
  <2> QED BY <1>1, <1>2, <2>1 DEF a
<1>4. q + 1 = 0
  <2>1. CASE q + 1 >= 1
    <3>1. m * (q + 1) >= m
      BY <1>1, <1>2, <2>1, SMT
    <3> QED BY <1>1, <1>2, <1>3, <3>1
  <2>2. CASE q + 1 <= -1
    <3>1. m * (q + 1) <= -m
      BY <1>1, <1>2, <2>2, SMT
    <3> QED BY <1>1, <1>2, <1>3, <3>1
  <2> QED BY <1>2, <2>1, <2>2
<1>5. z = x
  <2>1. m * (q + 1) = 0
    BY <1>1, <1>4, SMT
  <2> QED BY <1>1, <1>2, <1>3, <2>1
<1> QED BY <1>5 DEF z, a, m, Wrap

\* ncr's factor, in both cases of WideLoop.
LEMMA WideTerm ==
  ASSUME TypeOK, ULongMax > UIntMax, i >= 1, i <= ur, un \in Numbers
  PROVE  /\ ur <= un => NcrTerm = un - ur + i /\ NcrTerm >= 1
         /\ \A d \in Numbers \ {0} :
              un - ur = d - (ULongMax + 1) /\ i + d <= ULongMax => NcrTerm = i + d
<1>1. /\ ULongMax \in Nat /\ UIntMax \in Nat /\ UIntMax <= ULongMax
      /\ \A x \in Word : Wrap(x) = x
  BY Words DEF TypeOK
<1>2. un \in Nat /\ un <= UIntMax /\ ur \in Nat /\ i \in Nat
  BY <1>1 DEF TypeOK, Word, Numbers
<1>3. ASSUME ur <= un PROVE NcrTerm = un - ur + i /\ NcrTerm >= 1
  <2>1. un - ur + i \in Word /\ un - ur + i >= 1
    BY <1>1, <1>2, <1>3 DEF Word
  <2> QED BY <1>1, <2>1 DEF NcrTerm
<1>4. ASSUME NEW d \in Numbers \ {0}, un - ur = d - (ULongMax + 1), i + d <= ULongMax
      PROVE  NcrTerm = i + d
  <2>1. d \in Nat /\ i + d \in Word /\ un - ur + i = (i + d) - (ULongMax + 1)
    BY <1>1, <1>2, <1>4 DEF Numbers, Word
  <2> QED BY <1>1, <2>1, WrapsOnce DEF NcrTerm
<1> QED BY <1>3, <1>4

\* ncr starts with a difference that is right or wraps.
LEMMA WideStart ==
  ASSUME ULongMax \in LongMaxes, NEW a \in Numbers, NEW b \in Numbers, ULongMax > UIntMax
  PROVE  \/ Smaller(a, b) \in Nat /\ Smaller(a, b) <= a
         \/ b # 0 /\ a - Smaller(a, b) = b - (ULongMax + 1) /\ 1 + b <= ULongMax
<1>1. /\ ULongMax \in Nat /\ UIntMax \in Nat /\ 3 <= UIntMax /\ UIntMax <= ULongMax
      /\ \A x \in Word : Wrap(x) = x
  BY Words
<1>2. a \in Nat /\ a <= UIntMax /\ b \in Nat /\ b <= UIntMax
  BY <1>1 DEF Numbers
<1>3. a \div 2 \in Nat /\ a \div 2 <= a
  BY <1>2, Divides
<1>4. CASE b <= a
  <2>1. Wrap(a - b) = a - b
    <3>1. a - b \in Word
      BY <1>1, <1>2, <1>4 DEF Word
    <3> QED BY <1>1, <3>1
  <2>2. Smaller(a, b) \in {a - b, b}
    BY <2>1 DEF Smaller
  <2> QED BY <1>2, <1>4, <2>2
<1>5. CASE b > a
  <2>1. a - b + ULongMax + 1 \in Word
    BY <1>1, <1>2, <1>5 DEF Word
  <2>2. (a - b + ULongMax + 1) - (ULongMax + 1) = a - b
    BY <1>1, <1>2
  <2>3. Wrap(a - b) = a - b + ULongMax + 1
    <3> DEFINE x == a - b + ULongMax + 1
    <3>1. x \in Word /\ x - (ULongMax + 1) = a - b
      BY <2>1, <2>2
    <3> HIDE DEF x
    <3>2. Wrap(x - (ULongMax + 1)) = x
      BY <1>1, <3>1, WrapsOnce
    <3> QED BY <3>1, <3>2 DEF x
  <2>4. b > a \div 2
    BY <1>2, <1>3, <1>5
  <2>5. Smaller(a, b) = a - b + ULongMax + 1
    BY <2>3, <2>4 DEF Smaller
  <2> QED BY <1>1, <1>2, <1>5, <2>5
<1> QED BY <1>2, <1>4, <1>5

\* ncr enters its loop with WideLoop: r is at most n, or n - r has wrapped.
LEMMA WideEnters ==
  ASSUME IInv, NcrEnter
  PROVE  WideLoop'
<1>1. ULongMax \in LongMaxes
  BY DEF IInv, TypeOK
<1>2. PICK b \in ToUInt(r) : ur' = Smaller(un', b)
  BY DEF NcrEnter
<1>3. un' \in Numbers /\ b \in Numbers /\ i' = 1 /\ result' = 1 /\ ULongMax' = ULongMax
  <2>1. /\ ~Negative(n) /\ ~Negative(r) /\ ~TooLarge(n) /\ ~TooLarge(r)
        /\ un' \in ToUInt(n) /\ i' = 1 /\ result' = 1 /\ ULongMax' = ULongMax
    BY DEF NcrEnter, NcrNan, args
  <2>2. UIntMax \in Nat /\ n \in Double /\ r \in Double
    BY WidthAssumption DEF IInv, TypeOK
  <2>3. ToUInt(n) \subseteq Numbers /\ ToUInt(r) \subseteq Numbers
    BY <2>1, <2>2, Converts
  <2> QED BY <1>2, <2>1, <2>3
<1> SUFFICES ASSUME ULongMax > UIntMax
             PROVE  \/ ur' <= un' /\ 1 <= ur' + 1
                    \/ \E d \in Numbers \ {0} : /\ un' - ur' = d - (ULongMax + 1)
                                                /\ 1 + d <= ULongMax
  BY <1>1, <1>3 DEF WideLoop
<1>4. PICK a \in Numbers : a = un'
  BY <1>3
<1>5. \/ Smaller(a, b) \in Nat /\ Smaller(a, b) <= a
      \/ b # 0 /\ a - Smaller(a, b) = b - (ULongMax + 1) /\ 1 + b <= ULongMax
  BY <1>1, <1>3, <1>4, WideStart
<1>6. Smaller(a, b) = ur'
  BY <1>2, <1>4
<1> QED BY <1>3, <1>4, <1>5, <1>6

\* A turn of ncr's loop keeps WideLoop.
LEMMA WideTurns ==
  ASSUME IInv, WideLoop, NcrTurn
  PROVE  WideLoop'
<1>1. /\ ULongMax \in Nat /\ UIntMax \in Nat /\ 3 <= UIntMax /\ UIntMax <= ULongMax
      /\ \A x \in Word : Wrap(x) = x
  BY Words DEF IInv, TypeOK
<1>2. /\ pc = "ncr" /\ i <= ur /\ NcrTerm # 0 /\ result <= ULongMax \div NcrTerm
      /\ result' = Wrap(result * NcrTerm) \div i /\ i' = Wrap(i + 1)
      /\ UNCHANGED <<ULongMax, un, ur, pc>>
  BY DEF NcrTurn, args
<1> SUFFICES ASSUME ULongMax > UIntMax PROVE WideLoop'
  BY <1>2 DEF WideLoop
<1>3. un \in Numbers /\ i >= 1 /\ un \in Nat /\ un <= UIntMax /\ ur \in Nat
      /\ i \in Nat \ {0} /\ result \in Nat
  BY <1>1, <1>2 DEF WideLoop, IInv, TypeOK, Word, Numbers
<1>4. CASE ur <= un
  <2>1. i + 1 \in Word
    BY <1>1, <1>2, <1>3, <1>4 DEF Word
  <2>2. i' = i + 1
    BY <1>1, <1>2, <2>1
  <2> QED BY <1>2, <1>3, <1>4, <2>2 DEF WideLoop
<1>5. CASE ~(ur <= un)
  <2>1. PICK d \in Numbers \ {0} : /\ un - ur = d - (ULongMax + 1)
                                   /\ i + d <= ULongMax /\ result >= i
    BY <1>2, <1>5 DEF WideLoop
  <2>2. d \in Nat \ {0} /\ d <= UIntMax
    BY <1>1, <2>1 DEF Numbers
  <2>3. NcrTerm = i + d
    BY <1>2, <1>3, <2>1, WideTerm DEF IInv
  <2>4. result * (i + d) <= ULongMax
    <3>1. i + d \in Nat \ {0} /\ result <= ULongMax \div (i + d)
      BY <1>2, <1>3, <2>2, <2>3
    <3> QED BY <1>1, <1>3, <3>1, Passes
  <2>5. ULongMax > 2 * UIntMax
    BY WidthAssumption DEF IInv, TypeOK
  <2>6. /\ result * (i + d) \in Nat /\ (result * (i + d)) \div i >= i + 1
        /\ i + d + 1 <= ULongMax
    BY <1>1, <1>3, <2>1, <2>2, <2>4, <2>5, Outgrows
  <2>7. result' = (result * (i + d)) \div i
    <3>1. result * (i + d) \in Word
      BY <1>1, <2>4, <2>6 DEF Word
    <3> QED BY <1>1, <1>2, <2>3, <3>1
  <2>8. i' = i + 1
    <3>1. i + 1 \in Word
      BY <1>1, <1>3, <2>2, <2>6 DEF Word
    <3> QED BY <1>1, <1>2, <3>1
  <2>9. /\ d \in Numbers \ {0} /\ un' - ur' = d - (ULongMax' + 1)
        /\ i' + d <= ULongMax' /\ result' >= i' /\ i' >= 1
    BY <1>2, <1>3, <2>1, <2>2, <2>6, <2>7, <2>8
  <2> QED BY <1>2, <1>3, <2>9 DEF WideLoop
<1> QED BY <1>4, <1>5

\* No call of fac, ncr or npr divides by zero, for every pair of widths of int and
\* long, and where long is wider also when an argument is NaN.
LEMMA DivisorsNonzeroHolds == Calls => []DivisorsNonzero
<1>1. Init => WideLoop
  BY DEF Init, WideLoop
<1>2. IInv /\ WideLoop /\ [Next]_vars => WideLoop'
  <2> SUFFICES ASSUME IInv, WideLoop, [Next]_vars PROVE WideLoop'
    OBVIOUS
  <2>1. CASE FacRefuse \/ FacOverflow \/ FacReturn \/ NcrRefuse \/ NcrOverflow \/ NcrReturn
    <3>1. pc' \in {"mid", "done"}
      BY <2>1 DEF FacRefuse, FacOverflow, FacReturn, NcrRefuse, NcrOverflow, NcrReturn, Finish
    <3> QED BY <3>1 DEF WideLoop
  <2>2. CASE FacEnter
    BY <2>2 DEF FacEnter, WideLoop
  <2>3. CASE FacTurn
    BY <2>3 DEF FacTurn, WideLoop
  <2>4. CASE UNCHANGED vars
    BY <2>4 DEF vars, args, WideLoop
  <2> QED BY <2>1, <2>2, <2>3, <2>4, WideEnters, WideTurns DEF Next
<1>3. IInv /\ WideLoop => DivisorsNonzero
  <2> SUFFICES ASSUME IInv, WideLoop, ULongMax > UIntMax \/ Given
               PROVE  /\ pc = "fac" /\ i <= un => result # 0
                      /\ pc = "ncr" /\ i <= ur => NcrTerm # 0 /\ i # 0
    BY DEF DivisorsNonzero, Given
  <2>1. pc = "fac" => result # 0
    BY DEF IInv, FacLoop
  <2> SUFFICES ASSUME pc = "ncr", i <= ur PROVE NcrTerm # 0 /\ i # 0
    BY <2>1
  <2>2. /\ ULongMax \in Nat /\ UIntMax \in Nat /\ UIntMax <= ULongMax
        /\ \A x \in Word : Wrap(x) = x
    BY Words DEF IInv, TypeOK
  <2>3. CASE ULongMax > UIntMax
    <3>1. TypeOK /\ un \in Numbers /\ i >= 1 /\ i \in Nat
      BY <2>2, <2>3 DEF WideLoop, IInv, TypeOK, Word
    <3>2. CASE ur <= un
      BY <2>3, <3>1, <3>2, WideTerm
    <3>3. CASE ~(ur <= un)
      <4>1. PICK d \in Numbers \ {0} : un - ur = d - (ULongMax + 1) /\ i + d <= ULongMax
        BY <2>3, <3>3 DEF WideLoop
      <4>2. NcrTerm = i + d /\ d \in Nat
        BY <2>2, <2>3, <3>1, <4>1, WideTerm DEF Numbers
      <4> QED BY <3>1, <4>2
    <3> QED BY <3>2, <3>3
  <2>4. CASE Given
    <3>1. /\ N \in Nat /\ N <= UIntMax /\ un = N /\ ur \in Nat /\ 2 * ur <= un
          /\ i \in Nat /\ i >= 1
      BY <2>2, <2>4 DEF IInv, TypeOK, Word, NcrLoop, Sound, Numbers
    <3>2. un - ur + i \in Word /\ un - ur + i >= 1
      BY <2>2, <3>1 DEF Word
    <3> QED BY <2>2, <3>1, <3>2 DEF NcrTerm
  <2> QED BY <2>3, <2>4
<1> QED BY <1>1, <1>2, <1>3, NumInv, PTL DEF Calls

(***************************************************************************)
(* Infinity                                                                *)
(***************************************************************************)

\* Induction between two naturals, for a set that holds the first.
LEMMA Climb ==
  ASSUME NEW a \in Nat, NEW b \in Nat, a <= b, NEW S, a \in S,
         \A k \in Nat : a <= k /\ k < b /\ k \in S => k + 1 \in S
  PROVE  b \in S
<1> SUFFICES ASSUME b \notin S PROVE FALSE
  OBVIOUS
<1> DEFINE T == {k \in Nat : a <= k /\ k <= b /\ k \notin S}
<1>1. T \subseteq Nat /\ b \in T
  OBVIOUS
<1>2. PICK m \in T : \A k \in T : m <= k
  <2> HIDE DEF T
  <2> QED BY <1>1, Least
<1>3. m \in Nat /\ a <= m /\ m <= b /\ m \notin S /\ m # a
  OBVIOUS
<1>4. m - 1 \in Nat /\ a <= m - 1 /\ m - 1 < b /\ m - 1 + 1 = m /\ ~(m <= m - 1)
  BY <1>3
<1>5. m - 1 \in S
  BY <1>2, <1>4
<1> QED BY <1>3, <1>4, <1>5

\* Multiplication of naturals.
LEMMA Product ==
  ASSUME NEW x \in Nat, NEW y \in Nat, NEW z \in Nat
  PROVE  /\ x * y \in Nat /\ x * y = y * x /\ (x * y) * z = x * (y * z)
         /\ x <= y => x * z <= y * z
         /\ y # 0 => x <= x * y
         /\ x # 0 /\ y # 0 => x * y # 0
<1>1. x * y \in Nat /\ x * y = y * x /\ (x * y) * z = x * (y * z)
  BY SMT
<1>2. x <= y => x * z <= y * z
  BY SMT
<1>3. y # 0 => x <= x * y
  BY SMT
<1>4. x # 0 /\ y # 0 => x * y # 0
  BY SMT
<1> QED BY <1>1, <1>2, <1>3, <1>4

\* A product that fails the test "x > ULONG_MAX / y" of the loops does not fit.
LEMMA Fails ==
  ASSUME NEW x \in Nat, NEW y \in Nat \ {0}, NEW m \in Nat, x > m \div y
  PROVE  x * y \in Nat /\ x * y > m
<1> DEFINE q == m \div y
<1>1. q \in Nat /\ m % y \in Nat /\ m % y < y /\ m = y * q + (m % y)
  BY SMT
<1> HIDE DEF q
<1>2. x >= q + 1
  BY <1>1 DEF q
<1>3. x * y >= (q + 1) * y /\ x * y \in Nat /\ (q + 1) * y = y * q + y /\ y * q \in Nat
  BY <1>1, <1>2, SMT
<1> DEFINE p == x * y
           z == y * q
<1>4. p \in Nat /\ z \in Nat /\ p >= z + y /\ m = z + (m % y)
  BY <1>1, <1>3
<1> HIDE DEF p, z
<1>5. p > m
  BY <1>1, <1>4
<1> QED BY <1>3, <1>5 DEF p

\* Factorials are positive, grow, and are at least their argument.
LEMMA FactGrows ==
  ASSUME NEW a \in Nat, NEW b \in Numbers, a <= b
  PROVE  Fact[a] \in Nat \ {0} /\ Fact[b] \in Nat \ {0} /\ Fact[a] <= Fact[b] /\ b <= Fact[b]
<1>0. UIntMax \in Nat /\ b \in Nat /\ b <= UIntMax
  BY WidthAssumption DEF Numbers
<1>1. ASSUME NEW k \in Nat, k < b
      PROVE  /\ Fact[k] \in Nat /\ Fact[k + 1] = (k + 1) * Fact[k]
  <2>1. k \in Numbers /\ k + 1 \in Numbers \ {0} /\ (k + 1) - 1 = k
    BY <1>0, <1>1 DEF Numbers
  <2> QED BY <2>1, FactAssumption
<1>2. ASSUME NEW k \in Nat, k <= b PROVE Fact[k] \in Nat \ {0}
  <2> DEFINE S == {x \in Nat : Fact[x] \in Nat \ {0}}
  <2>1. 0 \in S
    BY FactAssumption
  <2>2. ASSUME NEW x \in Nat, x < k, x \in S PROVE x + 1 \in S
    <3>1. x < b /\ Fact[x] \in Nat \ {0} /\ x + 1 \in Nat \ {0}
      BY <1>0, <1>2, <2>2
    <3>2. (x + 1) * Fact[x] \in Nat \ {0}
      BY <3>1, Product
    <3> QED BY <1>1, <3>1, <3>2
  <2>3. k \in S
    <3> HIDE DEF S
    <3> QED BY <2>1, <2>2, Climb
  <2> QED BY <2>3
<1>3. ASSUME NEW k \in Nat, k < b
      PROVE  Fact[k] <= Fact[k + 1] /\ k + 1 <= Fact[k + 1]
  <2>1. Fact[k] \in Nat \ {0} /\ k + 1 \in Nat \ {0}
    BY <1>0, <1>2, <1>3
  <2> DEFINE f == Fact[k]
             c == k + 1
  <2>2. f \in Nat \ {0} /\ c \in Nat \ {0}
    BY <2>1
  <2> HIDE DEF f, c
  <2>3. f <= f * c /\ c <= c * f /\ f * c = c * f
    BY <2>2, Product
  <2> QED BY <1>1, <1>3, <2>3 DEF f, c
<1>4. Fact[a] <= Fact[b]
  <2> DEFINE S == {x \in Nat : Fact[a] <= Fact[x]}
  <2>1. a \in S
    BY <1>2
  <2>2. ASSUME NEW x \in Nat, x < b, x \in S PROVE x + 1 \in S
    <3>1. /\ Fact[a] \in Nat /\ Fact[x] \in Nat /\ Fact[x + 1] \in Nat
          /\ Fact[x] <= Fact[x + 1] /\ Fact[a] <= Fact[x]
      BY <1>0, <1>2, <1>3, <2>2
    <3> QED BY <3>1
  <2>3. b \in S
    <3> HIDE DEF S
    <3> QED BY <1>0, <2>1, <2>2, Climb
  <2> QED BY <2>3
<1>5. b <= Fact[b]
  <2>1. CASE b = 0
    BY <2>1, FactAssumption
  <2>2. CASE b # 0
    <3>1. b - 1 \in Nat /\ b - 1 < b /\ (b - 1) + 1 = b
      BY <1>0, <2>2
    <3> QED BY <1>3, <3>1
  <2> QED BY <2>1, <2>2
<1>6. Fact[a] \in Nat \ {0} /\ Fact[b] \in Nat \ {0}
  BY <1>0, <1>2
<1> QED BY <1>4, <1>5, <1>6

\* n! = (n over k) k! (n - k)!
LEMMA BinomFact ==
  ASSUME NEW m \in Numbers, NEW k \in 0..m
  PROVE  /\ Binom[m][k] \in Nat \ {0}
         /\ Fact[m] = Binom[m][k] * (Fact[k] * Fact[m - k])
<1>0. UIntMax \in Nat /\ m \in Nat /\ m <= UIntMax /\ k \in Nat /\ k <= m
  BY WidthAssumption DEF Numbers
<1> DEFINE S == {x \in Nat : \A y \in Numbers :
                               x <= y => Fact[y] = Binom[y][x] * (Fact[x] * Fact[y - x])}
<1>1. 0 \in S
  <2> SUFFICES ASSUME NEW y \in Numbers PROVE Fact[y] = Binom[y][0] * (Fact[0] * Fact[y - 0])
    OBVIOUS
  <2>1. Binom[y][0] = 1 /\ Fact[0] = 1 /\ Fact[y] \in Nat
    BY BinomAssumption, FactAssumption
  <2>2. y - 0 = y
    BY <1>0 DEF Numbers
  <2> QED BY <2>1, <2>2
<1>2. ASSUME NEW x \in Nat, x < k, x \in S PROVE x + 1 \in S
  <2> SUFFICES ASSUME NEW y \in Numbers, x + 1 <= y
               PROVE  Fact[y] = Binom[y][x + 1] * (Fact[x + 1] * Fact[y - (x + 1)])
    OBVIOUS
  <2>1. /\ y \in Numbers \ {0} /\ y - 1 \in Numbers /\ x + 1 \in Numbers \ {0} /\ x \in Numbers
        /\ x <= y - 1 /\ (y - 1) - x = y - (x + 1) /\ y - (x + 1) \in Numbers
        /\ (x + 1) - 1 = x /\ y \in Nat
    BY <1>0, <1>2 DEF Numbers
  <2> DEFINE b == Binom[y - 1][x]
             c == Binom[y][x + 1]
             f == Fact[x]
             g == Fact[y - (x + 1)]
             z == x + 1
  <2>2. b \in Nat /\ c \in Nat /\ f \in Nat /\ g \in Nat /\ z \in Nat
    BY <2>1, BinomAssumption, FactAssumption
  <2>3. z * c = y * b
    BY <2>1, BinomAssumption
  <2>4. Fact[y] = y * Fact[y - 1] /\ Fact[x + 1] = z * f
    BY <2>1, FactAssumption
  <2>5. Fact[y - 1] = b * (f * g)
    BY <1>2, <2>1
  <2> HIDE DEF b, c, f, g, z
  <2>6. y * (b * (f * g)) = c * ((z * f) * g)
    <3> DEFINE h == f * g
    <3>1. h \in Nat /\ (z * f) * g = z * h
      BY <2>2, Product
    <3> HIDE DEF h
    <3>2. y * (b * h) = (y * b) * h
      BY <2>1, <2>2, <3>1, Product
    <3>3. (z * c) * h = c * (z * h)
      <4>1. z * c = c * z
        BY <2>2, Product
      <4>2. (c * z) * h = c * (z * h)
        BY <2>2, <3>1, Product
      <4> QED BY <4>1, <4>2
    <3> QED BY <2>3, <3>1, <3>2, <3>3 DEF h
  <2> QED BY <2>4, <2>5, <2>6 DEF c, g
<1>3. k \in S
  <2> HIDE DEF S
  <2> QED BY <1>0, <1>1, <1>2, Climb
<1>4. Fact[m] = Binom[m][k] * (Fact[k] * Fact[m - k])
  BY <1>0, <1>3
<1>5. Binom[m][k] \in Nat /\ Fact[m] \in Nat \ {0} /\ Fact[k] \in Nat /\ Fact[m - k] \in Nat
  <2>1. m \in Numbers /\ k \in Numbers /\ m - k \in Numbers
    BY <1>0 DEF Numbers
  <2> QED BY <1>0, <2>1, FactGrows, BinomAssumption, FactAssumption
<1>6. Binom[m][k] # 0
  <2> DEFINE h == Fact[k] * Fact[m - k]
  <2>1. h \in Nat
    BY <1>5, Product
  <2> HIDE DEF h
  <2>2. 0 * h = 0
    BY <2>1
  <2> QED BY <1>4, <1>5, <2>2 DEF h
<1> QED BY <1>4, <1>5, <1>6

\* k (d + k over k), the product that ncr's loop tests in its k-th turn, grows.
LEMMA TestGrows ==
  ASSUME NEW d \in Nat, NEW a \in Nat, NEW b \in Nat, a <= b, d + b \in Numbers
  PROVE  a * Binom[d + a][a] <= b * Binom[d + b][b]
<1>0. UIntMax \in Nat /\ d + b <= UIntMax
  BY WidthAssumption DEF Numbers
<1> DEFINE S == {x \in Nat : a * Binom[d + a][a] <= x * Binom[d + x][x]}
<1>1. \A x \in Nat : x <= b => x \in Numbers /\ d + x \in Numbers /\ Binom[d + x][x] \in Nat
  <2> SUFFICES ASSUME NEW x \in Nat, x <= b
               PROVE  x \in Numbers /\ d + x \in Numbers /\ Binom[d + x][x] \in Nat
    OBVIOUS
  <2>1. x \in Numbers /\ d + x \in Numbers
    BY <1>0 DEF Numbers
  <2> QED BY <2>1, BinomAssumption
<1>2. a \in S
  <2>1. a * Binom[d + a][a] \in Nat
    BY <1>1, Product
  <2> QED BY <2>1
<1>3. ASSUME NEW x \in Nat, a <= x, x < b, x \in S PROVE x + 1 \in S
  <2>1. /\ x + 1 <= b /\ x <= b /\ (d + (x + 1)) - 1 = d + x /\ (x + 1) - 1 = x
        /\ d + (x + 1) # 0 /\ x + 1 # 0 /\ x + 1 \in Nat /\ x <= d + (x + 1)
    BY <1>3
  <2> DEFINE p == Binom[d + x][x]
             z == d + (x + 1)
  <2>2. p \in Nat /\ z \in Nat
    BY <1>1, <2>1
  <2>3. (x + 1) * Binom[d + (x + 1)][x + 1] = z * p
    <3>1. d + (x + 1) \in Numbers \ {0} /\ x + 1 \in Numbers \ {0}
      BY <1>1, <2>1
    <3>2. (x + 1) * Binom[d + (x + 1)][x + 1]
            = (d + (x + 1)) * Binom[(d + (x + 1)) - 1][(x + 1) - 1]
      BY <3>1, BinomAssumption
    <3> QED BY <2>1, <3>2
  <2>4. x * p <= z * p /\ x * p \in Nat /\ z * p \in Nat
    <3> HIDE DEF p
    <3>1. x <= z
      BY <2>1
    <3> HIDE DEF z
    <3> QED BY <2>2, <3>1, Product
  <2>5. a * Binom[d + a][a] <= x * p
    BY <1>3
  <2>6. a * Binom[d + a][a] \in Nat
    BY <1>1, Product
  <2> HIDE DEF p, z
  <2>7. a * Binom[d + a][a] <= z * p
    BY <2>4, <2>5, <2>6
  <2> QED BY <2>1, <2>3, <2>7
<1>4. b \in S
  <2> HIDE DEF S
  <2> QED BY <1>2, <1>3, Climb
<1> QED BY <1>4

\* The number of factors that ncr's loop takes.
Few == IF R > N \div 2 THEN N - R ELSE R

\* What makes ncr and npr return infinity.
NcrBeyond == Sound /\ Binom[N][R] * Few > ULongMax

\* Arguments that InfinityNeeded is about.
InRange == Given /\ ~TooLarge(n) /\ ~TooLarge(r)

\* What npr keeps of an ncr that returned infinity.
KeptBeyond ==
  fn = "npr" /\ pc \in {"mid", "fac"} /\ factor = INFINITY /\ InRange => NcrBeyond

\* The number of arrangements as npr computes it.
LEMMA Arrangements ==
  ASSUME Sound
  PROVE  /\ Fact[N] \div Fact[N - R] = Binom[N][R] * Fact[R]
         /\ Binom[N][R] \in Nat \ {0} /\ Fact[R] \in Nat \ {0} /\ R <= Fact[R]
         /\ N \in Nat /\ R \in Nat /\ R <= N /\ N \in Numbers /\ R \in Numbers
<1>1. N \in Nat /\ R \in Nat /\ R <= N /\ N \in Numbers /\ R \in Numbers /\ N - R \in Numbers
  BY WidthAssumption DEF Sound, Numbers
<1>2. /\ Binom[N][R] \in Nat \ {0}
      /\ Fact[N] = Binom[N][R] * (Fact[R] * Fact[N - R])
  BY <1>1, BinomFact
<1>3. Fact[R] \in Nat \ {0} /\ R <= Fact[R] /\ Fact[N - R] \in Nat \ {0}
  <2>1. N - R \in Nat /\ N - R <= N - R
    BY <1>1
  <2> QED BY <1>1, <2>1, FactGrows
<1> DEFINE b == Binom[N][R]
           f == Fact[R]
           g == Fact[N - R]
<1>4. b \in Nat /\ f \in Nat /\ g \in Nat \ {0}
  BY <1>2, <1>3
<1> HIDE DEF b, f, g
<1>5. (b * (f * g)) \div g = b * f
  <2>1. b * f \in Nat /\ (b * f) * g = b * (f * g)
    BY <1>4, Product
  <2> DEFINE p == b * f
  <2>2. p \in Nat
    BY <2>1
  <2> HIDE DEF p
  <2>3. (g * p) \div g = p /\ g * p = p * g
    BY <1>4, <2>2, Divides, Product
  <2> QED BY <2>1, <2>3 DEF p
<1>6. Fact[N] \div Fact[N - R] = Binom[N][R] * Fact[R]
  BY <1>2, <1>5 DEF b, f, g
<1> QED BY <1>1, <1>2, <1>3, <1>6

\* ncr's overflow test fails only if the last product of the loop does not fit.
LEMMA NcrTestFails ==
  ASSUME IInv, NcrOverflow, InRange
  PROVE  NcrBeyond
<1>1. /\ ULongMax \in Nat /\ UIntMax \in Nat /\ UIntMax <= ULongMax
      /\ \A x \in Word : Wrap(x) = x
  BY Words DEF IInv, TypeOK
<1>2. /\ pc = "ncr" /\ i <= ur /\ NcrTerm # 0 /\ result > ULongMax \div NcrTerm
  BY DEF NcrOverflow
<1>3. /\ Sound /\ un = N /\ ur \in {R, N - R} /\ 2 * ur <= un
      /\ i \in 1..(ur + 1) /\ result = Binom[un - ur + i - 1][i - 1]
  BY <1>2 DEF InRange, IInv, NcrLoop
<1>4. /\ N \in Nat /\ N <= UIntMax /\ R \in Nat /\ R <= N /\ N \in Numbers
  BY <1>1, <1>3 DEF Sound, Numbers
<1> DEFINE d == N - ur
<1>5. /\ ur \in Nat /\ i \in Nat \ {0} /\ d \in Nat /\ d + ur = N
      /\ un - ur + i = d + i /\ un - ur + i - 1 = (d + i) - 1
      /\ d + i \in Nat \ {0} /\ d + i <= N /\ result \in Nat
  BY <1>2, <1>3, <1>4 DEF IInv, TypeOK, Word
<1>6. NcrTerm = d + i
  <2>1. d + i \in Word
    BY <1>1, <1>4, <1>5 DEF Word
  <2> QED BY <1>1, <1>5, <2>1 DEF NcrTerm
<1> HIDE DEF d
<1>7. result * (d + i) > ULongMax /\ result * (d + i) \in Nat
  BY <1>1, <1>2, <1>5, <1>6, Fails
<1>8. i * Binom[d + i][i] = result * (d + i)
  <2>1. d + i \in Numbers \ {0} /\ i \in Numbers \ {0}
    BY <1>1, <1>2, <1>4, <1>5 DEF Numbers
  <2>2. i * Binom[d + i][i] = (d + i) * Binom[(d + i) - 1][i - 1]
    BY <2>1, BinomAssumption
  <2>3. i * Binom[d + i][i] = (d + i) * result
    BY <1>3, <1>5, <2>2
  <2> QED BY <1>5, <2>3, Product
<1>9. i * Binom[d + i][i] <= ur * Binom[d + ur][ur]
  BY <1>2, <1>4, <1>5, TestGrows
<1>10. ur = Few
  BY <1>3, <1>4, SMT DEF Few
<1>11. Binom[N][ur] = Binom[N][R]
  <2>1. Binom[N][N - R] = Binom[N][R]
    BY <1>3, <1>4, BinomAssumption DEF Sound
  <2> QED BY <1>3, <2>1
<1>12. Binom[N][R] \in Nat /\ ur * Binom[N][R] = Binom[N][R] * ur /\ ur * Binom[N][R] \in Nat
  <2>1. Binom[N][R] \in Nat
    BY <1>3, Arrangements
  <2> QED BY <1>5, <2>1, Product
<1>13. ur * Binom[N][R] > ULongMax
  <2>1. i * Binom[d + i][i] <= ur * Binom[N][R]
    BY <1>5, <1>9, <1>11
  <2> QED BY <1>1, <1>7, <1>8, <1>12, <2>1
<1> QED BY <1>3, <1>10, <1>12, <1>13 DEF NcrBeyond

\* fac's overflow test fails only if the factorial does not fit.
LEMMA FacTestFails ==
  ASSUME IInv, FacOverflow, ~FacArg.nan
  PROVE  FacArg.half \div 2 \in Numbers /\ Fact[FacArg.half \div 2] > ULongMax
<1>1. ULongMax \in Nat /\ UIntMax \in Nat
  BY Words DEF IInv, TypeOK
<1>2. /\ un \in Numbers /\ un = FacArg.half \div 2 /\ i \in Nat \ {0} /\ i <= un
      /\ un \in Nat /\ un <= UIntMax
      /\ result \in Nat \ {0} /\ result = Fact[i - 1] /\ i > ULongMax \div result
  BY <1>1 DEF IInv, FacLoop, FacOverflow, FacFull, Numbers
<1>3. i * result > ULongMax /\ i * result \in Nat
  BY <1>1, <1>2, Fails
<1>4. Fact[i] = i * result
  <2>1. i \in Numbers \ {0}
    BY <1>1, <1>2 DEF Numbers
  <2> QED BY <1>2, <2>1, FactAssumption
<1>5. Fact[i] <= Fact[un] /\ Fact[un] \in Nat
  BY <1>2, FactGrows
<1>6. Fact[un] > ULongMax
  BY <1>1, <1>3, <1>4, <1>5
<1> QED BY <1>2, <1>6

\* npr's product, when ncr or fac returned infinity and the other one did not
\* return NaN.
LEMMA NprBeyond ==
  ASSUME ULongMax \in Nat, Sound, NcrBeyond \/ Fact[R] > ULongMax
  PROVE  Fact[N] \div Fact[N - R] > ULongMax
<1> DEFINE b == Binom[N][R]
           f == Fact[R]
<1>1. /\ Fact[N] \div Fact[N - R] = b * f /\ b \in Nat \ {0} /\ f \in Nat \ {0}
      /\ R <= f /\ N \in Nat /\ R \in Nat /\ R <= N
  BY Arrangements
<1>2. Few \in Nat /\ Few <= R
  BY <1>1, SMT DEF Few
<1>3. Sound /\ NcrBeyond => b * Few > ULongMax
  BY DEF NcrBeyond
<1> HIDE DEF b
<1>4. CASE NcrBeyond
  <2>1. Few <= f
    BY <1>1, <1>2
  <2> HIDE DEF f
  <2>2. Few * b <= f * b /\ Few * b = b * Few /\ f * b = b * f /\ Few * b \in Nat /\ f * b \in Nat
    BY <1>1, <1>2, <2>1, Product
  <2> QED BY <1>1, <1>3, <1>4, <2>2
<1>5. CASE f > ULongMax
  <2> HIDE DEF f
  <2>1. f <= f * b /\ f * b = b * f /\ f * b \in Nat
    BY <1>1, Product
  <2> QED BY <1>1, <1>5, <2>1
<1> QED BY <1>4, <1>5

\* The end of fac.
LEMMA FacEndsBeyond ==
  ASSUME IInv, KeptBeyond, pc \in {"start", "mid", "fac"}, pc = "start" => fn = "fac",
         NEW v \in Value, Finish(v), UNCHANGED <<un, ur, i, result>>,
         v = INFINITY /\ InRange => Fact[FacArg.half \div 2] > ULongMax
  PROVE  KeptBeyond' /\ InfinityNeeded'
<1>1. pc' = "done" /\ fn \in {"fac", "npr"} /\ UNCHANGED args
      /\ ret' = IF fn = "npr" THEN Times(factor, v) ELSE v
  BY DEF Finish, IInv, Control, TypeOK
<1>2. KeptBeyond'
  BY <1>1 DEF KeptBeyond
<1>3. /\ N' = N /\ R' = R /\ fn' = fn /\ n' = n /\ r' = r /\ ULongMax' = ULongMax
      /\ InRange' = InRange
  BY <1>1 DEF args, N, R, InRange, Given, TooLarge
<1>4. SUFFICES ASSUME ret' = INFINITY, InRange
               PROVE  /\ fn = "fac" => Fact[N] > ULongMax
                      /\ fn = "npr" => Fact[N] \div Fact[N - R] > ULongMax
  <2>1. InfinityNeeded' =
          (pc' = "done" /\ ret' = INFINITY /\ InRange'
             => /\ fn' = "fac" => Fact[N'] > ULongMax'
                /\ fn' = "ncr" => Binom[N'][R'] * (IF R' > N' \div 2 THEN N' - R' ELSE R') > ULongMax'
                /\ fn' = "npr" => Fact[N'] \div Fact[N' - R'] > ULongMax')
    BY DEF InfinityNeeded, InRange, Given
  <2>2. fn' # "ncr"
    BY <1>1, <1>3
  <2> QED BY <1>2, <1>3, <2>1, <2>2
<1>5. CASE fn = "fac"
  <2>1. ret' = v /\ FacArg = n
    BY <1>1, <1>5 DEF FacArg
  <2> QED BY <1>4, <1>5, <2>1 DEF N
<1>6. CASE fn = "npr"
  <2> SUFFICES Fact[N] \div Fact[N - R] > ULongMax
    BY <1>6
  <2>1. /\ pc \in {"mid", "fac"} /\ (factor.kind = "num" \/ factor = INFINITY)
        /\ factor = INFINITY \/ v = INFINITY
    BY <1>1, <1>4, <1>6 DEF Times, Num, INFINITY, NAN, IInv, Kept
  <2>2. factor.kind = "num" => Sound
    BY <1>4, <1>6, <2>1 DEF IInv, Kept, InRange
  <2>3. factor = INFINITY => NcrBeyond
    BY <1>4, <1>6, <2>1 DEF KeptBeyond
  <2>4. factor # INFINITY => Fact[R] > ULongMax
    BY <1>4, <1>6, <2>1 DEF FacArg, R
  <2>5. ULongMax \in Nat
    BY Words DEF IInv, TypeOK
  <2> QED BY <2>1, <2>2, <2>3, <2>4, <2>5, NprBeyond DEF NcrBeyond
<1> QED BY <1>1, <1>5, <1>6

\* The end of ncr.
LEMMA NcrEndsBeyond ==
  ASSUME IInv, pc \in {"start", "ncr"}, fn \in {"ncr", "npr"},
         NEW v \in Value, Finish(v), UNCHANGED <<un, ur, i, result>>,
         v = INFINITY /\ InRange => NcrBeyond
  PROVE  KeptBeyond' /\ InfinityNeeded'
<1>1. UNCHANGED args
  BY DEF Finish
<1>2. /\ N' = N /\ R' = R /\ fn' = fn /\ n' = n /\ r' = r /\ ULongMax' = ULongMax
      /\ InRange' = InRange /\ NcrBeyond' = NcrBeyond
  BY <1>1 DEF args, N, R, InRange, Given, TooLarge, NcrBeyond, Sound, Few
<1>3. CASE fn = "ncr"
  <2>1. pc' = "done" /\ ret' = v
    BY <1>3 DEF Finish
  <2> QED BY <1>2, <1>3, <2>1 DEF KeptBeyond, InfinityNeeded, InRange, Given, NcrBeyond, Few
<1>4. CASE fn = "npr"
  <2>1. pc' = "mid" /\ factor' = v
    BY <1>4 DEF Finish
  <2> QED BY <1>2, <2>1 DEF KeptBeyond, InfinityNeeded
<1> QED BY <1>3, <1>4

\* fac, ncr and npr return infinity for numbers that unsigned int holds only when
\* the factorial, the last product of ncr's loop or the number of arrangements does
\* not fit unsigned long, whatever the two word sizes are.
LEMMA InfinityNeededHolds == Calls => []InfinityNeeded
<1> DEFINE Inv == KeptBeyond /\ InfinityNeeded
<1>1. Init => Inv
  BY DEF Init, KeptBeyond, InfinityNeeded
<1>2. IInv /\ Inv /\ [Next]_vars => Inv'
  <2> SUFFICES ASSUME IInv, KeptBeyond, InfinityNeeded, [Next]_vars PROVE Inv'
    OBVIOUS
  <2>0. /\ NAN \in Value /\ INFINITY \in Value /\ NAN # INFINITY
        /\ ToDouble(result) \in Value /\ ToDouble(result) # INFINITY
    <3>1. Returned(ToDouble(result)) /\ ToDouble(result).kind = "num"
      BY ReturnedOnes DEF IInv
    <3> QED BY <3>1 DEF NAN, INFINITY, Value, Returned
  <2>1. AtFac => pc \in {"start", "mid"} /\ (pc = "start" => fn = "fac")
    BY DEF AtFac
  <2>2. InRange => ~FacArg.nan /\ ~TooLarge(FacArg)
    BY DEF InRange, Given, FacArg
  <2>3. CASE FacRefuse
    BY <2>0, <2>1, <2>2, <2>3, FacEndsBeyond DEF FacRefuse
  <2>4. CASE FacOverflow
    <3>1. /\ pc = "fac" /\ Finish(INFINITY) /\ UNCHANGED <<un, ur, i, result>>
      BY <2>4 DEF FacOverflow
    <3>2. InRange => Fact[FacArg.half \div 2] > ULongMax
      BY <2>2, <2>4, FacTestFails
    <3> QED BY <2>0, <3>1, <3>2, FacEndsBeyond
  <2>5. CASE FacReturn
    BY <2>0, <2>5, FacEndsBeyond DEF FacReturn
  <2>6. CASE NcrRefuse
    <3>1. AtNcr => pc \in {"start", "ncr"} /\ fn \in {"ncr", "npr"}
      BY DEF AtNcr
    <3> QED BY <2>0, <2>6, <3>1, NcrEndsBeyond DEF NcrRefuse, InRange
  <2>7. CASE NcrOverflow
    <3>1. /\ pc = "ncr" /\ Finish(INFINITY) /\ UNCHANGED <<un, ur, i, result>>
          /\ fn \in {"ncr", "npr"}
      BY <2>7 DEF NcrOverflow, IInv, Control
    <3>2. InRange => NcrBeyond
      BY <2>7, NcrTestFails
    <3> QED BY <2>0, <3>1, <3>2, NcrEndsBeyond
  <2>8. CASE NcrReturn
    <3>1. fn \in {"ncr", "npr"}
      BY <2>8 DEF NcrReturn, IInv, Control
    <3> QED BY <2>0, <2>8, <3>1, NcrEndsBeyond DEF NcrReturn
  <2>9. CASE FacEnter \/ FacTurn \/ NcrEnter \/ NcrTurn \/ UNCHANGED vars
    <3>1. /\ pc' \in {"fac", "ncr"} \/ UNCHANGED <<pc, ret>>
          /\ pc' \in {"mid", "fac"} => pc \in {"mid", "fac"} \/ fn = "fac"
      BY <2>9 DEF FacEnter, AtFac, FacTurn, NcrEnter, NcrTurn, vars
    <3>2. UNCHANGED <<args, factor>>
      BY <2>9 DEF FacEnter, FacTurn, NcrEnter, NcrTurn, vars
    <3>3. /\ N' = N /\ R' = R /\ fn' = fn /\ n' = n /\ r' = r /\ ULongMax' = ULongMax
          /\ InRange' = InRange /\ NcrBeyond' = NcrBeyond
      BY <3>2 DEF args, N, R, InRange, Given, TooLarge, NcrBeyond, Sound, Few
    <3>4. KeptBeyond'
      BY <3>1, <3>2, <3>3 DEF KeptBeyond
    <3>5. InfinityNeeded'
      BY <3>1, <3>3 DEF InfinityNeeded, TooLarge
    <3> QED BY <3>4, <3>5
  <2> QED BY <2>3, <2>4, <2>5, <2>6, <2>7, <2>8, <2>9 DEF Next
<1> QED BY <1>1, <1>2, NumInv, PTL DEF Calls

=============================================================================
