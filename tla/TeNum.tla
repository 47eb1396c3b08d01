-------------------------------- MODULE TeNum --------------------------------
(***************************************************************************)
(* fac, ncr and npr of tinyexpr (tinyexpr.c): functions of doubles that    *)
(* compute in unsigned long, with tests of their own against overflow.     *)
(* unsigned long is as wide as unsigned int on ARMv7 and i386 and twice as *)
(* wide on ARMv8: the initial state chooses the machine.                   *)
(*                                                                         *)
(* An argument is NaN or counted in halves: enough to tell integers,       *)
(* fractions, negative numbers and numbers beyond UINT_MAX (infinity among *)
(* them) apart.  (unsigned int) of NaN is undefined: any value may come    *)
(* out.  A result is a double: it has as many bits as MaxExact says, and   *)
(* what does not fit is rounded to the nearest, when unsigned long is      *)
(* converted to double and again when npr multiplies.                      *)
(***************************************************************************)
EXTENDS Integers

CONSTANTS
  UIntMax,    \* UINT_MAX
  LongMaxes,  \* ULONG_MAX of the machines
  MaxHalves,  \* bound: the largest argument, in halves
  MaxExact,   \* doubles hold every integer up to this one: 2^53
  Units,      \* the distances between neighbouring doubles from 1 on
  Fact,       \* reference: the factorial of each number up to UIntMax
  Binom       \* reference: the binomial coefficients up to UIntMax

Numbers == 0..UIntMax

ASSUME WidthAssumption ==
  /\ UIntMax \in Nat /\ 3 <= UIntMax
  /\ LongMaxes \subseteq Nat
  /\ \A m \in LongMaxes : m = UIntMax \/ m > 2 * UIntMax   \* as wide, or more bits
  /\ MaxHalves \in Nat

\* Units are powers of two, and doubles go beyond every product that npr can make.
ASSUME RoundAssumption ==
  /\ MaxExact \in Nat /\ 8 <= MaxExact
  /\ Units \subseteq Nat \ {0} /\ 1 \in Units
  /\ \A u \in Units \ {1} : \E v \in Units : u = 2 * v
  /\ \A m \in LongMaxes : \E u \in Units : 4 * m * m <= MaxExact * u

ASSUME FactAssumption ==
  /\ Fact \in [Numbers -> Nat]
  /\ Fact[0] = 1
  /\ \A k \in Numbers \ {0} : Fact[k] = k * Fact[k - 1]

ASSUME BinomAssumption ==
  /\ Binom \in [Numbers -> [Numbers -> Nat]]
  /\ \A m \in Numbers : Binom[m][0] = 1
  /\ \A m, k \in Numbers \ {0} : k * Binom[m][k] = m * Binom[m - 1][k - 1]
  /\ \A m \in Numbers : \A k \in 0..m : Binom[m][m - k] = Binom[m][k]

VARIABLES
  ULongMax,    \* ULONG_MAX
  fn,          \* the function called
  n, r,        \* its arguments; fac has only n
  un, ur,      \* the converted arguments; fac's ua is un
  i, result,   \* the loop
  pc,          \* "start", then "ncr" or "fac" inside the loop, "mid" between the
               \* two calls of npr, "done"
  factor,      \* npr: what ncr returned
  ret          \* the value returned

args == <<ULongMax, fn, n, r>>
vars == <<args, un, ur, i, result, pc, factor, ret>>

Double == [nan : BOOLEAN, half : Int]
Value  == [kind : {"num", "nan", "inf"}, num : Nat]
Num(x) == [kind |-> "num", num |-> x]
NAN      == [kind |-> "nan", num |-> 0]
INFINITY == [kind |-> "inf", num |-> 0]

\* Unsigned long arithmetic.
Word == 0..ULongMax
Wrap(x) == x % (ULongMax + 1)

TypeOK ==
  /\ ULongMax \in LongMaxes
  /\ fn \in {"fac", "ncr", "npr"}
  /\ n \in Double /\ r \in Double
  /\ un \in Word /\ ur \in Word
  /\ i \in Word /\ result \in Word
  /\ pc \in {"start", "ncr", "mid", "fac", "done"}
  /\ factor \in Value /\ ret \in Value
  /\ factor.num <= 2 * ULongMax

Arguments ==
  {[nan |-> FALSE, half |-> x] : x \in -1..MaxHalves} \cup {[nan |-> TRUE, half |-> 0]}

Init ==
  /\ ULongMax \in LongMaxes
  /\ fn \in {"fac", "ncr", "npr"}
  /\ n \in Arguments /\ r \in Arguments
  /\ un = 0 /\ ur = 0 /\ i = 1 /\ result = 1
  /\ pc = "start"
  /\ factor = NAN /\ ret = NAN

(***************************************************************************)
(* Comparisons with NaN are false; a conversion cuts the fraction off.     *)
(***************************************************************************)
Negative(d) == ~d.nan /\ d.half < 0
TooLarge(d) == ~d.nan /\ d.half > 2 * UIntMax
Less(d, f)  == ~d.nan /\ ~f.nan /\ d.half < f.half
ToUInt(d)   == IF d.nan THEN Numbers ELSE {d.half \div 2}

\* The double nearest to an integer, the even one of two that are equally near.
Ulp(x) == CHOOSE u \in Units : x <= MaxExact * u /\ \A v \in Units : v < u => MaxExact * v < x

Round(x) ==
  LET u == Ulp(x)
      q == x \div u
      d == x % u
  IN IF 2 * d < u \/ (2 * d = u /\ q % 2 = 0) THEN q * u ELSE (q + 1) * u

\* (double)result
ToDouble(x) == Num(Round(x))

\* double multiplication, of values that are positive.
Times(a, b) == IF a = NAN \/ b = NAN THEN NAN
               ELSE IF a = INFINITY \/ b = INFINITY THEN INFINITY
               ELSE Num(Round(a.num * b.num))

\* Back to the caller: npr calls fac after ncr, and multiplies.
Finish(value) ==
  /\ pc' = IF fn = "npr" /\ pc \in {"start", "ncr"} THEN "mid" ELSE "done"
  /\ factor' = IF pc' = "mid" THEN value ELSE factor
  /\ ret' = IF pc' = "mid" THEN ret
            ELSE IF fn = "npr" THEN Times(factor, value) ELSE value
  /\ UNCHANGED args

(***************************************************************************)
(* fac(a), with a the argument of fac, or r of npr                         *)
(***************************************************************************)
FacArg == IF fn = "fac" THEN n ELSE r
AtFac  == IF fn = "fac" THEN pc = "start" ELSE pc = "mid"

FacRefuse ==
  /\ AtFac
  /\ \/ Negative(FacArg) /\ Finish(NAN)
     \/ ~Negative(FacArg) /\ TooLarge(FacArg) /\ Finish(INFINITY)
  /\ UNCHANGED <<un, ur, i, result>>

FacEnter ==
  /\ AtFac
  /\ ~Negative(FacArg) /\ ~TooLarge(FacArg)
  /\ un' \in ToUInt(FacArg)
  /\ i' = 1 /\ result' = 1
  /\ pc' = "fac"
  /\ UNCHANGED <<args, ur, factor, ret>>

\* Mutant: the last product that fits is refused.
FacFullEarly == i >= ULongMax \div result

\* i > ULONG_MAX / result
FacFull == i > ULongMax \div result

FacOverflow ==
  /\ pc = "fac" /\ i <= un
  /\ FacFull
  /\ Finish(INFINITY)
  /\ UNCHANGED <<un, ur, i, result>>

FacTurn ==
  /\ pc = "fac" /\ i <= un
  /\ ~FacFull
  /\ result' = Wrap(result * i)
  /\ i' = Wrap(i + 1)
  /\ UNCHANGED <<args, un, ur, pc, factor, ret>>

FacReturn ==
  /\ pc = "fac" /\ i > un
  /\ Finish(ToDouble(result))
  /\ UNCHANGED <<un, ur, i, result>>

(***************************************************************************)
(* ncr(n, r)                                                               *)
(***************************************************************************)
AtNcr == pc = "start" /\ fn \in {"ncr", "npr"}
NcrNan == Negative(n) \/ Negative(r) \/ Less(n, r)

NcrRefuse ==
  /\ AtNcr
  /\ \/ NcrNan /\ Finish(NAN)
     \/ ~NcrNan /\ (TooLarge(n) \/ TooLarge(r)) /\ Finish(INFINITY)
  /\ UNCHANGED <<un, ur, i, result>>

\* if (ur > un / 2) ur = un - ur;
Smaller(a, b) == IF b > a \div 2 THEN Wrap(a - b) ELSE b

NcrEnter ==
  /\ AtNcr
  /\ ~NcrNan /\ ~TooLarge(n) /\ ~TooLarge(r)
  /\ un' \in ToUInt(n)
  /\ \E b \in ToUInt(r) : ur' = Smaller(un', b)
  /\ i' = 1 /\ result' = 1
  /\ pc' = "ncr"
  /\ UNCHANGED <<args, factor, ret>>

\* Mutant: the factors start one too low.
NcrTermLow == Wrap(un - ur + i - 1)

\* un - ur + i
NcrTerm == Wrap(un - ur + i)

NcrOverflow ==
  /\ pc = "ncr" /\ i <= ur
  /\ NcrTerm # 0
  /\ result > ULongMax \div NcrTerm
  /\ Finish(INFINITY)
  /\ UNCHANGED <<un, ur, i, result>>

NcrTurn ==
  /\ pc = "ncr" /\ i <= ur
  /\ NcrTerm # 0 /\ i # 0
  /\ result <= ULongMax \div NcrTerm
  /\ result' = Wrap(result * NcrTerm) \div i
  /\ i' = Wrap(i + 1)
  /\ UNCHANGED <<args, un, ur, pc, factor, ret>>

NcrReturn ==
  /\ pc = "ncr" /\ i > ur
  /\ Finish(ToDouble(result))
  /\ UNCHANGED <<un, ur, i, result>>

Next == \/ FacRefuse \/ FacEnter \/ FacOverflow \/ FacTurn \/ FacReturn
        \/ NcrRefuse \/ NcrEnter \/ NcrOverflow \/ NcrTurn \/ NcrReturn

Spec == Init /\ [][Next]_vars /\ WF_vars(Next)

(***************************************************************************)
(* Properties                                                              *)
(***************************************************************************)
N == n.half \div 2
R == r.half \div 2
Finite == pc = "done" /\ ret.kind = "num"

\* y is x up to a relative error of some units of 1 / MaxExact, and exact as long as
\* doubles hold every integer.
Off(x, y) == IF x > y THEN x - y ELSE y - x
Within(y, x, units) == IF x <= MaxExact THEN y = x ELSE MaxExact * Off(x, y) <= units * x

\* A finite result is the right one up to the rounding of doubles, and exact up to
\* 2^53: no product wraps, and each division of ncr's loop leaves no remainder, for
\* every pair of word sizes.  fac and ncr round once; npr rounds both factors and the
\* product.
NumExact ==
  Finite => /\ fn = "fac" /\ ~n.nan => Within(ret.num, Fact[N], 1)
            /\ fn = "ncr" /\ ~n.nan /\ ~r.nan => Within(ret.num, Binom[N][R], 1)
            /\ fn = "npr" /\ ~n.nan /\ ~r.nan => Within(ret.num, Binom[N][R] * Fact[R], 4)

\* Infinity is returned only when it must be: fac when the factorial does not fit,
\* ncr when the coefficient times the number of its factors does not fit (so also
\* for coefficients that would fit), npr when the number of arrangements does not.
InfinityNeeded ==
  pc = "done" /\ ret = INFINITY /\ ~n.nan /\ ~r.nan /\ ~TooLarge(n) /\ ~TooLarge(r)
    => /\ fn = "fac" => Fact[N] > ULongMax
       /\ fn = "ncr" => Binom[N][R] * (IF R > N \div 2 THEN N - R ELSE R) > ULongMax
       /\ fn = "npr" => Fact[N] \div Fact[N - R] > ULongMax

\* No division by zero.  Where unsigned long is wider that includes NaN, which
\* passes every test of ncr and may be converted to an r greater than n, so that
\* un - ur wraps; where it is not, ncr(NaN, UINT_MAX) divides by zero.
DivisorsNonzero ==
  ULongMax > UIntMax \/ (~n.nan /\ ~r.nan)
    => /\ pc = "fac" /\ i <= un => result # 0
       /\ pc = "ncr" /\ i <= ur => NcrTerm # 0 /\ i # 0

=============================================================================
