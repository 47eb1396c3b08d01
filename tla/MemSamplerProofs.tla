-------------------------- MODULE MemSamplerProofs --------------------------
(***************************************************************************)
(* The workspace memory monitor is right for every period, window, width   *)
(* of the tick counter and value it starts from, however long the task is  *)
(* kept from running, as long as a window and a sleep fit the counter.     *)
(***************************************************************************)
EXTENDS MemSampler, TLAPS

\* Division with remainder.
LEMMA Quotient ==
  ASSUME NEW a \in Nat, NEW b \in Nat \ {0}
  PROVE  /\ a \div b \in Nat /\ a % b \in Nat
         /\ a = b * (a \div b) + (a % b)
         /\ a % b < b
  BY SMT

\* The quotient of an integer is no more than the integer.
LEMMA Floor ==
  ASSUME NEW a \in Int, NEW b \in Nat \ {0}
  PROVE  a \div b \in Int /\ b * (a \div b) <= a
<1>1. a \div b \in Int
  BY SMT
<1>2. b * (a \div b) + (a % b) = a /\ a % b \in Nat
  BY SMT
<1>3. b * (a \div b) \in Int
  BY <1>1, SMT
<1> QED BY <1>1, <1>2, <1>3

\* A number as the tick counter shows it.
Mod(a) == a % Modulus

\* The remainder of a sum or difference of two ticks.
LEMMA Wrapped ==
  \A a \in Int : -Modulus <= a /\ a < 2 * Modulus =>
     Mod(a) = IF a < 0 THEN a + Modulus ELSE IF a < Modulus THEN a ELSE a - Modulus
<1> SUFFICES ASSUME NEW a \in Int, -Modulus <= a, a < 2 * Modulus
             PROVE  Mod(a) = IF a < 0 THEN a + Modulus
                             ELSE IF a < Modulus THEN a ELSE a - Modulus
  OBVIOUS
<1>1. Modulus \in Nat \ {0}
  BY TickAssumption
<1> QED BY <1>1, SMT DEF Mod

\* A multiple of the period, and the one after it.
LEMMA Multiple ==
  ASSUME NEW k \in Nat
  PROVE  /\ k * Period \in Nat
         /\ (k + 1) * Period = k * Period + Period
  BY TickAssumption, SMT

\* Multiples of the period grow with their factor.
LEMMA MultipleMono ==
  ASSUME NEW j \in Nat, NEW k \in Nat, j <= k
  PROVE  j * Period <= k * Period
  BY TickAssumption, SMT

\* While the measurement lasts, what the loop computes from wrapped ticks is the
\* time that really passed and the distance to the k-th multiple of the period.
LEMMA TicksAgree ==
  ASSUME base \in Tick, real \in Nat, real < Modulus,
         NEW k \in Nat, next = (base + k * Period) % Modulus,
         k * Period < Modulus \div 2
  PROVE  /\ now \in Tick /\ elapsed = real
         /\ real < Window => (Due <=> k * Period <= real)
         /\ next \in Tick
         /\ (k + 1) * Period < Modulus => (next + Period) % Modulus = (base + (k + 1) * Period) % Modulus
<1> DEFINE p == k * Period
           h == Modulus \div 2
<1>1. p \in Nat /\ (k + 1) * Period = p + Period
  BY Multiple
<1>2. Modulus \in Nat \ {0} /\ Window \in Nat /\ Period \in Nat \ {0}
      /\ h \in Nat /\ Modulus = 2 * h /\ Window + Period <= h
  <2>1. Modulus \in Nat \ {0} /\ Window \in Nat /\ Period \in Nat \ {0}
    BY TickAssumption
  <2>2. Modulus = 2 * h + (Modulus % 2) /\ h \in Nat
    BY <2>1, Quotient
  <2> QED BY <2>1, <2>2, TickAssumption
<1> HIDE DEF p, h
<1>3. base \in Nat /\ base < Modulus
  BY <1>2 DEF Tick
<1>4. now = (IF base + real < Modulus THEN base + real ELSE base + real - Modulus)
      /\ now \in Nat /\ now < Modulus
  <2>1. now = Mod(base + real)
    BY DEF now, Mod
  <2> QED BY <2>1, <1>2, <1>3, Wrapped
<1>5. elapsed = real
  <2>1. elapsed = Mod(now - base)
    BY DEF elapsed, Minus, Mod
  <2> QED BY <2>1, <1>2, <1>3, <1>4, Wrapped
<1>6. p < h /\ p < Modulus
  BY <1>1, <1>2 DEF p, h
<1>7. next = (IF base + p < Modulus THEN base + p ELSE base + p - Modulus)
      /\ next \in Nat /\ next < Modulus
  <2>1. next = Mod(base + p)
    BY DEF Mod, p
  <2> QED BY <2>1, <1>1, <1>2, <1>3, <1>6, Wrapped
<1>8. ASSUME real < Window PROVE Due <=> p <= real
  <2>1. Due <=> Mod(now - next) < h
    BY DEF Due, Minus, Mod, h
  <2>2. Mod(now - next) = IF p <= real THEN real - p ELSE real - p + Modulus
    BY <1>1, <1>2, <1>3, <1>4, <1>6, <1>7, <1>8, Wrapped
  <2> QED BY <2>1, <2>2, <1>1, <1>2, <1>6, <1>8
<1>9. ASSUME p + Period < Modulus
      PROVE (next + Period) % Modulus = (base + (p + Period)) % Modulus
  <2>1. Mod(next + Period) = Mod(base + (p + Period))
    BY <1>1, <1>2, <1>3, <1>7, <1>9, Wrapped
  <2> QED BY <2>1 DEF Mod
<1>10. now \in Tick /\ next \in Tick
  BY <1>2, <1>4, <1>7 DEF Tick
<1> QED BY <1>1, <1>5, <1>8, <1>9, <1>10 DEF p

\* The number of samples so far.
count == Len(samples)

\* The counter does not come round during a measurement, and the next sample is
\* due a multiple of the period after the start.
Ticks == /\ real < Modulus
         /\ pc = "asleep" => real < Window
         /\ next = (base + count * Period) % Modulus

\* Once the task has slept, the time is past the last sample.
Past == count > 0 => /\ samples[count].elapsed <= real
                     /\ pc = "loop" => samples[count].elapsed < real

IInv == TypeOK /\ Ticks /\ NeverEarly /\ Past

\* A sample that was taken has a time.
LEMMA SampleTime ==
  ASSUME TypeOK
  PROVE  /\ DOMAIN samples = 1..count /\ count \in Nat
         /\ \A k \in 1..count : samples[k].elapsed \in Nat
<1> DEFINE S == [elapsed : Nat, total : Nat, used : Nat, usage : Nat]
<1>1. samples \in Seq(S)
  BY DEF TypeOK
<1> HIDE DEF S
<1>2. /\ DOMAIN samples = 1..count /\ count \in Nat
      /\ \A k \in 1..count : samples[k] \in S
  BY <1>1 DEF count
<1>3. \A x \in S : x.elapsed \in Nat
  BY DEF S
<1> QED BY <1>2, <1>3

\* The loop reads the time that passed, and a sample is due at its multiple of the
\* period.
LEMMA LoopReads ==
  ASSUME IInv
  PROVE  /\ count \in Nat /\ count * Period \in Nat /\ count * Period < Window + Period
         /\ (count + 1) * Period = count * Period + Period
         /\ elapsed = real
         /\ real < Window => (Due <=> count * Period <= real)
         /\ count * Period < Window => (next + Period) % Modulus = (base + (count + 1) * Period) % Modulus
<1>1. count \in Nat /\ base \in Tick /\ real \in Nat
  BY DEF IInv, TypeOK, count
<1>2. count * Period \in Nat /\ (count + 1) * Period = count * Period + Period
  BY <1>1, Multiple
<1>3. count * Period < Window + Period
  <2>1. CASE count = 0
    BY <2>1, TickAssumption, SMT
  <2>2. CASE count # 0
    <3>1. count - 1 \in Nat /\ count \in DOMAIN samples
      BY <1>1, <2>2 DEF count, IInv, TypeOK
    <3>2. (count - 1) * Period <= samples[count].elapsed /\ samples[count].elapsed < Window
      BY <3>1 DEF IInv, NeverEarly
    <3>3. (count - 1) * Period \in Nat /\ count * Period = (count - 1) * Period + Period
      <4> DEFINE j == count - 1
      <4>1. j \in Nat /\ count = j + 1
        BY <1>1, <3>1
      <4> HIDE DEF j
      <4>2. j * Period \in Nat /\ (j + 1) * Period = j * Period + Period
        BY <4>1, Multiple
      <4>3. count * Period = j * Period + Period
        BY <4>1, <4>2
      <4> QED BY <4>2, <4>3 DEF j
    <3>4. samples[count].elapsed \in Nat
      BY <1>1, <2>2, SampleTime DEF IInv
    <3> QED BY <3>2, <3>3, <3>4, TickAssumption
  <2> QED BY <2>1, <2>2
<1>4. count * Period < Modulus \div 2 /\ Window + Period < Modulus
  <2>1. Modulus \in Nat /\ Modulus = 2 * (Modulus \div 2) + (Modulus % 2) /\ Modulus \div 2 \in Nat
    BY TickAssumption, Quotient
  <2> DEFINE h == Modulus \div 2
  <2>2. Modulus = 2 * h /\ h \in Nat
    BY <2>1, TickAssumption
  <2> HIDE DEF h
  <2>3. count * Period < h
    BY <2>2, <1>2, <1>3, TickAssumption
  <2> QED BY <2>2, <2>3, TickAssumption DEF h
<1>5. /\ elapsed = real
      /\ real < Window => (Due <=> count * Period <= real)
      /\ (count + 1) * Period < Modulus
           => (next + Period) % Modulus = (base + (count + 1) * Period) % Modulus
  BY <1>1, <1>4, TicksAgree DEF IInv, Ticks
<1>6. count * Period < Window => (count + 1) * Period < Modulus
  BY <1>2, <1>4, TickAssumption
<1> QED BY <1>1, <1>2, <1>3, <1>5, <1>6

\* The invariant leaves room in the array: what is due in a window fits.
LEMMA Room ==
  ASSUME IInv
  PROVE  SamplesFit /\ MaxSamples \in Nat
<1> DEFINE q == Window \div Period
           r == Window % Period
           a == q * Period
<1>1. q \in Nat /\ r \in Nat /\ Window = Period * q + r /\ r < Period
  BY TickAssumption, Quotient
<1>2. count \in Nat /\ count * Period \in Nat /\ count * Period < Window + Period
  BY LoopReads
<1>3. a \in Nat /\ Period * q = a
  BY <1>1, TickAssumption, SMT
<1>4. ASSUME q + 2 <= count PROVE FALSE
  <2>1. (q + 2) * Period <= count * Period
    BY <1>1, <1>2, <1>4, MultipleMono
  <2>2. (q + 2) * Period = a + 2 * Period
    BY <1>1, TickAssumption, SMT
  <2> HIDE DEF q, r, a
  <2> QED BY <1>1, <1>2, <1>3, <2>1, <2>2, TickAssumption
<1>5. MaxSamples = q + 2
  BY DEF MaxSamples
<1> HIDE DEF q
<1> QED BY <1>1, <1>2, <1>4, <1>5 DEF SamplesFit, count

\* What is recorded is well formed, and its usage rounded.
LEMMA ReadingType ==
  ASSUME NEW info \in Infos, elapsed \in Nat
  PROVE  /\ Reading(info) \in [elapsed : Nat, total : Nat, used : Nat, usage : Nat]
         /\ Reading(info).elapsed = elapsed
<1>1. info.total \in Nat /\ info.total - info.free \in Nat
  BY InfoAssumption
<1>2. \A u, t \in Nat : Usage(u, t) \in Nat
  <2> SUFFICES ASSUME NEW u \in Nat, NEW t \in Nat PROVE Usage(u, t) \in Nat
    OBVIOUS
  <2>1. CASE t = 0
    BY <2>1 DEF Usage
  <2>2. CASE t # 0
    <3>1. u * Scale \in Nat
      BY InfoAssumption, SMT
    <3>2. t \div 2 \in Nat
      BY Quotient
    <3>3. u * Scale + t \div 2 \in Nat
      BY <3>1, <3>2
    <3> QED BY <2>2, <3>3, Quotient DEF Usage
  <2> QED BY <2>1, <2>2
<1> QED BY <1>1, <1>2 DEF Reading

\* Appending a sample.
LEMMA Taken ==
  ASSUME NEW S, samples \in Seq(S), NEW x \in S, samples' = Append(samples, x)
  PROVE  /\ samples' \in Seq(S)
         /\ count \in Nat /\ count' = count + 1
         /\ samples'[count + 1] = x
         /\ DOMAIN samples' = 1..(count + 1)
         /\ DOMAIN samples = 1..count
         /\ \A k \in 1..count : samples'[k] = samples[k]
  BY DEF count

\* Every turn of the loop keeps the inductive invariant.
LEMMA StepKeeps ==
  ASSUME IInv, [Next]_vars
  PROVE  IInv'
<1> DEFINE S == [elapsed : Nat, total : Nat, used : Nat, usage : Nat]
<1>1. /\ count \in Nat /\ count * Period \in Nat
      /\ (count + 1) * Period = count * Period + Period
      /\ elapsed = real
      /\ real < Window => (Due <=> count * Period <= real)
      /\ count * Period < Window
           => (next + Period) % Modulus = (base + (count + 1) * Period) % Modulus
  BY LoopReads
<1>2. samples \in Seq(S) /\ real \in Nat /\ base \in Tick
  BY DEF IInv, TypeOK
<1>3. /\ Modulus \in Nat \ {0} /\ Window \in Nat /\ MaxSleep \in Nat
      /\ Window + MaxSleep <= Modulus
  BY TickAssumption
<1>4. ASSUME NEW info \in Infos, Sample(info) PROVE IInv'
  <2>1. real < Window /\ count * Period <= real
    BY <1>1, <1>4 DEF Sample
  <2>2. UNCHANGED <<base, real, longest>> /\ pc' = "asleep" /\ pc = "loop"
        /\ next' = (next + Period) % Modulus
    BY <1>4 DEF Sample
  <2>3. next' = (base + (count + 1) * Period) % Modulus /\ next' \in Tick
    <3>1. next' = (base + (count + 1) * Period) % Modulus
      BY <1>1, <1>2, <1>3, <2>1, <2>2
    <3>2. next \in Nat /\ Period \in Nat
      BY <1>3, TickAssumption DEF IInv, TypeOK, Tick
    <3>3. (next + Period) % Modulus \in Nat /\ (next + Period) % Modulus < Modulus
      BY <1>3, <3>2, Quotient
    <3> QED BY <1>3, <2>2, <3>1, <3>3 DEF Tick
  <2>4. IInv'
    <3>1. samples' = Append(samples, Reading(info))
      BY <1>4, <1>1, Room DEF SamplesFit, MaxSamples, Sample, TakeOneSample, count
    <3>2. Reading(info) \in S /\ Reading(info).elapsed = real
      BY <1>1, <1>2, <1>4, ReadingType
    <3>3. /\ samples' \in Seq(S) /\ count' = count + 1
          /\ samples'[count + 1] = Reading(info)
          /\ DOMAIN samples' = 1..(count + 1) /\ DOMAIN samples = 1..count
          /\ \A k \in 1..count : samples'[k] = samples[k]
      BY <1>2, <3>1, <3>2, Taken
    <3>4. TypeOK'
      BY <2>2, <2>3, <3>3 DEF IInv, TypeOK, Tick
    <3>5. Ticks'
      BY <2>1, <2>2, <2>3, <3>3 DEF IInv, Ticks
    <3>6. Past'
      BY <1>1, <1>2, <2>2, <3>2, <3>3 DEF Past
    <3>7. NeverEarly'
      <4> SUFFICES ASSUME NEW k \in DOMAIN samples'
                   PROVE  /\ (k - 1) * Period <= samples'[k].elapsed
                          /\ samples'[k].elapsed < Window
                          /\ k > 1 => samples'[k - 1].elapsed < samples'[k].elapsed
        BY DEF NeverEarly
      <4>1. CASE k \in 1..count
        <5>1. k > 1 => k - 1 \in 1..count
          BY <1>1, <4>1
        <5> QED BY <3>3, <4>1, <5>1 DEF IInv, NeverEarly
      <4>2. CASE k = count + 1
        <5>1. samples'[k].elapsed = real /\ k - 1 = count
          BY <1>1, <3>2, <3>3, <4>2
        <5>2. k > 1 => samples'[k - 1].elapsed < samples'[k].elapsed
          BY <1>1, <2>2, <3>3, <5>1, <4>2 DEF IInv, Past
        <5> QED BY <2>1, <5>1, <5>2
      <4> QED BY <1>1, <3>3, <4>1, <4>2
    <3> QED BY <3>4, <3>5, <3>6, <3>7 DEF IInv
  <2> QED BY <2>4
<1>5. CASE NotDue
  BY <1>1, <1>5 DEF NotDue, IInv, TypeOK, Ticks, Past, NeverEarly, count, Tick
<1>6. CASE Dump
  BY <1>6 DEF Dump, IInv, TypeOK, Ticks, Past, NeverEarly, count, Tick
<1>7. ASSUME NEW ticks \in 1..MaxSleep, Wake(ticks) PROVE IInv'
  <2>1. real' = real + ticks /\ pc = "asleep" /\ pc' = "loop" /\ UNCHANGED <<base, next, samples>>
    BY <1>7 DEF Wake
  <2>2. real' \in Nat /\ real' < Modulus
    BY <1>2, <1>3, <2>1 DEF IInv, Ticks
  <2>3. longest' \in 0..MaxSleep
    BY <1>7 DEF Wake, IInv, TypeOK
  <2>4. TypeOK' /\ Ticks' /\ NeverEarly'
    BY <2>1, <2>2, <2>3 DEF IInv, TypeOK, Ticks, NeverEarly, count, Tick
  <2>5. Past'
    <3>1. count > 0 => samples[count].elapsed \in Nat
      BY <1>1, SampleTime DEF IInv
    <3> QED BY <1>2, <2>1, <3>1 DEF IInv, Past, count
  <2> QED BY <2>4, <2>5 DEF IInv
<1>8. CASE UNCHANGED vars
  BY <1>8 DEF vars, IInv, TypeOK, Ticks, Past, NeverEarly, count, Tick
<1> QED BY <1>4, <1>5, <1>6, <1>7, <1>8 DEF Next

\* The initial state satisfies the inductive invariant.
LEMMA InitKeeps == Init => IInv
<1> SUFFICES ASSUME Init PROVE IInv
  OBVIOUS
<1>1. /\ base \in Tick /\ next = base /\ real = 0 /\ samples = <<>>
      /\ pc = "loop" /\ longest = 0
  BY DEF Init
<1>2. count = 0 /\ DOMAIN samples = {}
  BY <1>1 DEF count
<1>3. Modulus \in Nat \ {0} /\ MaxSleep \in Nat /\ Period \in Nat /\ base \in Nat /\ base < Modulus
  BY <1>1, TickAssumption DEF Tick
<1>4. next = (base + count * Period) % Modulus
  <2>1. count * Period = 0
    BY <1>2, <1>3, SMT
  <2>2. Mod(base) = base
    BY <1>3, Wrapped
  <2> QED BY <1>1, <1>3, <2>1, <2>2 DEF Mod
<1>5. TypeOK
  BY <1>1, <1>3 DEF TypeOK
<1> QED BY <1>1, <1>2, <1>3, <1>4, <1>5 DEF IInv, Ticks, NeverEarly, Past

\* The invariant holds in every state of the monitor.
LEMMA Invariant == Spec => []IInv
<1>1. IInv /\ [Next]_vars => IInv'
  BY StepKeeps
<1> QED BY <1>1, InitKeeps, PTL DEF Spec

\* The variables of the loop keep their types: next wraps with the counter.
THEOREM SamplerTypeCorrect == Spec => []TypeOK
<1>1. IInv => TypeOK
  BY DEF IInv
<1> QED BY <1>1, Invariant, PTL

\* The test against the end of g_samples never discards a sample.
THEOREM SamplesFitCorrect == Spec => []SamplesFit
<1>1. IInv => SamplesFit
  BY Room
<1> QED BY <1>1, Invariant, PTL

\* No sample is early, outside the window or out of order, wherever the counter
\* wraps.
THEOREM NeverEarlyCorrect == Spec => []NeverEarly
<1>1. IInv => NeverEarly
  BY DEF IInv
<1> QED BY <1>1, Invariant, PTL

\* How late the k-th sample may be, and how late the loop is, when the task never
\* slept longer than a period.
Slack(k) == IF k = 1 THEN 0 ELSE longest - 1

OnTime ==
  longest <= Period =>
    /\ \A k \in DOMAIN samples : samples[k].elapsed <= (k - 1) * Period + Slack(k)
    /\ pc = "asleep" => count > 0 /\ real < count * Period
    /\ pc # "asleep" => \/ count = 0 /\ real = 0
                        \/ count > 0 /\ longest > 0 /\ real < count * Period + longest
    /\ pc = "dumped" => Window <= real

\* A bound that allows for a longer sleep is weaker.
LEMMA MoreSlack ==
  ASSUME NEW e \in Nat, NEW p \in Nat, NEW a \in Nat, NEW b \in Nat,
         a <= b, e <= p + (a - 1)
  PROVE  e <= p + (b - 1)
  OBVIOUS

\* A turn of the loop does not add to the delay.
LEMMA StepOnTime ==
  ASSUME IInv, OnTime, [Next]_vars
  PROVE  OnTime'
<1> SUFFICES ASSUME longest' <= Period
             PROVE  /\ \A k \in DOMAIN samples' :
                         samples'[k].elapsed <= (k - 1) * Period + Slack(k)'
                    /\ pc' = "asleep" => count' > 0 /\ real' < count' * Period
                    /\ pc' # "asleep" =>
                         \/ count' = 0 /\ real' = 0
                         \/ count' > 0 /\ longest' > 0 /\ real' < count' * Period + longest'
                    /\ pc' = "dumped" => Window <= real'
  BY DEF OnTime
<1> DEFINE S == [elapsed : Nat, total : Nat, used : Nat, usage : Nat]
<1>1. /\ count \in Nat /\ count * Period \in Nat
      /\ (count + 1) * Period = count * Period + Period
      /\ elapsed = real
      /\ real < Window => (Due <=> count * Period <= real)
  BY LoopReads
<1>2. samples \in Seq(S) /\ real \in Nat /\ longest \in Nat /\ Period \in Nat \ {0} /\ Window \in Nat
  BY TickAssumption DEF IInv, TypeOK
<1>3. DOMAIN samples = 1..count /\ \A k \in 1..count : samples[k].elapsed \in Nat
  BY SampleTime DEF IInv
<1>4. ASSUME NEW info \in Infos, Sample(info) PROVE OnTime'
  <2>1. /\ longest' = longest /\ real' = real /\ pc = "loop" /\ pc' = "asleep"
        /\ real < Window /\ count * Period <= real
    BY <1>1, <1>4 DEF Sample
  <2>2. samples' = Append(samples, Reading(info))
    BY <1>4, <1>1, Room DEF SamplesFit, Sample, TakeOneSample, count
  <2>3. Reading(info) \in S /\ Reading(info).elapsed = real
    BY <1>1, <1>2, <1>4, ReadingType
  <2>4. /\ count' = count + 1 /\ samples'[count + 1] = Reading(info)
        /\ DOMAIN samples' = 1..(count + 1)
        /\ \A k \in 1..count : samples'[k] = samples[k]
    BY <1>2, <2>2, <2>3, Taken
  <2>5. real <= count * Period + Slack(count + 1) /\ real < count * Period + Period
    BY <1>1, <1>2, <2>1 DEF OnTime, Slack
  <2>6. ASSUME NEW k \in DOMAIN samples'
        PROVE  samples'[k].elapsed <= (k - 1) * Period + Slack(k)
    <3>1. CASE k \in 1..count
      BY <1>3, <2>1, <2>4, <3>1 DEF OnTime
    <3>2. CASE k = count + 1
      <4>1. k - 1 = count
        BY <1>1, <3>2
      <4> QED BY <2>3, <2>4, <2>5, <3>2, <4>1
    <3> QED BY <1>1, <2>4, <3>1, <3>2
  <2>7. \A k : Slack(k)' = Slack(k)
    BY <2>1 DEF Slack
  <2>8. count' > 0 /\ real' < count' * Period
    BY <1>1, <2>1, <2>4, <2>5
  <2> QED BY <2>1, <2>6, <2>7, <2>8 DEF OnTime
<1>5. CASE NotDue
  <2>1. /\ UNCHANGED <<real, samples, longest>> /\ pc = "loop" /\ pc' = "asleep"
        /\ ~(count * Period <= real) /\ count' = count
    BY <1>1, <1>5 DEF NotDue, count
  <2>2. count = 0 => count * Period = 0
    BY <1>2, SMT
  <2>3. count > 0 /\ real < count * Period
    BY <1>1, <1>2, <2>1, <2>2
  <2> QED BY <2>1, <2>3 DEF OnTime, Slack
<1>6. CASE Dump
  BY <1>1, <1>2, <1>6 DEF Dump, OnTime, Slack, count
<1>7. ASSUME NEW ticks \in 1..MaxSleep, Wake(ticks) PROVE OnTime'
  <2>1. /\ real' = real + ticks /\ pc = "asleep" /\ pc' = "loop" /\ UNCHANGED samples
        /\ count' = count
        /\ longest' = IF ticks > longest THEN ticks ELSE longest
        /\ ticks \in Nat \ {0}
    BY <1>7, TickAssumption DEF Wake, count
  <2>2. longest <= longest' /\ ticks <= longest' /\ longest' \in Nat /\ longest' > 0
    BY <1>2, <2>1
  <2>3. longest <= Period
    BY <1>2, <2>2
  <2>4. count > 0 /\ real < count * Period
    BY <2>1, <2>3 DEF OnTime
  <2>5. real' < count' * Period + longest'
    BY <1>1, <1>2, <2>1, <2>2, <2>4
  <2>6. ASSUME NEW k \in DOMAIN samples
        PROVE  samples[k].elapsed <= (k - 1) * Period + Slack(k)'
    <3>1. k \in Nat \ {0} /\ samples[k].elapsed \in Nat
      BY <1>1, <1>3
    <3>2. (k - 1) * Period \in Nat
      BY <3>1, Multiple
    <3>3. samples[k].elapsed <= (k - 1) * Period + Slack(k)
      BY <2>3 DEF OnTime
    <3>4. CASE k = 1
      BY <3>3, <3>4 DEF Slack
    <3>5. CASE k # 1
      <4>1. samples[k].elapsed <= (k - 1) * Period + (longest - 1)
        BY <3>3, <3>5 DEF Slack
      <4>2. samples[k].elapsed <= (k - 1) * Period + (longest' - 1)
        <5>1. longest \in Nat
          BY <1>2
        <5> QED BY <2>2, <3>1, <3>2, <4>1, <5>1, MoreSlack
      <4> QED BY <3>5, <4>2 DEF Slack
    <3> QED BY <3>4, <3>5
  <2> QED BY <2>1, <2>2, <2>4, <2>5, <2>6 DEF OnTime
<1>8. CASE UNCHANGED vars
  BY <1>8 DEF vars, OnTime, Slack, count
<1> QED BY <1>4, <1>5, <1>6, <1>7, <1>8 DEF Next, OnTime

\* As long as the task is never kept from running for longer than a period, delays
\* do not add up and no sample of the window is missing at the end.
THEOREM NeverLateCorrect == Spec => []NeverLate
<1>1. Init => OnTime
  BY DEF Init, OnTime, count, Slack
<1>2. IInv /\ OnTime /\ [Next]_vars => OnTime'
  BY StepOnTime
<1>3. IInv /\ OnTime => NeverLate
  <2> SUFFICES ASSUME IInv, OnTime, longest <= Period
               PROVE  /\ \A k \in DOMAIN samples :
                           samples[k].elapsed <= (k - 1) * Period + Slack(k)
                      /\ pc = "dumped" /\ Window > 0
                           => Len(samples) > (Window - longest) \div Period
    BY DEF NeverLate, Slack
  <2>1. \A k \in DOMAIN samples : samples[k].elapsed <= (k - 1) * Period + Slack(k)
    BY DEF OnTime
  <2>2. ASSUME pc = "dumped", Window > 0
        PROVE  count > (Window - longest) \div Period
    <3>1. count \in Nat /\ count * Period \in Nat /\ real \in Nat /\ longest \in Nat
          /\ Window \in Nat /\ Period \in Nat \ {0}
      BY LoopReads, TickAssumption DEF IInv, TypeOK
    <3>2. Window <= real /\ count > 0 /\ real < count * Period + longest
      BY <2>2, <3>1 DEF OnTime
    <3> DEFINE a == Window - longest
    <3>3. a \in Int /\ a < count * Period
      BY <3>1, <3>2
    <3> HIDE DEF a
    <3> DEFINE q == a \div Period
    <3>4. q \in Int /\ Period * q <= a
      BY <3>1, <3>3, Floor
    <3> HIDE DEF q
    <3>5. ASSUME count <= q PROVE FALSE
      <4>1. q \in Nat /\ count * Period <= q * Period
        BY <3>1, <3>4, <3>5, MultipleMono
      <4>2. q * Period = Period * q /\ q * Period \in Nat
        BY <3>1, <4>1, SMT
      <4> QED BY <3>1, <3>3, <3>4, <4>1, <4>2
    <3> QED BY <3>1, <3>4, <3>5 DEF a, q
  <2> QED BY <2>1, <2>2 DEF count
<1> QED BY <1>1, <1>2, <1>3, Invariant, PTL DEF Spec

\* The usage of one reading is the nearest value, and no more than all.
LEMMA UsageRounds ==
  ASSUME NEW u \in Nat, NEW t \in Nat \ {0}, u <= t
  PROVE  /\ Usage(u, t) \in Nat /\ Usage(u, t) <= Scale
         /\ 2 * (Usage(u, t) * t) <= 2 * (u * Scale) + t
         /\ 2 * (u * Scale) <= 2 * (Usage(u, t) * t) + t
<1> DEFINE x == u * Scale
           e == t \div 2
           v == (x + e) \div t
           w == v * t
<1>1. x \in Nat /\ x <= t * Scale /\ t * Scale \in Nat
  BY InfoAssumption, SMT
<1>2. e \in Nat /\ 2 * e <= t /\ t <= 2 * e + 1
  BY SMT
<1>3. v \in Nat /\ (x + e) % t \in Nat /\ x + e = t * v + ((x + e) % t) /\ (x + e) % t < t
  <2>1. x + e \in Nat
    BY <1>1, <1>2
  <2> HIDE DEF x, e
  <2> QED BY <2>1, Quotient
<1>4. w \in Nat /\ t * v = w
  <2> HIDE DEF v
  <2> QED BY <1>3, SMT
<1>5. Usage(u, t) = v
  BY DEF Usage
<1>6. w <= x + e /\ x + e < w + t
  <2> HIDE DEF x, e, v, w
  <2> QED BY <1>1, <1>2, <1>3, <1>4
<1>7. 2 * w <= 2 * x + t /\ 2 * x <= 2 * w + t
  <2> HIDE DEF x, e, v, w
  <2> QED BY <1>1, <1>2, <1>4, <1>6
<1>8. v <= Scale
  <2> SUFFICES ASSUME Scale + 1 <= v PROVE FALSE
    BY <1>3, InfoAssumption
  <2> HIDE DEF v
  <2>1. (Scale + 1) * t <= v * t
    BY <1>3, InfoAssumption, SMT
  <2>2. (Scale + 1) * t = t * Scale + t
    BY InfoAssumption, SMT
  <2>3. t * Scale + t <= w
    BY <2>1, <2>2
  <2> DEFINE y == t * Scale
  <2> HIDE DEF x, e, w, y
  <2>4. y \in Nat /\ x <= y /\ y + t <= w
    BY <1>1, <2>3 DEF y
  <2> QED BY <1>1, <1>2, <1>4, <1>6, <2>4
<1> QED BY <1>3, <1>5, <1>7, <1>8

\* Every usage that is recorded is rounded to the nearest value.
THEOREM UsageNearestCorrect == Spec => []UsageNearest
<1> DEFINE S == [elapsed : Nat, total : Nat, used : Nat, usage : Nat]
           Good(x) == x.total > 0 =>
                        /\ 2 * (x.usage * x.total) <= 2 * (x.used * Scale) + x.total
                        /\ 2 * (x.used * Scale) <= 2 * (x.usage * x.total) + x.total
                        /\ x.usage <= Scale
<1>1. Init => UsageNearest
  BY DEF Init, UsageNearest
<1>2. IInv /\ UsageNearest /\ [Next]_vars => UsageNearest'
  <2> SUFFICES ASSUME IInv, UsageNearest, [Next]_vars PROVE UsageNearest'
    OBVIOUS
  <2>1. \A k \in DOMAIN samples : Good(samples[k])
    BY DEF UsageNearest
  <2>2. samples \in Seq(S) /\ elapsed \in Nat
    BY LoopReads DEF IInv, TypeOK
  <2>3. ASSUME NEW info \in Infos, Sample(info) PROVE UsageNearest'
    <3>1. samples' = Append(samples, Reading(info))
      BY <2>3, Room DEF SamplesFit, Sample, TakeOneSample, IInv, TypeOK
    <3>2. Reading(info) \in S
      BY <2>2, <2>3, ReadingType
    <3>3. Good(Reading(info))
      <4>1. CASE ~info.ok
        BY <4>1 DEF Reading
      <4>2. CASE info.ok /\ info.total = 0
        BY <4>2 DEF Reading
      <4>3. CASE info.ok /\ info.total # 0
        <5> DEFINE u == info.total - info.free
                   t == info.total
        <5>1. u \in Nat /\ t \in Nat \ {0} /\ u <= t
          BY <2>3, <4>3, InfoAssumption
        <5>2. /\ Reading(info).total = t /\ Reading(info).used = u
              /\ Reading(info).usage = Usage(u, t)
          BY <4>3 DEF Reading
        <5> HIDE DEF u, t
        <5> QED BY <5>1, <5>2, UsageRounds
      <4> QED BY <2>3, <4>1, <4>2, <4>3, InfoAssumption
    <3>4. \A k \in DOMAIN samples' : samples'[k] = Reading(info) \/ (k \in DOMAIN samples /\ samples'[k] = samples[k])
      <4> HIDE DEF S
      <4>1. /\ count \in Nat /\ samples'[count + 1] = Reading(info)
            /\ DOMAIN samples' = 1..(count + 1) /\ DOMAIN samples = 1..count
            /\ \A k \in 1..count : samples'[k] = samples[k]
        BY <2>2, <3>1, <3>2, Taken
      <4> QED BY <4>1
    <3> HIDE DEF Good
    <3>5. \A k \in DOMAIN samples' : Good(samples'[k])
      BY <2>1, <3>3, <3>4
    <3> QED BY <3>5 DEF Good, UsageNearest
  <2>4. CASE UNCHANGED samples
    BY <2>4 DEF UsageNearest
  <2> QED BY <2>3, <2>4 DEF Next, NotDue, Dump, Wake, vars
<1> QED BY <1>1, <1>2, Invariant, PTL DEF Spec

=============================================================================
