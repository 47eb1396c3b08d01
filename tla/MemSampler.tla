----------------------------- MODULE MemSampler -----------------------------
(***************************************************************************)
(* The workspace memory monitor that memory_usage/README.md lists: a task  *)
(* that reads the tick counter, takes a sample when one is due, sleeps for *)
(* a tick, and stops after WINDOW_TICKS.  The counter is unsigned and may  *)
(* wrap during the measurement; the task may be kept from running for many *)
(* ticks, and then takes the samples it missed one per turn.               *)
(***************************************************************************)
EXTENDS Integers, Sequences

CONSTANTS
  Period,    \* PERIOD_TICKS
  Window,    \* WINDOW_TICKS
  Modulus,   \* 2^32: the tick counter is a rtems_interval
  MaxSleep,  \* bound: ticks between two turns of the loop
  Infos,     \* what rtems_workspace_get_information may deliver
  Scale      \* 100000: usage_x1000 of a full workspace

ASSUME TickAssumption ==
  /\ Period \in Nat \ {0} /\ Window \in Nat /\ MaxSleep \in Nat \ {0}
  /\ Modulus \in Nat /\ Modulus % 2 = 0
  /\ 2 * (Window + Period) <= Modulus /\ Window + MaxSleep <= Modulus

ASSUME InfoAssumption ==
  /\ Scale \in Nat
  /\ \A info \in Infos : /\ info.ok \in BOOLEAN
                         /\ info.total \in Nat /\ info.free \in 0..info.total

VARIABLES
  base, next,   \* the variables of the loop: values of the tick counter
  real,         \* ticks since the start, not wrapped
  samples,      \* g_samples, up to g_sample_count
  pc,           \* "loop", "asleep" in rtems_task_wake_after, or "dumped"
  longest       \* the longest sleep so far

vars == <<base, next, real, samples, pc, longest>>

Tick == 0..(Modulus - 1)

\* Unsigned subtraction of ticks.
Minus(a, b) == (a - b) % Modulus

MaxSamples == (Window \div Period) + 2

TypeOK ==
  /\ base \in Tick /\ next \in Tick
  /\ real \in Nat /\ longest \in 0..MaxSleep
  /\ samples \in Seq([elapsed : Nat, total : Nat, used : Nat, usage : Nat])
  /\ pc \in {"loop", "asleep", "dumped"}

\* The counter may be anywhere when the measurement starts.
Init ==
  /\ base \in Tick /\ next = base
  /\ real = 0
  /\ samples = <<>>
  /\ pc = "loop"
  /\ longest = 0

now     == (base + real) % Modulus
elapsed == Minus(now, base)

\* Mutant: the test the comment offers instead.
DuePlain == now >= next

\* (rtems_interval)(now - next) < 0x80000000
Due == Minus(now, next) < Modulus \div 2

(***************************************************************************)
(* take_one_sample: nothing once the array is full; only the time when the *)
(* workspace cannot be read.                                               *)
(***************************************************************************)

\* Mutant: not rounded.
UsageCut(used, total) == IF total = 0 THEN 0 ELSE (used * Scale) \div total

Usage(used, total) ==
  IF total = 0 THEN 0 ELSE (used * Scale + total \div 2) \div total

Reading(info) ==
  IF info.ok THEN [elapsed |-> elapsed, total |-> info.total,
                   used |-> info.total - info.free,
                   usage |-> Usage(info.total - info.free, info.total)]
  ELSE [elapsed |-> elapsed, total |-> 0, used |-> 0, usage |-> 0]

TakeOneSample(info) ==
  samples' = IF Len(samples) >= MaxSamples THEN samples
             ELSE Append(samples, Reading(info))

(***************************************************************************)
(* record_workspace_for_4000ticks_then_print                               *)
(***************************************************************************)

\* Mutant: the next sample is a period from now.
SampleDrifts(info) ==
  /\ pc = "loop" /\ elapsed < Window
  /\ Due
  /\ TakeOneSample(info)
  /\ next' = (now + Period) % Modulus
  /\ pc' = "asleep"
  /\ UNCHANGED <<base, real, longest>>

Sample(info) ==
  /\ pc = "loop" /\ elapsed < Window
  /\ Due
  /\ TakeOneSample(info)
  /\ next' = (next + Period) % Modulus
  /\ pc' = "asleep"
  /\ UNCHANGED <<base, real, longest>>

NotDue ==
  /\ pc = "loop" /\ elapsed < Window
  /\ ~Due
  /\ pc' = "asleep"
  /\ UNCHANGED <<base, next, real, samples, longest>>

\* rtems_task_wake_after(1): at least one tick passes.
Wake(ticks) ==
  /\ pc = "asleep"
  /\ real' = real + ticks
  /\ longest' = IF ticks > longest THEN ticks ELSE longest
  /\ pc' = "loop"
  /\ UNCHANGED <<base, next, samples>>

\* Mutant: the end is looked for at one tick only.
DumpAtEnd ==
  /\ pc = "loop" /\ elapsed = Window
  /\ pc' = "dumped"
  /\ UNCHANGED <<base, next, real, samples, longest>>

\* The window is over: dump_samples_once.
Dump ==
  /\ pc = "loop" /\ elapsed >= Window
  /\ pc' = "dumped"
  /\ UNCHANGED <<base, next, real, samples, longest>>

Next == \/ \E info \in Infos : Sample(info)
        \/ NotDue \/ Dump
        \/ \E ticks \in 1..MaxSleep : Wake(ticks)

\* The task runs again some time after each sleep.
Spec == Init /\ [][Next]_vars /\ WF_vars(Next)

(***************************************************************************)
(* Properties                                                              *)
(***************************************************************************)

\* The test against the end of g_samples never loses a sample: however the counter
\* wraps and however long the task is kept from running, what is due within the
\* window fits, with an entry to spare.
SamplesFit == Len(samples) < MaxSamples

\* A sample is never early: the k-th is taken k - 1 periods after the start or
\* later, inside the window, and after the one before it.
NeverEarly ==
  \A k \in DOMAIN samples :
    /\ (k - 1) * Period <= samples[k].elapsed /\ samples[k].elapsed < Window
    /\ k > 1 => samples[k - 1].elapsed < samples[k].elapsed

\* Nor is it late by more than the task was: delays do not add up, as long as none
\* is longer than a period, and no sample of the window is missing at the end.
NeverLate ==
  longest <= Period
    => /\ \A k \in DOMAIN samples :
            samples[k].elapsed <= (k - 1) * Period + (IF k = 1 THEN 0 ELSE longest - 1)
       /\ pc = "dumped" /\ Window > 0
            => Len(samples) > (Window - longest) \div Period

\* The usage recorded is the nearest thousandth of a percent.
UsageNearest ==
  \A k \in DOMAIN samples :
    LET s == samples[k] IN
    s.total > 0 => /\ 2 * (s.usage * s.total) <= 2 * (s.used * Scale) + s.total
                   /\ 2 * (s.used * Scale) <= 2 * (s.usage * s.total) + s.total
                   /\ s.usage <= Scale

\* The measurement ends, also when the task sleeps over the end of the window.
Ends == <>(pc = "dumped")

=============================================================================
