------------------------------- MODULE TeCall -------------------------------
(***************************************************************************)
(* A name in a text of tinyexpr.c and what is computed for it: next_token  *)
(* looks the name up (TeSearch), and te_eval calls the function that was   *)
(* found, here fac, ncr or npr (TeNum).  A variable of the program with    *)
(* the name hides the function; the other builtins are libm's.             *)
(***************************************************************************)
EXTENDS TeSearch, TeNum

CONSTANT Entry   \* where the table has fac, ncr and npr

ASSUME EntryAssumption == Entry \in [{"fac", "ncr", "npr"} -> 0..(Size - 1)]

VARIABLE called   \* te_eval has called the function

callVars == <<searchVars, vars, called>>

\* Before the call function and arguments mean nothing.
AtRest ==
  /\ Init
  /\ fn = "fac"
  /\ n = [nan |-> TRUE, half |-> 0] /\ r = n

CallInit == SearchInit /\ AtRest /\ called = FALSE

\* s->function = var->address, and TE_FUN(...) with any arguments.
Names(f) == var.where = "builtin" /\ var.at = Entry[f]

Call ==
  /\ step = "done" /\ ~called
  /\ \E f \in DOMAIN Entry : Names(f) /\ fn' = f
  /\ n' \in Arguments /\ r' \in Arguments
  /\ called' = TRUE
  /\ UNCHANGED <<searchVars, ULongMax, un, ur, i, result, pc, factor, ret>>

Search == SearchNext /\ UNCHANGED <<vars, called>>
Compute == called /\ Next /\ UNCHANGED <<searchVars, called>>

CallNext == Search \/ Call \/ Compute

\* Sequential code: it runs on.
CallSpec == CallInit /\ [][CallNext]_callVars /\ WF_callVars(CallNext)

(***************************************************************************)
(* Properties                                                              *)
(***************************************************************************)

\* Every name is looked up in the end, since each comparison leaves less of the table,
\* and every call of a function that it names returns unless it divides by zero, also
\* when NaN makes the loop's limit a wrapped difference near ULONG_MAX.
Answered == \/ pc = "done"
            \/ pc = "ncr" /\ NcrTerm = 0

Answers == <>(step = "done" /\ \A f \in DOMAIN Entry : Names(f) => called /\ Answered)

=============================================================================
