------------------------------ MODULE TeSearch ------------------------------
(***************************************************************************)
(* How next_token of tinyexpr.c finds the meaning of a name: find_lookup   *)
(* goes through the variables of the program from the first to the last,   *)
(* then find_builtin searches the table of builtins by halving.            *)
(*                                                                         *)
(* A name is what comparing it gives: for each variable of the program     *)
(* whether it is equal, and for each builtin the sign of the comparison.   *)
(***************************************************************************)
EXTENDS Integers

CONSTANTS
  Size,         \* builtins in the table
  VarCount,     \* s->lookup_len
  Comparisons   \* how names compare with the table

\* The table "must be in alphabetical order": a name is greater than the entries
\* before some place, less than those after it, and equal to at most one.
Ordered(c) == \A i, j \in 0..(Size - 1) : i < j => c[i] > 0 \/ c[j] < 0

ASSUME SearchAssumption ==
  /\ Size \in Nat /\ VarCount \in Nat
  /\ \A c \in Comparisons : c \in [0..(Size - 1) -> Int] /\ Ordered(c)

VARIABLES
  equal,        \* which variables of the program have the name
  c,            \* how the name compares with the builtins
  iters,        \* turns left of find_lookup's loop
  imin, imax,   \* what is left of the table
  step,           \* "lookup", "builtin" or "done"
  var           \* what was found: where, and at which index

searchVars == <<equal, c, iters, imin, imax, step, var>>

Nothing == [where |-> "nowhere", at |-> 0]

\* Types, and bounds: the searches stay inside the list and the table.
SearchTypeOK ==
  /\ equal \in [0..(VarCount - 1) -> BOOLEAN]
  /\ c \in [0..(Size - 1) -> Int]
  /\ iters \in 0..VarCount
  /\ imin \in 0..Size /\ imax \in -1..(Size - 1)
  /\ step \in {"lookup", "builtin", "done"}
  /\ var \in [where : {"nowhere", "lookup", "builtin"}, at : Nat]

SearchInit ==
  /\ equal \in [0..(VarCount - 1) -> BOOLEAN]
  /\ c \in Comparisons
  /\ iters = VarCount
  /\ imin = 0 /\ imax = Size - 1
  /\ step = "lookup"
  /\ var = Nothing

\* find_lookup: the variable at the front of the rest of the list.
Front == VarCount - iters

LookupHit ==
  /\ step = "lookup" /\ iters > 0
  /\ equal[Front]
  /\ var' = [where |-> "lookup", at |-> Front]
  /\ step' = "done"
  /\ UNCHANGED <<equal, c, iters, imin, imax>>

LookupNext ==
  /\ step = "lookup" /\ iters > 0
  /\ ~equal[Front]
  /\ iters' = iters - 1
  /\ UNCHANGED <<equal, c, imin, imax, step, var>>

\* "if (!var) var = find_builtin(...)"
LookupMiss ==
  /\ step = "lookup" /\ iters = 0
  /\ step' = "builtin"
  /\ UNCHANGED <<equal, c, iters, imin, imax, var>>

\* find_builtin
Middle == imin + (imax - imin) \div 2
Searching == step = "builtin" /\ imax >= imin

BuiltinHit ==
  /\ Searching /\ c[Middle] = 0
  /\ var' = [where |-> "builtin", at |-> Middle]
  /\ step' = "done"
  /\ UNCHANGED <<equal, c, iters, imin, imax>>

\* Mutants: the middle is not excluded, or one entry too many is.
RightKeepsMiddle ==
  /\ Searching /\ c[Middle] > 0
  /\ imin' = Middle
  /\ UNCHANGED <<equal, c, iters, imax, step, var>>

RightSkipsOne ==
  /\ Searching /\ c[Middle] > 0
  /\ imin' = Middle + 2
  /\ UNCHANGED <<equal, c, iters, imax, step, var>>

BuiltinRight ==
  /\ Searching /\ c[Middle] > 0
  /\ imin' = Middle + 1
  /\ UNCHANGED <<equal, c, iters, imax, step, var>>

BuiltinLeft ==
  /\ Searching /\ c[Middle] < 0
  /\ imax' = Middle - 1
  /\ UNCHANGED <<equal, c, iters, imin, step, var>>

BuiltinMiss ==
  /\ step = "builtin" /\ imax < imin
  /\ step' = "done"
  /\ UNCHANGED <<equal, c, iters, imin, imax, var>>

SearchNext == \/ LookupHit \/ LookupNext \/ LookupMiss
        \/ BuiltinHit \/ BuiltinRight \/ BuiltinLeft \/ BuiltinMiss

\* Sequential code: it runs on.
SearchSpec == SearchInit /\ [][SearchNext]_searchVars /\ WF_searchVars(SearchNext)

(***************************************************************************)
(* Properties                                                              *)
(***************************************************************************)
IsVariable(k) == k \in 0..(VarCount - 1) /\ equal[k]
IsBuiltin(k)  == k \in 0..(Size - 1) /\ c[k] = 0

\* The result is the first variable of the program with the name; only if there is
\* none the builtin with the name; and nothing only if there is neither: halving
\* never loses the one entry that matches.
Finds ==
  step = "done" =>
    \/ /\ var.where = "lookup" /\ IsVariable(var.at)
       /\ \A k \in 0..(var.at - 1) : ~equal[k]
    \/ /\ var.where = "builtin" /\ IsBuiltin(var.at)
       /\ \A k \in 0..(VarCount - 1) : ~equal[k]
    \/ /\ var.where = "nowhere"
       /\ \A k \in 0..(VarCount - 1) : ~equal[k]
       /\ \A k \in 0..(Size - 1) : c[k] # 0

\* What the loops keep: the variables passed over do not match, and neither does a
\* builtin outside imin..imax.
Narrowed ==
  /\ Ordered(c)
  /\ \A k \in 0..(Front - 1) : ~equal[k]
  /\ step # "done" => var = Nothing
  /\ step = "builtin" => iters = 0
  /\ \A k \in 0..(Size - 1) : /\ k < imin => c[k] > 0
                              /\ k > imax => c[k] < 0

=============================================================================
