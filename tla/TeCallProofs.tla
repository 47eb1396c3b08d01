---------------------------- MODULE TeCallProofs ----------------------------
(***************************************************************************)
(* Names and calls of tinyexpr.c: the lookup is correct for every table in *)
(* order, every number of program variables and every name, and so is what *)
(* is computed for fac, ncr and npr, whose lemmas are in TeNumProofs.      *)
(***************************************************************************)
EXTENDS TeCall, TeNumProofs

\* The middle of a part of the table that is not empty lies in it.
LEMMA MiddleInside ==
  SearchTypeOK /\ Searching => /\ Middle \in 0..(Size - 1)
                         /\ imin <= Middle /\ Middle <= imax
  BY SearchAssumption DEF SearchTypeOK, Searching, Middle

\* The searches start with everything to be searched.
LEMMA SearchStarts == SearchInit => SearchTypeOK /\ Narrowed /\ Finds
  BY SearchAssumption DEF SearchInit, SearchTypeOK, Narrowed, Finds, Front, Ordered, Nothing

\* Every turn of either loop keeps what the search relies on.
LEMMA SearchStep == SearchTypeOK /\ Narrowed /\ Finds /\ [SearchNext]_searchVars => SearchTypeOK' /\ Narrowed' /\ Finds'
<1> SUFFICES ASSUME SearchTypeOK, Narrowed, Finds, [SearchNext]_searchVars PROVE SearchTypeOK' /\ Narrowed' /\ Finds'
  OBVIOUS
<1>0. c \in [0..(Size - 1) -> Int] /\ Ordered(c)
  BY DEF SearchTypeOK, Narrowed
<1>1. CASE LookupHit
  BY <1>1, SearchAssumption
  DEF LookupHit, SearchTypeOK, Narrowed, Finds, Front, Ordered, IsVariable
<1>2. CASE LookupNext
  BY <1>2, SearchAssumption DEF LookupNext, SearchTypeOK, Narrowed, Finds, Front, Ordered
<1>3. CASE LookupMiss
  BY <1>3, SearchAssumption DEF LookupMiss, SearchTypeOK, Narrowed, Finds, Front, Ordered
<1>4. CASE BuiltinHit
  <2>1. Middle \in 0..(Size - 1)
    BY <1>4, MiddleInside DEF BuiltinHit
  <2> QED
    BY <1>4, <2>1, SearchAssumption
    DEF BuiltinHit, Searching, SearchTypeOK, Narrowed, Finds, Front, Ordered, IsBuiltin
<1>5. CASE BuiltinRight
  <2>1. Middle \in 0..(Size - 1) /\ imin <= Middle /\ Middle <= imax
    BY <1>5, MiddleInside DEF BuiltinRight
  <2>2. \A k \in 0..(Size - 1) : k < Middle + 1 => c[k] > 0
    BY <1>0, <1>5, <2>1 DEF BuiltinRight, Ordered
  <2> QED
    BY <1>5, <2>1, <2>2, SearchAssumption
    DEF BuiltinRight, Searching, SearchTypeOK, Narrowed, Finds, Front, Ordered
<1>6. CASE BuiltinLeft
  <2>1. Middle \in 0..(Size - 1) /\ imin <= Middle /\ Middle <= imax
    BY <1>6, MiddleInside DEF BuiltinLeft
  <2>2. \A k \in 0..(Size - 1) : k > Middle - 1 => c[k] < 0
    BY <1>0, <1>6, <2>1 DEF BuiltinLeft, Ordered
  <2> QED
    BY <1>6, <2>1, <2>2, SearchAssumption
    DEF BuiltinLeft, Searching, SearchTypeOK, Narrowed, Finds, Front, Ordered
<1>7. CASE BuiltinMiss
  <2>1. \A k \in 0..(Size - 1) : c[k] # 0
    BY <1>0, <1>7 DEF BuiltinMiss, Narrowed, SearchTypeOK
  <2> QED
    BY <1>7, <2>1, SearchAssumption
    DEF BuiltinMiss, SearchTypeOK, Narrowed, Finds, Front, Ordered, Nothing
<1>8. CASE UNCHANGED searchVars
  BY <1>8 DEF searchVars, SearchTypeOK, Narrowed, Finds, Front, Ordered, IsVariable, IsBuiltin
<1> QED BY <1>1, <1>2, <1>3, <1>4, <1>5, <1>6, <1>7, <1>8 DEF SearchNext

(***************************************************************************)
(* Lookup and call together                                                *)
(***************************************************************************)

\* Until the call nothing but the lookup moves; the call is one of fac, ncr or npr with
\* arguments of its own.
LEMMA CallsAre == CallSpec => Calls /\ SearchInit /\ [][SearchNext]_searchVars
<1>1. CallInit => Init /\ SearchInit /\ (~called => Init)
  BY DEF CallInit, AtRest
<1>2. (~called => Init) /\ [CallNext]_callVars
        => /\ (~called => Init)'
           /\ [Next \/ Init']_vars
           /\ [SearchNext]_searchVars
  <2> SUFFICES ASSUME ~called => Init, [CallNext]_callVars
               PROVE  /\ (~called => Init)'
                      /\ [Next \/ Init']_vars
                      /\ [SearchNext]_searchVars
    OBVIOUS
  <2>1. CASE Search
    BY <2>1 DEF Search, vars, args, Init
  <2>2. CASE Call
    <3>1. Init'
      BY <2>2, EntryAssumption DEF Call, Init
    <3> QED BY <2>2, <3>1 DEF Call
  <2>3. CASE Compute
    BY <2>3 DEF Compute
  <2>4. CASE UNCHANGED callVars
    BY <2>4 DEF callVars, vars, args, Init
  <2> QED BY <2>1, <2>2, <2>3, <2>4 DEF CallNext
<1> QED BY <1>1, <1>2, PTL DEF CallSpec, Calls

\* The searches stay inside the table and the list of variables.
THEOREM SearchTypeCorrect == CallSpec => []SearchTypeOK
<1> QED BY CallsAre, SearchStarts, SearchStep, PTL

\* find_lookup and find_builtin find a name exactly when there is one, the program's
\* own variables first.
THEOREM FindsCorrect == CallSpec => []Finds
<1> QED BY CallsAre, SearchStarts, SearchStep, PTL

\* The loops of fac and ncr stay within unsigned long.
THEOREM NumTypeCorrect == CallSpec => []TypeOK
<1> QED BY CallsAre, NumTypeHolds, PTL

\* A finite result of fac, ncr or npr of numbers is the factorial, the binomial
\* coefficient or the number of arrangements up to the rounding of doubles, and
\* exactly where doubles hold every integer, whatever the word sizes are.
THEOREM NumExactCorrect == CallSpec => []NumExact
<1> QED BY CallsAre, NumExactHolds, PTL

\* No call of fac, ncr or npr divides by zero, for every pair of widths of int and
\* long, and where long is wider also when an argument is NaN.
THEOREM DivisorsNonzeroCorrect == CallSpec => []DivisorsNonzero
<1> QED BY CallsAre, DivisorsNonzeroHolds, PTL

\* fac, ncr and npr return infinity for numbers that unsigned int holds only when
\* the factorial, the last product of ncr's loop or the number of arrangements does
\* not fit unsigned long, whatever the two word sizes are.
THEOREM InfinityNeededCorrect == CallSpec => []InfinityNeeded
<1> QED BY CallsAre, InfinityNeededHolds, PTL

=============================================================================
