------------------------------ MODULE MCTeCall ------------------------------
(***************************************************************************)
(* TeCall on the real table: names to look up are the builtins, their      *)
(* beginnings, and the builtins with a character more.  SearchAssumption   *)
(* then says that the table is in the order the search needs.  Factorials, *)
(* binomial coefficients and the spacing of doubles for what is called.    *)
(***************************************************************************)
EXTENDS TeCall, TeNames

Texts == {functions[f] : f \in DOMAIN functions}
           \cup UNION {{SubSeq(functions[f], 1, k) : k \in 1..Len(functions[f])} :
                       f \in DOMAIN functions}
           \cup {Append(functions[f], x) : f \in DOMAIN functions, x \in {"0", "_", "m"}}

TableComparisons ==
  {[k \in 0..(Len(functions) - 1) |-> Compare(name, functions[k + 1])] : name \in Texts}

IndexOf(name) == CHOOSE k \in 0..(Len(functions) - 1) : functions[k + 1] = name

TableEntry == [fac |-> IndexOf(<<"f", "a", "c">>),
               ncr |-> IndexOf(<<"n", "c", "r">>),
               npr |-> IndexOf(<<"n", "p", "r">>)]

FactTable[k \in Numbers] == IF k = 0 THEN 1 ELSE k * FactTable[k - 1]

\* Pascal's triangle.
Pascal[x \in Numbers \X Numbers] ==
  IF x[2] = 0 THEN 1
  ELSE IF x[1] = 0 THEN 0
  ELSE Pascal[<<x[1] - 1, x[2] - 1>>] + Pascal[<<x[1] - 1, x[2]>>]

BinomTable == [m \in Numbers |-> [k \in Numbers |-> Pascal[<<m, k>>]]]

PowersOfTwo == {2^k : k \in 0..11}

=============================================================================
