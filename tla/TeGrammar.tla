----------------------------- MODULE TeGrammar -----------------------------
(***************************************************************************)
(* The language of tinyexpr, generated from the grammar that the comments  *)
(* of base, power, factor, term, expr and list give, against which the     *)
(* parser of TeCompile is checked.                                         *)
(***************************************************************************)
EXTENDS TeCompile

MaxText == IF MaxCore > MaxTokens THEN MaxCore ELSE MaxTokens

Functions(arity) == {f \in FunctionTokens : Arity[f] = arity}

\* Sets of texts: of one token, and of a text of A followed by one of B.
Letters(tokens) == {<<t>> : t \in tokens}
Cat(A, B) == {u \o v : u \in A, v \in B}

\* The texts of n tokens that each function of the parser is to read, where W has
\* those of fewer tokens.
\*
\* <base> = <constant> | <variable> | <function-0> {"(" ")"} | <function-1> <power>
\*        | <function-X> "(" <expr> {"," <expr>} ")" | "(" <list> ")"
\* The braces after <function-0> are read as "at most once".
Parens(texts) == Cat(Letters({"open"}), Cat(texts, Letters({"close"})))
Pair(first, second) == Parens(Cat(first, Cat(Letters({"sep"}), second)))

BaseWords(W, n) ==
  {v \in Letters({"num", "var"} \cup Functions(0)) : n = 1}
  \cup {v \in Cat(Letters(Functions(0)), Cat(Letters({"open"}), Letters({"close"}))) : n = 3}
  \cup Cat(Letters(Functions(1)), W[n - 1].power)
  \cup (UNION {Parens(W[k].list) : k \in {n - 2} \cap Nat})
  \cup UNION {Cat(Letters(Functions(2)), Pair(W[k].expr, W[n - 4 - k].expr)) : k \in 1..(n - 5)}

\* <power> = {("-" | "+")} <base>
PowerWords(W, n) == BaseWords(W, n) \cup Cat(Letters({"add", "sub"}), W[n - 1].power)

\* <factor>, <term>, <expr> and <list> are an operand, and an operator and the same
\* again any number of times; operands are the operands of n tokens.
ChainWords(fn, operands, W, n) ==
  operands \cup UNION {Cat(W[k][Sub[fn]], Cat(Letters(Ops[fn]), W[n - 1 - k][fn])) : k \in 1..(n - 2)}

Level(W, n) ==
  LET power  == PowerWords(W, n)
      factor == ChainWords("factor", power, W, n)
      term   == ChainWords("term", factor, W, n)
      expr   == ChainWords("expr", term, W, n)
  IN [power |-> power, factor |-> factor, term |-> term, expr |-> expr,
      list |-> ChainWords("list", expr, W, n), base |-> BaseWords(W, n)]

\* The texts of up to n tokens, by their length.
Words[n \in 0..MaxText] ==
  IF n = 0 THEN [k \in {0} |-> [fn \in Chain \cup {"power", "base"} |-> {}]]
  ELSE LET W == Words[n - 1]
       IN [k \in 0..n |-> IF k = n THEN Level(W, n) ELSE W[k]]

\* The texts of the grammar, within the bounds.
Sentences == {w \in UNION {Words[MaxText][n].list : n \in 0..MaxText} : Permitted(w)}

\* What a text may start with, the end of the text included.
Viable == UNION {LET t == Append(w, "end") IN {SubSeq(t, 1, k) : k \in 0..Len(t)} :
                 w \in Sentences}

\* te_compile accepts only texts of the grammar in its comments, and gives up only
\* at a token that no text of the grammar (within the bounds) has there.
AcceptsGrammar ==
  pc = "done" /\ ~oom
    => IF err = 0 THEN /\ tok = "end"
                       /\ SubSeq(input, 1, Len(input) - 1) \in Sentences
       ELSE input \notin Viable

=============================================================================
