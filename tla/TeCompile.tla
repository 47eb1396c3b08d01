------------------------------ MODULE TeCompile ------------------------------
(***************************************************************************)
(* te_compile of tinyexpr (tinyexpr.c): the recursive descent parser       *)
(* next_token, base, power, factor, term, expr, list with its nodes on the *)
(* heap, any malloc of which may fail; then optimize, and te_free by the   *)
(* program that asked for the expression.                                  *)
(*                                                                         *)
(* The C call stack is the variable stack.  list, expr, term and factor    *)
(* have one shape, "operand { operator operand }", and are the four levels *)
(* of Chain.  The text is not given in advance: each next_token chooses    *)
(* the token that comes next, so that one run covers every text.           *)
(***************************************************************************)
EXTENDS Integers, Sequences, FiniteSets

CONSTANTS
  Tokens,     \* tokens the text may hold, besides its end
  MaxTokens,  \* bound: tokens of a text of all kinds
  Core,       \* the tokens of longer texts
  MaxCore     \* bound: tokens of a text of Core tokens only

VARIABLES
  tok,     \* s->type
  input,   \* the tokens next_token has delivered
  heap,    \* the nodes new_expr has allocated, in that order
  stack,   \* the parser's active calls
  callee,  \* the function being called when pc = "call"
  val,     \* what the last call returned
  pc,      \* what the innermost call does next
  oom,     \* some malloc has failed
  bad,     \* a node was freed twice, or a NULL parameter was followed
  root,    \* the compiled expression the program holds
  err      \* *error: 0, -1, or 1 for a position in the text

vars == <<tok, input, heap, stack, callee, val, pc, oom, bad, root, err>>
memory == <<heap, oom, bad>>
result == <<root, err>>

(***************************************************************************)
(* Tokens.  The functions are two builtins, pi-like "f0" and abs-like      *)
(* "f1", the builtin of two arguments "f2", and "g1", a function of the    *)
(* program that is not flagged pure.                                       *)
(***************************************************************************)
Arity == [f0 |-> 0, f1 |-> 1, f2 |-> 2, g1 |-> 1]
FunctionTokens == DOMAIN Arity
Impure == {"g1"}

AllTokens == {"num", "var", "add", "sub", "mul", "pow", "sep", "open", "close",
              "error"} \cup FunctionTokens

ASSUME TokenAssumption ==
  Core \subseteq Tokens /\ Tokens \subseteq AllTokens /\ MaxTokens \in Nat /\ MaxCore \in Nat

NIL == 0
Node(type, pure, params) == [type |-> type, pure |-> pure, params |-> params, live |-> TRUE]

Chain == {"list", "expr", "term", "factor"}

\* What each level calls for its operands, and the operators it loops on.
Sub == [list |-> "expr", expr |-> "term", term |-> "factor", factor |-> "power"]
Ops == [list |-> {"sep"}, expr |-> {"add", "sub"}, term |-> {"mul"}, factor |-> {"pow"}]

NodeId == 0..Len(heap)

\* A call: its function, the node it holds, and a counter (the argument being
\* parsed; in power, 1 if the sign is negative).
Frame == [fn : Chain \cup {"power", "base", "paren"}, ret : NodeId, i : Nat]

TypeOK ==
  /\ tok \in AllTokens \cup {"end"}
  /\ input \in Seq(AllTokens \cup {"end"})
  /\ \A n \in DOMAIN heap :
       /\ heap[n].type \in {"const", "var", "fun"}
       /\ heap[n].pure \in BOOLEAN /\ heap[n].live \in BOOLEAN
       /\ heap[n].params \in Seq(NodeId)
  /\ stack \in Seq(Frame)
  /\ callee \in Chain \cup {"power", "base"}
  /\ val \in NodeId /\ root \in NodeId
  /\ pc \in {"idle", "call", "back", "loop", "args", "close", "arg", "done", "over"}
  /\ oom \in BOOLEAN /\ bad \in BOOLEAN
  /\ err \in -1..1

Init ==
  /\ tok = "end" /\ input = <<>>
  /\ heap = <<>> /\ stack = <<>>
  /\ callee = "list" /\ val = NIL
  /\ pc = "idle"
  /\ oom = FALSE /\ bad = FALSE
  /\ root = NIL /\ err = 0

(***************************************************************************)
(* The heap                                                                *)
(***************************************************************************)
Children(h, n) == {h[n].params[k] : k \in DOMAIN h[n].params} \ {NIL}

\* The nodes that a walk from n visits which goes on only through some of them.
Closure(h, n, through) ==
  LET R[k \in 0..Len(h)] ==
        IF k = 0 THEN {n} \ {NIL}
        ELSE LET r == R[k - 1]
             IN r \cup UNION {Children(h, m) : m \in r \cap through}
  IN R[Len(h)]

\* The nodes of the expression n: what te_free visits.
Reach(h, n) == Closure(h, n, DOMAIN h)

\* How deep te_free, optimize and te_eval recurse into the expression n: each level
\* of it is one more call (two for te_free, with te_free_parameters).
Depth(h, n) ==
  LET L[k \in 0..Len(h)] ==
        IF k = 0 THEN {n} \ {NIL} ELSE UNION {Children(h, m) : m \in L[k - 1]}
  IN Cardinality({k \in 0..Len(h) : L[k] # {}})

\* The pointers to nodes that a set of nodes holds.
Pointers(h, nodes) ==
  UNION {{<<n, k, h[n].params[k]>> :
            k \in {j \in DOMAIN h[n].params : h[n].params[j] # NIL}} : n \in nodes}

\* te_free of each of a set of expressions; NULL is ignored.  A node that is dead
\* already, or hangs in two places, is freed twice.  The recursion is one step here; how
\* deep it goes is Depth.
Release(roots) ==
  LET nodes == UNION {Reach(heap, r) : r \in roots}
  IN /\ heap' = [n \in DOMAIN heap |-> [heap[n] EXCEPT !.live = @ /\ n \notin nodes]]
     /\ bad' = \/ bad
               \/ \E n \in nodes : ~heap[n].live
               \/ Cardinality(Pointers(heap, nodes)) + Cardinality(roots \ {NIL})
                    # Cardinality(nodes)

Free(roots) == Release(roots) /\ UNCHANGED oom

\* new_expr returns a node ...
Alloc(node) == heap' = Append(heap, node) /\ UNCHANGED <<oom, bad>>
New == Len(heap) + 1

\* ... or NULL, upon which every caller lets go of what it holds.
AllocFails(held) == Release(held) /\ oom' = TRUE

(***************************************************************************)
(* next_token, and calling and returning                                   *)
(***************************************************************************)
Permitted(text) == \/ Len(text) <= MaxTokens
                   \/ Len(text) <= MaxCore /\ \A k \in DOMAIN text : text[k] \in Core

NextToken ==
  /\ tok' \in {t \in Tokens : Permitted(Append(input, t))} \cup {"end"}
  /\ input' = Append(input, tok')

SetError == tok' = "error" /\ UNCHANGED input
KeepToken == UNCHANGED <<tok, input>>

Top == stack[Len(stack)]
Below == SubSeq(stack, 1, Len(stack) - 1)
InFrame(fns, step) == pc = step /\ stack # <<>> /\ Top.fn \in fns

Call(frames, fn) == stack' = frames /\ callee' = fn /\ pc' = "call" /\ val' = NIL
Continue(frame, step) == /\ stack' = Append(Below, frame) /\ pc' = step /\ val' = NIL
                         /\ UNCHANGED callee
Return(frames, n) == stack' = frames /\ val' = n /\ pc' = "back" /\ UNCHANGED callee

(***************************************************************************)
(* list, expr, term, factor                                                *)
(***************************************************************************)
EnterChain ==
  /\ pc = "call" /\ callee \in Chain
  /\ Call(Append(stack, [fn |-> callee, ret |-> NIL, i |-> 0]), Sub[callee])
  /\ KeepToken /\ UNCHANGED <<memory, result>>

\* Mutants: the first operand is not released, or is returned as if it were all.
ChainNullLeaks ==
  /\ InFrame(Chain, "back") /\ val = NIL
  /\ Return(Below, NIL)
  /\ KeepToken /\ UNCHANGED <<memory, result>>

ChainNullIgnored ==
  /\ InFrame(Chain, "back") /\ val = NIL
  /\ Return(Below, Top.ret)
  /\ KeepToken /\ UNCHANGED <<memory, result>>

\* CHECK_NULL: an operand could not be built.
ChainNull ==
  /\ InFrame(Chain, "back") /\ val = NIL
  /\ Free({Top.ret})
  /\ Return(Below, NIL)
  /\ KeepToken /\ UNCHANGED result

ChainFirst ==
  /\ InFrame(Chain, "back") /\ val # NIL /\ Top.ret = NIL
  /\ Continue([Top EXCEPT !.ret = val], "loop")
  /\ KeepToken /\ UNCHANGED <<memory, result>>

\* ret = NEW_EXPR(TE_FUNCTION2 | TE_FLAG_PURE, ret, p)
ChainJoin ==
  /\ InFrame(Chain, "back") /\ val # NIL /\ Top.ret # NIL
  /\ Alloc(Node("fun", TRUE, <<Top.ret, val>>))
  /\ Continue([Top EXCEPT !.ret = New], "loop")
  /\ KeepToken /\ UNCHANGED result

ChainJoinFails ==
  /\ InFrame(Chain, "back") /\ val # NIL /\ Top.ret # NIL
  /\ AllocFails({val, Top.ret})
  /\ Return(Below, NIL)
  /\ KeepToken /\ UNCHANGED result

\* Mutant: the right operand is parsed at the same level, as a grammar that is
\* right recursive would have it.
ChainMoreRecurses ==
  /\ InFrame(Chain, "loop") /\ tok \in Ops[Top.fn]
  /\ NextToken
  /\ Call(stack, Top.fn)
  /\ UNCHANGED <<memory, result>>

ChainMore ==
  /\ InFrame(Chain, "loop") /\ tok \in Ops[Top.fn]
  /\ NextToken
  /\ Call(stack, Sub[Top.fn])
  /\ UNCHANGED <<memory, result>>

ChainDone ==
  /\ InFrame(Chain, "loop") /\ tok \notin Ops[Top.fn]
  /\ Return(Below, Top.ret)
  /\ KeepToken /\ UNCHANGED <<memory, result>>

(***************************************************************************)
(* power                                                                   *)
(***************************************************************************)
EnterPower ==
  /\ pc = "call" /\ callee = "power"
  /\ stack' = Append(stack, [fn |-> "power", ret |-> NIL, i |-> 0])
  /\ pc' = "loop"
  /\ KeepToken /\ UNCHANGED <<memory, result, callee, val>>

\* Mutant: signs are not read over.
PowerSignStays ==
  /\ InFrame({"power"}, "loop") /\ tok \in {"add", "sub"}
  /\ Continue([Top EXCEPT !.i = IF tok = "sub" THEN 1 - @ ELSE @], "loop")
  /\ KeepToken /\ UNCHANGED <<memory, result>>

PowerSign ==
  /\ InFrame({"power"}, "loop") /\ tok \in {"add", "sub"}
  /\ NextToken
  /\ Continue([Top EXCEPT !.i = IF tok = "sub" THEN 1 - @ ELSE @], "loop")
  /\ UNCHANGED <<memory, result>>

PowerBase ==
  /\ InFrame({"power"}, "loop") /\ tok \notin {"add", "sub"}
  /\ Call(stack, "base")
  /\ KeepToken /\ UNCHANGED <<memory, result>>

PowerPlain ==
  /\ InFrame({"power"}, "back") /\ (val = NIL \/ Top.i = 0)
  /\ Return(Below, val)
  /\ KeepToken /\ UNCHANGED <<memory, result>>

\* Mutant: a node for the sign, whatever it is.
PowerNegateAlways ==
  /\ InFrame({"power"}, "back") /\ val # NIL
  /\ Alloc(Node("fun", TRUE, <<val>>))
  /\ Return(Below, New)
  /\ KeepToken /\ UNCHANGED result

PowerNegate ==
  /\ InFrame({"power"}, "back") /\ val # NIL /\ Top.i = 1
  /\ Alloc(Node("fun", TRUE, <<val>>))
  /\ Return(Below, New)
  /\ KeepToken /\ UNCHANGED result

PowerNegateFails ==
  /\ InFrame({"power"}, "back") /\ val # NIL /\ Top.i = 1
  /\ AllocFails({val})
  /\ Return(Below, NIL)
  /\ KeepToken /\ UNCHANGED result

(***************************************************************************)
(* base                                                                    *)
(***************************************************************************)
InBase == pc = "call" /\ callee = "base"

BaseLeaf ==
  /\ InBase /\ tok \in {"num", "var"}
  /\ Alloc(Node(IF tok = "num" THEN "const" ELSE "var", FALSE, <<>>))
  /\ NextToken
  /\ Return(stack, New)
  /\ UNCHANGED result

\* A function: its node comes first, its parameters are NULL until parsed.
BaseFunction ==
  /\ InBase /\ tok \in FunctionTokens
  /\ Alloc(Node("fun", tok \notin Impure, [k \in 1..Arity[tok] |-> NIL]))
  /\ NextToken
  /\ LET frames == Append(stack, [fn |-> "base", ret |-> New, i |-> 0])
     IN IF Arity[tok] = 1 THEN Call(frames, "power")
        ELSE stack' = frames /\ pc' = "args" /\ UNCHANGED <<callee, val>>
  /\ UNCHANGED result

BaseOpen ==
  /\ InBase /\ tok = "open"
  /\ NextToken
  /\ Call(Append(stack, [fn |-> "paren", ret |-> NIL, i |-> 0]), "list")
  /\ UNCHANGED <<memory, result>>

\* Anything else is an error, carried by a node of its own.
BaseDefault ==
  /\ InBase /\ tok \notin {"num", "var", "open"} \cup FunctionTokens
  /\ Alloc(Node("var", FALSE, <<>>))
  /\ SetError
  /\ Return(stack, New)
  /\ UNCHANGED result

BaseFails ==
  /\ InBase /\ tok # "open"
  /\ AllocFails({})
  /\ Return(stack, NIL)
  /\ KeepToken /\ UNCHANGED result

\* <function-0> may be followed by "()".
NoArgs ==
  /\ InFrame({"base"}, "args") /\ heap[Top.ret].params = <<>>
  /\ IF tok = "open" THEN NextToken /\ Continue(Top, "close")
     ELSE KeepToken /\ Return(Below, Top.ret)
  /\ UNCHANGED <<memory, result>>

\* Mutant: whatever follows "(" is taken for ")".
NoArgsUnchecked ==
  /\ InFrame({"base"}, "close")
  /\ NextToken
  /\ Return(Below, Top.ret)
  /\ UNCHANGED <<memory, result>>

NoArgsClose ==
  /\ InFrame({"base"}, "close")
  /\ IF tok = "close" THEN NextToken ELSE SetError
  /\ Return(Below, Top.ret)
  /\ UNCHANGED <<memory, result>>

\* Mutant: a missing "(" is no error.
ArgsOptional ==
  /\ InFrame({"base"}, "args") /\ heap[Top.ret].params # <<>>
  /\ IF tok = "open" THEN Continue(Top, "arg") ELSE Return(Below, Top.ret)
  /\ KeepToken /\ UNCHANGED <<memory, result>>

\* <function-X> "(" <expr> {"," <expr>} ")"
Args ==
  /\ InFrame({"base"}, "args") /\ heap[Top.ret].params # <<>>
  /\ IF tok = "open" THEN KeepToken /\ Continue(Top, "arg")
     ELSE SetError /\ Return(Below, Top.ret)
  /\ UNCHANGED <<memory, result>>

Arg ==
  /\ InFrame({"base"}, "arg")
  /\ NextToken
  /\ Call(stack, "expr")
  /\ UNCHANGED <<memory, result>>

ArgNull ==
  /\ InFrame({"base"}, "back") /\ val = NIL
  /\ Free({Top.ret})
  /\ Return(Below, NIL)
  /\ KeepToken /\ UNCHANGED result

\* Mutant: the number of arguments is not checked.
ArgsTooFew ==
  /\ InFrame({"base"}, "back") /\ val # NIL
  /\ heap' = [heap EXCEPT ![Top.ret].params[Top.i + 1] = val]
  /\ LET arity == Len(heap[Top.ret].params)
     IN IF arity = 1 THEN KeepToken /\ Return(Below, Top.ret)
        ELSE IF tok = "sep" /\ Top.i + 1 < arity
        THEN KeepToken /\ Continue([Top EXCEPT !.i = @ + 1], "arg")
        ELSE /\ IF tok = "close" THEN NextToken ELSE SetError
             /\ Return(Below, Top.ret)
  /\ UNCHANGED <<oom, bad, result>>

\* An argument is attached; the loop goes on after a separator, and the list must
\* end with ")" at the last parameter.
ArgAttached ==
  /\ InFrame({"base"}, "back") /\ val # NIL
  /\ heap' = [heap EXCEPT ![Top.ret].params[Top.i + 1] = val]
  /\ LET arity == Len(heap[Top.ret].params)
     IN IF arity = 1 THEN KeepToken /\ Return(Below, Top.ret)
        ELSE IF tok = "sep" /\ Top.i + 1 < arity
        THEN KeepToken /\ Continue([Top EXCEPT !.i = @ + 1], "arg")
        ELSE /\ IF tok = "close" /\ Top.i + 1 = arity THEN NextToken ELSE SetError
             /\ Return(Below, Top.ret)
  /\ UNCHANGED <<oom, bad, result>>

ParenBack ==
  /\ InFrame({"paren"}, "back")
  /\ IF val = NIL THEN KeepToken
     ELSE IF tok = "close" THEN NextToken ELSE SetError
  /\ Return(Below, val)
  /\ UNCHANGED <<memory, result>>

(***************************************************************************)
(* optimize: it descends through pure functions, and turns a function all  *)
(* of whose parameters have become constants into a constant.              *)
(***************************************************************************)
Known(h, n) == \A m \in Reach(h, n) : h[m].type = "const" \/ h[m].pure

Visited(h, n) == Closure(h, n, {m \in DOMAIN h : h[m].pure})

\* Mutant: a function is folded when its parameters are known, flagged pure or not.
FoldedAny(h, n) == {m \in Visited(h, n) : /\ h[m].type = "fun"
                                          /\ \A c \in Children(h, m) : Known(h, c)}

Folded(h, n) == {m \in Visited(h, n) : h[m].pure /\ Known(h, m)}

\* The recursion is one step here as well; it goes as deep as Depth of the expression.
Optimize(n) ==
  LET folded == Folded(heap, n)
      below  == UNION {Reach(heap, c) : c \in UNION {Children(heap, m) : m \in folded}}
  IN /\ heap' = [m \in DOMAIN heap |->
                   IF m \in below THEN [heap[m] EXCEPT !.live = FALSE]
                   ELSE IF m \in folded THEN Node("const", FALSE, <<>>)
                   ELSE heap[m]]
     /\ bad' = (bad \/ \E m \in Visited(heap, n) :
                         \/ ~heap[m].live
                         \/ heap[m].pure /\ NIL \in {heap[m].params[k] :
                                                     k \in DOMAIN heap[m].params})
     /\ UNCHANGED oom

(***************************************************************************)
(* te_compile and the program                                              *)
(***************************************************************************)
Compile ==
  /\ pc = "idle"
  /\ NextToken
  /\ Call(<<>>, "list")
  /\ UNCHANGED <<memory, result>>

Returned == pc = "back" /\ stack = <<>>

CompileNull ==
  /\ Returned /\ val = NIL
  /\ err' = -1
  /\ pc' = "done"
  /\ UNCHANGED <<tok, input, memory, stack, callee, val, root>>

CompileError ==
  /\ Returned /\ val # NIL /\ tok # "end"
  /\ Free({val})
  /\ err' = 1
  /\ val' = NIL
  /\ pc' = "done"
  /\ UNCHANGED <<tok, input, stack, callee, root>>

CompileOk ==
  /\ Returned /\ val # NIL /\ tok = "end"
  /\ Optimize(val)
  /\ root' = val
  /\ val' = NIL
  /\ err' = 0
  /\ pc' = "done"
  /\ UNCHANGED <<tok, input, stack, callee>>

\* "if (n) { te_eval(n); te_free(n); }", the end of te_interp and of the examples.
FreeExpr ==
  /\ pc = "done"
  /\ Free({root})
  /\ root' = NIL
  /\ pc' = "over"
  /\ UNCHANGED <<tok, input, stack, callee, val, err>>

Next == \/ Compile
        \/ EnterChain \/ ChainNull \/ ChainFirst \/ ChainJoin \/ ChainJoinFails
        \/ ChainMore \/ ChainDone
        \/ EnterPower \/ PowerSign \/ PowerBase \/ PowerPlain
        \/ PowerNegate \/ PowerNegateFails
        \/ BaseLeaf \/ BaseFunction \/ BaseOpen \/ BaseDefault \/ BaseFails
        \/ NoArgs \/ NoArgsClose \/ Args \/ Arg \/ ArgNull \/ ArgAttached \/ ParenBack
        \/ CompileNull \/ CompileError \/ CompileOk \/ FreeExpr

\* Sequential code: it runs on.
Spec == Init /\ [][Next]_vars /\ WF_vars(Next)

(***************************************************************************)
(* Properties                                                              *)
(***************************************************************************)
Live == {n \in DOMAIN heap : heap[n].live}

\* Every node that was allocated and not freed belongs to exactly one holder: a
\* call that will attach, return or free it, the value being returned, or the
\* program.  Whichever malloc fails, whatever the text, nothing is leaked, and
\* the CHECK_NULL paths never free what somebody else still holds; and nothing is
\* freed twice or followed through NULL, although a syntax error leaves functions
\* with parameters that were never parsed.
Holders == Pointers(heap, Live)
             \cup {<<0, k, stack[k].ret>> : k \in {j \in DOMAIN stack : stack[j].ret # NIL}}
             \cup {x \in {<<0, 0, val>>, <<0, -1, root>>} : x[3] # NIL}

Owned == /\ {x[3] : x \in Holders} = Live
         /\ Cardinality(Holders) = Cardinality(Live)
         /\ ~bad

\* TOK_ERROR is final: no function of the parser reads another token once it is
\* set, so that te_compile sees it and refuses the text.
ErrorSticky == [][tok = "error" => UNCHANGED <<tok, input>>]_vars

\* An expression that te_compile returns is complete: no parameter is NULL where
\* te_eval would follow it.
Complete == root # NIL =>
              \A n \in Reach(heap, root) :
                heap[n].live /\ NIL \notin {heap[n].params[k] : k \in DOMAIN heap[n].params}

\* What is not pure is left to te_eval: optimize folds no call of a function of the
\* program, nor a function above one, so the expression that te_compile returns
\* holds as many of these calls as the text.
ImpureSurvives == root # NIL =>
                    Cardinality({n \in Reach(heap, root) : heap[n].type = "fun" /\ ~heap[n].pure})
                      = Cardinality({k \in DOMAIN input : input[k] \in Impure})

\* The parser's own recursion follows the parentheses that are open and the functions,
\* never the length of the text: operators and signs are loops.  This is the descent
\* only; the walks over what it built are WalkBound's.
Count(text, tokens) == Cardinality({k \in DOMAIN text : text[k] \in tokens})

DescentBound ==
  pc \in {"idle", "done", "over"}
    \/ LET read == SubSeq(input, 1, Len(input) - 1)
       IN Len(stack) <= 5 + 6 * (Count(input, {"open"}) - Count(read, {"close"}))
                          + 2 * Count(input, FunctionTokens)

\* te_free, which the parser calls on every error path, and optimize, te_eval and te_free
\* after it recurse into an expression: one level for each operator, sign and function of
\* the text at most, in parts of expressions too.  A chain a+a+...+a reaches the bound, so
\* that here the C stack does grow with the length of the text.
InnerTokens == (UNION {Ops[c] : c \in Chain}) \cup {f \in FunctionTokens : Arity[f] > 0}

Expressions == ({stack[k].ret : k \in DOMAIN stack} \cup {val, root}) \ {NIL}

WalkBound == \A n \in Expressions : Depth(heap, n) <= 1 + Count(input, InnerTokens)

\* *error tells the program what happened: -1 exactly when memory ran out, which
\* is never taken for a syntax error or a success.
ErrorCode == pc = "done" => /\ (err = -1) = oom
                            /\ (err = 0) = (root # NIL)

\* Compilation comes to an end and leaves nothing behind.
Ends == <>(pc = "over" /\ Live = {})

=============================================================================
