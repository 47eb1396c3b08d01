--------------------------- MODULE TeCompileProofs ---------------------------
(***************************************************************************)
(* te_compile for texts of any length and whichever malloc fails.  In this *)
(* order: the error token is final; *error tells the program what          *)
(* happened; walks through the heap; every node has one owner and a        *)
(* compiled expression is complete; calls that are not pure survive        *)
(* optimize; the depth of the parser's recursion, and of the walks over    *)
(* what it built; what te_compile accepts is the grammar of its comments.  *)
(***************************************************************************)
EXTENDS TeGrammar, FiniteSetTheorems, FunctionTheorems, SequenceTheorems, WellFoundedInduction, TLAPS

\* Where next_token is called without a test of the token just before it: at the
\* start of te_compile, and in the loop over the arguments, which is entered
\* with "(" and goes on only after ",".
Reads ==
  /\ pc = "idle" => tok = "end"
  /\ pc = "arg" => tok \in {"open", "sep"}

\* Init establishes Reads: te_compile starts with no token read.
LEMMA ReadsInit == Init => Reads
  BY DEF Init, Reads

\* Every step keeps Reads.  Only two of them, Args and ArgAttached, enter the
\* loop over the arguments, and none goes back to the start.
LEMMA ReadsStep == Reads /\ [Next]_vars => Reads'
<1> SUFFICES ASSUME Reads, [Next]_vars PROVE Reads'
  OBVIOUS
<1>1. CASE Compile
  BY <1>1 DEF Compile, Call, Reads
<1>2. CASE EnterChain \/ ChainNull \/ ChainFirst \/ ChainJoin \/ ChainJoinFails
           \/ ChainMore \/ ChainDone
  BY <1>2 DEF EnterChain, ChainNull, ChainFirst, ChainJoin, ChainJoinFails, ChainMore,
              ChainDone, Call, Continue, Return, Reads
<1>3. CASE EnterPower \/ PowerSign \/ PowerBase \/ PowerPlain \/ PowerNegate
           \/ PowerNegateFails
  BY <1>3 DEF EnterPower, PowerSign, PowerBase, PowerPlain, PowerNegate, PowerNegateFails,
              Call, Continue, Return, Reads
<1>4. CASE BaseLeaf \/ BaseFunction \/ BaseOpen \/ BaseDefault \/ BaseFails
  BY <1>4 DEF BaseLeaf, BaseFunction, BaseOpen, BaseDefault, BaseFails, Call, Return, Reads
<1>5. CASE NoArgs \/ NoArgsClose \/ Arg \/ ArgNull \/ ParenBack
  BY <1>5 DEF NoArgs, NoArgsClose, Arg, ArgNull, ParenBack, Call, Continue, Return, Reads
<1>6. CASE Args
  BY <1>6 DEF Args, Continue, Return, KeepToken, Reads
<1>7. CASE ArgAttached
  BY <1>7 DEF ArgAttached, Continue, Return, KeepToken, Reads
<1>8. CASE CompileNull \/ CompileError \/ CompileOk \/ FreeExpr
  BY <1>8 DEF CompileNull, CompileError, CompileOk, FreeExpr, Reads
<1>9. CASE UNCHANGED vars
  BY <1>9 DEF vars, Reads
<1> QED
  BY <1>1, <1>2, <1>3, <1>4, <1>5, <1>6, <1>7, <1>8, <1>9 DEF Next

\* Under Reads no step reads a token after an error: the other calls of
\* next_token follow a test of the token, and s->type = TOK_ERROR changes nothing.
LEMMA StickyStep == Reads /\ [Next]_vars /\ tok = "error" => UNCHANGED <<tok, input>>
<1> SUFFICES ASSUME Reads, [Next]_vars, tok = "error" PROVE UNCHANGED <<tok, input>>
  OBVIOUS
<1>1. CASE Compile
  BY <1>1 DEF Compile, Reads
<1>2. CASE EnterChain \/ ChainNull \/ ChainFirst \/ ChainJoin \/ ChainJoinFails
           \/ ChainDone
  BY <1>2 DEF EnterChain, ChainNull, ChainFirst, ChainJoin, ChainJoinFails, ChainDone,
              KeepToken
<1>3. CASE ChainMore
  BY <1>3 DEF ChainMore, InFrame, Chain, Ops
<1>4. CASE EnterPower \/ PowerSign \/ PowerBase \/ PowerPlain \/ PowerNegate
           \/ PowerNegateFails
  BY <1>4 DEF EnterPower, PowerSign, PowerBase, PowerPlain, PowerNegate, PowerNegateFails,
              KeepToken
<1>5. CASE BaseLeaf \/ BaseFunction \/ BaseOpen \/ BaseDefault \/ BaseFails
  BY <1>5 DEF BaseLeaf, BaseFunction, BaseOpen, BaseDefault, BaseFails, KeepToken, SetError,
              FunctionTokens, Arity
<1>6. CASE NoArgs \/ NoArgsClose \/ Args \/ ArgNull \/ ParenBack
  BY <1>6 DEF NoArgs, NoArgsClose, Args, ArgNull, ParenBack, KeepToken, SetError
<1>7. CASE Arg
  BY <1>7 DEF Arg, InFrame, Reads
<1>8. CASE ArgAttached
  BY <1>8 DEF ArgAttached, KeepToken, SetError
<1>9. CASE CompileNull \/ CompileError \/ CompileOk \/ FreeExpr
  BY <1>9 DEF CompileNull, CompileError, CompileOk, FreeExpr
<1>10. CASE UNCHANGED vars
  BY <1>10 DEF vars
<1> QED
  BY <1>1, <1>2, <1>3, <1>4, <1>5, <1>6, <1>7, <1>8, <1>9, <1>10 DEF Next

\* TOK_ERROR is final, for texts of any length: no function of the parser reads on
\* once it is set, so that te_compile sees it and refuses the text.
THEOREM ErrorStickyCorrect == Spec => ErrorSticky
<1>1. Init => Reads
  BY ReadsInit
<1>2. Reads /\ [Next]_vars => Reads'
  BY ReadsStep
<1>3. Reads /\ [Next]_vars => [tok = "error" => UNCHANGED <<tok, input>>]_vars
  BY StickyStep
<1> QED
  BY <1>1, <1>2, <1>3, PTL DEF Spec, ErrorSticky

(***************************************************************************)
(* The calls of the parser                                                 *)
(***************************************************************************)

\* The rest of a sequence without its last element.
LEMMA Pop ==
  ASSUME NEW F, NEW s \in Seq(F), s # <<>>
  PROVE  /\ SubSeq(s, 1, Len(s) - 1) \in Seq(F)
         /\ Len(s) \in Nat /\ Len(s) > 0 /\ s[Len(s)] \in F
         /\ Len(SubSeq(s, 1, Len(s) - 1)) = Len(s) - 1
         /\ \A k \in 1..(Len(s) - 1) : SubSeq(s, 1, Len(s) - 1)[k] = s[k]
<1>1. Len(s) \in Nat /\ Len(s) > 0
  OBVIOUS
<1>2. s[Len(s)] \in F
  BY <1>1
<1>3. 1 \in Int /\ Len(s) - 1 \in Int /\ \A k \in 1..(Len(s) - 1) : s[k] \in F
  BY <1>1
<1>4. /\ SubSeq(s, 1, Len(s) - 1) \in Seq(F)
      /\ Len(SubSeq(s, 1, Len(s) - 1)) = IF 1 <= Len(s) - 1 THEN Len(s) - 1 - 1 + 1 ELSE 0
      /\ \A k \in 1..(Len(s) - 1 - 1 + 1) : SubSeq(s, 1, Len(s) - 1)[k] = s[1 + k - 1]
  BY <1>3, SubSeqProperties
<1>5. Len(SubSeq(s, 1, Len(s) - 1)) = Len(s) - 1
  <2>1. \A n \in Nat : n > 0 => (IF 1 <= n - 1 THEN n - 1 - 1 + 1 ELSE 0) = n - 1
    OBVIOUS
  <2> QED BY <1>1, <1>4, <2>1, Zenon
<1>6. \A k \in 1..(Len(s) - 1) : 1 + k - 1 = k /\ k \in 1..(Len(s) - 1 - 1 + 1)
  BY <1>1
<1> QED BY <1>1, <1>2, <1>4, <1>5, <1>6

\* A sequence with one more element.
LEMMA Push ==
  ASSUME NEW F, NEW s \in Seq(F), NEW x \in F
  PROVE  /\ Append(s, x) \in Seq(F)
         /\ Len(s) \in Nat /\ Len(Append(s, x)) = Len(s) + 1
         /\ Append(s, x)[Len(s) + 1] = x
         /\ \A k \in 1..Len(s) : Append(s, x)[k] = s[k]
  OBVIOUS

NodeSet == [type : {"const", "var", "fun"}, pure : BOOLEAN, params : Seq(Nat), live : BOOLEAN]

\* A call of base holds the node of its function, a call of power or of base in
\* parentheses holds none; power's counter is its sign.
CallSet ==
  {f \in [fn : Chain \cup {"power", "base", "paren"}, ret : Nat, i : Nat] :
     /\ f.fn = "base" => f.ret # NIL
     /\ f.fn \in {"power", "paren"} => f.ret = NIL
     /\ f.fn = "power" => f.i \in {0, 1}}

\* The parser's control: what each call holds, and that nothing is returned or held
\* by the program but at the points where it is.
Control ==
  /\ tok \in AllTokens \cup {"end"} /\ input \in Seq(AllTokens \cup {"end"})
  /\ heap \in Seq(NodeSet)
  /\ stack \in Seq(CallSet)
  /\ callee \in Chain \cup {"power", "base"}
  /\ val \in Nat /\ root \in Nat
  /\ pc \in {"idle", "call", "back", "loop", "args", "close", "arg", "done", "over"}
  /\ oom \in BOOLEAN /\ bad \in BOOLEAN
  /\ err \in -1..1
  /\ pc = "loop" => stack # <<>> /\ (Top.fn \in Chain => Top.ret # NIL)
  /\ pc # "back" => val = NIL
  /\ root # NIL => pc = "done"
  /\ pc \in {"idle", "done", "over"} => stack = <<>>

\* Before te_compile there are no calls and no nodes.
LEMMA ControlInit == Init => Control
<1> SUFFICES ASSUME Init PROVE Control
  OBVIOUS
<1>1. input \in Seq(AllTokens \cup {"end"}) /\ heap \in Seq(NodeSet) /\ stack \in Seq(CallSet)
  BY DEF Init
<1>2. tok \in AllTokens \cup {"end"} /\ val = 0 /\ root = 0 /\ err \in -1..1
  BY DEF Init, NIL
<1>3. oom \in BOOLEAN /\ bad \in BOOLEAN
  BY DEF Init
<1>4. pc = "idle" /\ stack = <<>> /\ callee \in Chain \cup {"power", "base"}
  BY DEF Init, Chain
<1> QED BY <1>1, <1>2, <1>3, <1>4 DEF Control, NIL

\* A token that is read is a token.
LEMMA TokenRead ==
  ASSUME Control
  PROVE  /\ NextToken => tok' \in AllTokens \cup {"end"} /\ input' \in Seq(AllTokens \cup {"end"})
         /\ SetError => tok' \in AllTokens \cup {"end"} /\ input' \in Seq(AllTokens \cup {"end"})
         /\ KeepToken => tok' \in AllTokens \cup {"end"} /\ input' \in Seq(AllTokens \cup {"end"})
<1>1. ASSUME NextToken PROVE tok' \in AllTokens \cup {"end"} /\ input' \in Seq(AllTokens \cup {"end"})
  BY <1>1, TokenAssumption DEF NextToken, Control
<1>2. ASSUME SetError PROVE tok' \in AllTokens \cup {"end"} /\ input' \in Seq(AllTokens \cup {"end"})
  BY <1>2 DEF SetError, Control, AllTokens
<1> QED BY <1>1, <1>2 DEF KeepToken, Control

\* The heap keeps its shape when nodes are freed, added, filled in or folded.
LEMMA HeapKept ==
  ASSUME Control
  PROVE  /\ \A roots : Release(roots) => heap' \in Seq(NodeSet) /\ bad' \in BOOLEAN
         /\ \A x \in NodeSet : Alloc(x) => heap' \in Seq(NodeSet)
         /\ \A n, k \in Nat : heap' = [heap EXCEPT ![n].params[k] = val] => heap' \in Seq(NodeSet)
         /\ \A n : Optimize(n) => heap' \in Seq(NodeSet) /\ bad' \in BOOLEAN
<1> USE DEF Control
<1>0. heap \in Seq(NodeSet) /\ val \in Nat /\ Len(heap) \in Nat /\ DOMAIN heap = 1..Len(heap)
      /\ \A n \in DOMAIN heap : heap[n] \in NodeSet
  OBVIOUS
<1>s. \A g : g = [n \in DOMAIN heap |-> g[n]] /\ (\A n \in DOMAIN heap : g[n] \in NodeSet)
             => g \in Seq(NodeSet)
  BY <1>0
<1>1. ASSUME NEW roots, Release(roots) PROVE heap' \in Seq(NodeSet) /\ bad' \in BOOLEAN
  <2>1. \A n \in DOMAIN heap : \A b \in BOOLEAN : [heap[n] EXCEPT !.live = b] \in NodeSet
    BY <1>0 DEF NodeSet
  <2>2. \A n \in DOMAIN heap : heap[n].live \in BOOLEAN
    BY <1>0 DEF NodeSet
  <2> QED BY <1>1, <1>s, <2>1, <2>2 DEF Release
<1>2. ASSUME NEW x \in NodeSet, Alloc(x) PROVE heap' \in Seq(NodeSet)
  BY <1>2, <1>0 DEF Alloc
<1>3. ASSUME NEW n \in Nat, NEW k \in Nat, heap' = [heap EXCEPT ![n].params[k] = val]
      PROVE heap' \in Seq(NodeSet)
  <2>0. \A m \in DOMAIN heap : [heap[m].params EXCEPT ![k] = val] \in Seq(Nat)
    <3>1. ASSUME NEW p \in Seq(Nat) PROVE [p EXCEPT ![k] = val] \in Seq(Nat)
      <4>1. Len(p) \in Nat /\ DOMAIN p = 1..Len(p) /\ p \in [1..Len(p) -> Nat]
        OBVIOUS
      <4>2. [p EXCEPT ![k] = val] \in [1..Len(p) -> Nat]
        BY <4>1, <1>0
      <4> QED BY <4>1, <4>2
    <3> QED BY <1>0, <3>1 DEF NodeSet
  <2>1. \A m \in DOMAIN heap : [heap[m] EXCEPT !.params[k] = val] \in NodeSet
    <3> TAKE m \in DOMAIN heap
    <3>1. [heap[m].params EXCEPT ![k] = val] \in Seq(Nat) /\ heap[m] \in NodeSet
      BY <1>0, <2>0
    <3>2. \A x \in NodeSet : \A q \in Seq(Nat) : [x EXCEPT !.params = q] \in NodeSet
      BY DEF NodeSet
    <3> QED BY <3>1, <3>2
  <2> QED BY <1>3, <1>0, <1>s, <2>1
<1>4. ASSUME NEW n, Optimize(n) PROVE heap' \in Seq(NodeSet) /\ bad' \in BOOLEAN
  <2>1. \A m \in DOMAIN heap : [heap[m] EXCEPT !.live = FALSE] \in NodeSet
    BY <1>0 DEF NodeSet
  <2>2. Node("const", FALSE, <<>>) \in NodeSet
    BY DEF Node, NodeSet
  <2> QED BY <1>4, <1>s, <1>0, <2>1, <2>2 DEF Optimize
<1> QED BY <1>1, <1>2, <1>3, <1>4

\* A call that ends, one that goes on, and one that starts.
LEMMA Pops ==
  ASSUME Control, stack # <<>>
  PROVE  /\ Top \in CallSet /\ Below \in Seq(CallSet)
         /\ Len(stack) \in Nat /\ Len(stack) > 0 /\ Len(Below) = Len(stack) - 1
         /\ \A k \in 1..(Len(stack) - 1) : Below[k] = stack[k]
  BY Pop DEF Control, Top, Below

\* A call that goes on keeps its place: only the innermost one changes.
LEMMA Goes ==
  ASSUME Control, stack # <<>>, NEW f \in CallSet, NEW step, Continue(f, step)
  PROVE  /\ stack' \in Seq(CallSet) /\ Len(stack') = Len(stack) /\ stack' # <<>>
         /\ Top' = f /\ \A k \in 1..(Len(stack) - 1) : stack'[k] = stack[k]
<1>1. /\ Below \in Seq(CallSet)
      /\ Len(stack) \in Nat /\ Len(stack) > 0 /\ Len(Below) = Len(stack) - 1
      /\ \A k \in 1..(Len(stack) - 1) : Below[k] = stack[k]
  BY Pops
<1>2. stack' = Append(Below, f)
  BY DEF Continue
<1>3. /\ Append(Below, f) \in Seq(CallSet) /\ Len(Append(Below, f)) = Len(Below) + 1
      /\ Append(Below, f)[Len(Below) + 1] = f
      /\ \A k \in 1..Len(Below) : Append(Below, f)[k] = Below[k]
  BY <1>1, Push
<1>4. Len(Below) + 1 = Len(stack)
  BY <1>1
<1>5. stack' \in Seq(CallSet) /\ Len(stack') = Len(stack) /\ stack'[Len(stack')] = f
  BY <1>2, <1>3, <1>4
<1>6. stack' # <<>>
  <2> SUFFICES ASSUME stack' = <<>> PROVE FALSE
    OBVIOUS
  <2> QED BY <1>1, <1>5
<1>7. \A k \in 1..(Len(stack) - 1) : stack'[k] = stack[k]
  BY <1>1, <1>2, <1>3
<1> QED BY <1>5, <1>6, <1>7 DEF Top

\* A call that starts lies above the ones there were.
LEMMA Starts ==
  ASSUME Control, NEW f \in CallSet
  PROVE  /\ Append(stack, f) \in Seq(CallSet) /\ Append(stack, f) # <<>>
         /\ Len(stack) \in Nat /\ Len(Append(stack, f)) = Len(stack) + 1
         /\ Append(stack, f)[Len(stack) + 1] = f
         /\ \A k \in 1..Len(stack) : Append(stack, f)[k] = stack[k]
<1>1. /\ Append(stack, f) \in Seq(CallSet)
      /\ Len(stack) \in Nat /\ Len(Append(stack, f)) = Len(stack) + 1
      /\ Append(stack, f)[Len(stack) + 1] = f
      /\ \A k \in 1..Len(stack) : Append(stack, f)[k] = stack[k]
  BY Push DEF Control
<1> QED BY <1>1

\* Every step keeps Control.
LEMMA ControlStep == Control /\ [Next]_vars => Control'
<1> SUFFICES ASSUME Control, [Next]_vars PROVE Control'
  OBVIOUS
<1>h. /\ \A roots : Release(roots) => heap' \in Seq(NodeSet) /\ bad' \in BOOLEAN
      /\ \A x \in NodeSet : Alloc(x) => heap' \in Seq(NodeSet)
      /\ \A n, k \in Nat : heap' = [heap EXCEPT ![n].params[k] = val] => heap' \in Seq(NodeSet)
      /\ \A n : Optimize(n) => heap' \in Seq(NodeSet) /\ bad' \in BOOLEAN
  BY HeapKept
<1>t. /\ NextToken => tok' \in AllTokens \cup {"end"} /\ input' \in Seq(AllTokens \cup {"end"})
      /\ SetError => tok' \in AllTokens \cup {"end"} /\ input' \in Seq(AllTokens \cup {"end"})
      /\ KeepToken => tok' \in AllTokens \cup {"end"} /\ input' \in Seq(AllTokens \cup {"end"})
  BY TokenRead
<1>n. New \in Nat /\ New # 0
  BY DEF Control, New
<1>e. <<>> \in Seq(CallSet)
  OBVIOUS
<1>1. CASE Compile
  BY <1>1, <1>t, <1>e DEF Compile, Call, memory, result, Control, Chain, NIL
<1>2. CASE EnterChain
  <2>1. [fn |-> callee, ret |-> NIL, i |-> 0] \in CallSet
    BY <1>2 DEF EnterChain, CallSet, Chain, NIL
  <2>2. Append(stack, [fn |-> callee, ret |-> NIL, i |-> 0]) \in Seq(CallSet)
    BY <2>1, Starts
  <2>3. Sub[callee] \in Chain \cup {"power", "base"}
    BY <1>2 DEF EnterChain, Sub, Chain
  <2> QED BY <1>2, <1>t, <2>2, <2>3 DEF EnterChain, Call, memory, result, Control, NIL
<1>3. CASE ChainNull
  BY <1>3, <1>t, <1>h, Pops DEF ChainNull, InFrame, Free, Return, result, Control, NIL
<1>4. CASE ChainFirst
  <2>0. stack # <<>>
    BY <1>4 DEF ChainFirst, InFrame
  <2>1. Top \in CallSet /\ Top.fn \in Chain /\ val # 0 /\ val \in Nat
    BY <1>4, <2>0, Pops DEF ChainFirst, InFrame, Control, NIL
  <2>2. [Top EXCEPT !.ret = val] \in CallSet
    BY <2>1 DEF CallSet, Chain, NIL
  <2>3. stack' \in Seq(CallSet) /\ stack' # <<>> /\ Top' = [Top EXCEPT !.ret = val]
    BY <1>4, <2>0, <2>2, Goes DEF ChainFirst
  <2>4. Top'.ret # NIL
    BY <2>1, <2>3 DEF CallSet, NIL
  <2> QED BY <1>4, <1>t, <2>3, <2>4 DEF ChainFirst, Continue, memory, result, Control, NIL
<1>5. CASE ChainJoin
  <2>0. stack # <<>>
    BY <1>5 DEF ChainJoin, InFrame
  <2>1. Top \in CallSet /\ Top.fn \in Chain /\ val \in Nat /\ Top.ret \in Nat
    BY <1>5, <2>0, Pops DEF ChainJoin, InFrame, Control, CallSet
  <2>2. [Top EXCEPT !.ret = New] \in CallSet
    BY <2>1, <1>n DEF CallSet, Chain, NIL
  <2>3. stack' \in Seq(CallSet) /\ stack' # <<>> /\ Top' = [Top EXCEPT !.ret = New]
    BY <1>5, <2>0, <2>2, Goes DEF ChainJoin
  <2>4. Top'.ret # NIL
    BY <2>1, <2>3, <1>n DEF CallSet, NIL
  <2>5. Node("fun", TRUE, <<Top.ret, val>>) \in NodeSet
    BY <2>1 DEF Node, NodeSet
  <2>6. heap' \in Seq(NodeSet)
    BY <1>5, <1>h, <2>5 DEF ChainJoin
  <2> QED BY <1>5, <1>t, <2>3, <2>4, <2>6
          DEF ChainJoin, Alloc, Continue, result, Control, NIL
<1>6. CASE ChainJoinFails
  BY <1>6, <1>t, <1>h, Pops DEF ChainJoinFails, InFrame, AllocFails, Return, result, Control, NIL
<1>7. CASE ChainMore
  <2>1. Sub[Top.fn] \in Chain \cup {"power", "base"}
    BY <1>7 DEF ChainMore, InFrame, Sub, Chain
  <2> QED BY <1>7, <1>t, <2>1 DEF ChainMore, Call, InFrame, memory, result, Control, NIL
<1>8. CASE ChainDone
  <2>1. Top.ret \in Nat /\ Below \in Seq(CallSet)
    BY <1>8, Pops DEF ChainDone, InFrame, CallSet
  <2> QED BY <1>8, <1>t, <2>1 DEF ChainDone, InFrame, Return, memory, result, Control, NIL
<1>9. CASE EnterPower
  <2>1. [fn |-> "power", ret |-> NIL, i |-> 0] \in CallSet
    BY DEF CallSet, NIL
  <2>2. Append(stack, [fn |-> "power", ret |-> NIL, i |-> 0]) \in Seq(CallSet)
        /\ stack' # <<>> /\ Top' = [fn |-> "power", ret |-> NIL, i |-> 0]
    BY <1>9, <2>1, Starts DEF EnterPower, Top
  <2> QED BY <1>9, <1>t, <2>2 DEF EnterPower, memory, result, Control, NIL, Chain
<1>10. CASE PowerSign
  <2>0. stack # <<>>
    BY <1>10 DEF PowerSign, InFrame
  <2>1. Top \in CallSet /\ Top.fn = "power"
    BY <1>10, <2>0, Pops DEF PowerSign, InFrame
  <2>2. [Top EXCEPT !.i = IF tok = "sub" THEN 1 - @ ELSE @] \in CallSet
    BY <2>1 DEF CallSet, Chain, NIL
  <2>3. stack' \in Seq(CallSet) /\ stack' # <<>>
        /\ Top' = [Top EXCEPT !.i = IF tok = "sub" THEN 1 - @ ELSE @]
    BY <1>10, <2>0, <2>2, Goes DEF PowerSign
  <2>4. Top'.fn \notin Chain
    BY <2>1, <2>3 DEF CallSet, Chain
  <2>5. pc' = "loop" /\ val' = NIL /\ callee' = callee /\ NextToken /\ pc # "done"
        /\ UNCHANGED <<memory, result>>
    BY <1>10 DEF PowerSign, Continue, InFrame
  <2> HIDE <1>10
  <2> QED BY <1>t, <2>3, <2>4, <2>5 DEF memory, result, Control, NIL
<1>11. CASE PowerBase
  BY <1>11, <1>t DEF PowerBase, InFrame, Call, memory, result, Control, NIL
<1>12. CASE PowerPlain
  BY <1>12, <1>t, Pops DEF PowerPlain, InFrame, Return, memory, result, Control, NIL
<1>13. CASE PowerNegate
  <2>1. Node("fun", TRUE, <<val>>) \in NodeSet
    BY DEF Node, NodeSet, Control
  <2>2. heap' \in Seq(NodeSet)
    BY <1>13, <1>h, <2>1 DEF PowerNegate
  <2> QED BY <1>13, <1>t, <1>n, <2>2, Pops
          DEF PowerNegate, InFrame, Alloc, Return, result, Control, NIL
<1>14. CASE PowerNegateFails
  BY <1>14, <1>t, <1>h, Pops DEF PowerNegateFails, InFrame, AllocFails, Return, result, Control, NIL
<1>15. CASE BaseLeaf
  <2>1. \A t \in {"const", "var"} : Node(t, FALSE, <<>>) \in NodeSet
    BY DEF Node, NodeSet
  <2>2. heap' \in Seq(NodeSet)
    BY <1>15, <1>h, <2>1 DEF BaseLeaf
  <2> QED BY <1>15, <1>t, <1>n, <2>2 DEF BaseLeaf, InBase, Alloc, Return, result, Control, NIL
<1>16. CASE BaseFunction
  <2>1. \A b \in BOOLEAN : Node("fun", b, [k \in 1..Arity[tok] |-> NIL]) \in NodeSet
    <3>1. Arity[tok] \in Nat
      BY <1>16 DEF BaseFunction, FunctionTokens, Arity
    <3>2. [k \in 1..Arity[tok] |-> NIL] \in Seq(Nat)
      BY <3>1 DEF NIL
    <3> QED BY <3>2 DEF Node, NodeSet
  <2>2. heap' \in Seq(NodeSet)
    BY <1>16, <1>h, <2>1 DEF BaseFunction
  <2>3. [fn |-> "base", ret |-> New, i |-> 0] \in CallSet
    BY <1>n DEF CallSet, NIL, Chain
  <2>4. Append(stack, [fn |-> "base", ret |-> New, i |-> 0]) \in Seq(CallSet)
    BY <2>3, Starts
  <2> QED BY <1>16, <1>t, <2>2, <2>4
          DEF BaseFunction, InBase, Alloc, Call, result, Control, NIL
<1>17. CASE BaseOpen
  <2>1. [fn |-> "paren", ret |-> NIL, i |-> 0] \in CallSet
    BY DEF CallSet, NIL, Chain
  <2>2. Append(stack, [fn |-> "paren", ret |-> NIL, i |-> 0]) \in Seq(CallSet)
    BY <2>1, Starts
  <2> QED BY <1>17, <1>t, <2>2 DEF BaseOpen, InBase, Call, memory, result, Control, NIL, Chain
<1>18. CASE BaseDefault
  <2>1. Node("var", FALSE, <<>>) \in NodeSet
    BY DEF Node, NodeSet
  <2>2. heap' \in Seq(NodeSet)
    BY <1>18, <1>h, <2>1 DEF BaseDefault
  <2> QED BY <1>18, <1>t, <1>n, <2>2 DEF BaseDefault, InBase, Alloc, Return, result, Control, NIL
<1>19. CASE BaseFails
  BY <1>19, <1>t, <1>h DEF BaseFails, InBase, AllocFails, Return, result, Control, NIL
<1>20. CASE NoArgs \/ NoArgsClose \/ Args
  <2>0. stack # <<>> /\ Top.fn = "base" /\ heap' = heap /\ bad' = bad /\ oom' = oom
        /\ root' = root /\ err' = err /\ (pc = "args" \/ pc = "close")
    BY <1>20 DEF NoArgs, NoArgsClose, Args, InFrame, memory, result
  <2>1. Top \in CallSet /\ Below \in Seq(CallSet)
    BY <2>0, Pops
  <2>2. Top.ret \in Nat
    BY <2>1 DEF CallSet
  <2>3. ASSUME NEW step \in {"close", "arg"}, Continue(Top, step)
        PROVE  stack' \in Seq(CallSet) /\ val' = NIL /\ pc' = step /\ callee' = callee
    BY <2>0, <2>1, <2>3, Goes DEF Continue
  <2>4. NextToken \/ SetError \/ KeepToken
    BY <1>20 DEF NoArgs, NoArgsClose, Args
  <2>5. Continue(Top, "close") \/ Continue(Top, "arg") \/ Return(Below, Top.ret)
    BY <1>20 DEF NoArgs, NoArgsClose, Args
  <2> QED BY <1>t, <2>0, <2>1, <2>2, <2>3, <2>4, <2>5 DEF Return, Control, NIL
<1>21. CASE Arg
  BY <1>21, <1>t DEF Arg, InFrame, Call, memory, result, Control, NIL, Chain
<1>22. CASE ArgNull
  BY <1>22, <1>t, <1>h, Pops DEF ArgNull, InFrame, Free, Return, result, Control, NIL
<1>23. CASE ArgAttached
  <2>0. stack # <<>> /\ Top.fn = "base" /\ bad' = bad /\ oom' = oom
        /\ root' = root /\ err' = err /\ pc = "back"
    BY <1>23 DEF ArgAttached, InFrame, result
  <2>1. Top \in CallSet /\ Below \in Seq(CallSet)
    BY <2>0, Pops
  <2>2. Top.ret \in Nat /\ Top.i \in Nat /\ Top.i + 1 \in Nat
    BY <2>1 DEF CallSet
  <2>3. heap' \in Seq(NodeSet)
    BY <1>23, <1>h, <2>2 DEF ArgAttached
  <2>4. [Top EXCEPT !.i = @ + 1] \in CallSet
    BY <2>0, <2>1 DEF CallSet
  <2>5. ASSUME Continue([Top EXCEPT !.i = @ + 1], "arg")
        PROVE  stack' \in Seq(CallSet) /\ val' = NIL /\ pc' = "arg" /\ callee' = callee
    BY <2>0, <2>4, <2>5, Goes DEF Continue
  <2>6. NextToken \/ SetError \/ KeepToken
    BY <1>23 DEF ArgAttached
  <2>7. Continue([Top EXCEPT !.i = @ + 1], "arg") \/ Return(Below, Top.ret)
    BY <1>23 DEF ArgAttached
  <2> QED BY <1>t, <2>0, <2>1, <2>2, <2>3, <2>5, <2>6, <2>7 DEF Return, Control, NIL
<1>24. CASE ParenBack
  <2>1. NextToken \/ SetError \/ KeepToken
    BY <1>24 DEF ParenBack
  <2> QED BY <1>24, <1>t, <2>1, Pops DEF ParenBack, InFrame, Return, memory, result, Control, NIL
<1>25. CASE CompileNull
  BY <1>25 DEF CompileNull, Returned, memory, Control, NIL
<1>26. CASE CompileError
  BY <1>26, <1>h DEF CompileError, Returned, Free, Control, NIL
<1>27. CASE CompileOk
  <2>1. heap' \in Seq(NodeSet) /\ bad' \in BOOLEAN /\ oom' = oom
    BY <1>27, <1>h DEF CompileOk, Optimize
  <2> QED BY <1>27, <2>1 DEF CompileOk, Returned, Control, NIL
<1>28. CASE FreeExpr
  BY <1>28, <1>h DEF FreeExpr, Free, Control, NIL
<1>29. CASE UNCHANGED vars
  BY <1>29 DEF vars, Control, Top
<1> QED
  BY <1>1, <1>2, <1>3, <1>4, <1>5, <1>6, <1>7, <1>8, <1>9, <1>10, <1>11, <1>12, <1>13,
     <1>14, <1>15, <1>16, <1>17, <1>18, <1>19, <1>20, <1>21, <1>22, <1>23, <1>24, <1>25,
     <1>26, <1>27, <1>28, <1>29 DEF Next

\* What *error will say: once memory has run out NULL is all that is returned, and
\* NULL is returned for no other reason.
Told ==
  /\ oom => pc \in {"done", "over"} \/ (pc = "back" /\ val = NIL)
  /\ pc = "back" /\ val = NIL => oom
  /\ ErrorCode

\* Every step keeps Told: CHECK_NULL hands NULL up to te_compile.
LEMMA ToldStep == Control /\ Told /\ [Next]_vars => Told'
<1> SUFFICES ASSUME Control, Told, [Next]_vars PROVE Told'
  OBVIOUS
<1> USE DEF Told, ErrorCode
<1>n. New # NIL
  BY DEF Control, New, NIL
<1>b. stack # <<>> /\ Top.fn = "base" => Top.ret # NIL
  BY Pops DEF CallSet
<1>1. CASE Compile \/ EnterChain \/ ChainFirst \/ ChainMore \/ EnterPower \/ PowerSign
           \/ PowerBase \/ BaseFunction \/ BaseOpen \/ Arg
  BY <1>1 DEF Compile, EnterChain, ChainFirst, ChainMore, EnterPower, PowerSign, PowerBase,
              BaseFunction, BaseOpen, Arg, InFrame, InBase, Call, Continue, Alloc, memory, NIL
<1>2. CASE ChainNull \/ ArgNull \/ PowerPlain \/ ParenBack
  BY <1>2 DEF ChainNull, ArgNull, PowerPlain, ParenBack, InFrame, Free, Return, memory
<1>3. CASE ChainJoinFails \/ PowerNegateFails \/ BaseFails
  BY <1>3 DEF ChainJoinFails, PowerNegateFails, BaseFails, AllocFails, Return
<1>4. CASE ChainJoin \/ PowerNegate \/ BaseLeaf \/ BaseDefault
  <2>1. ~oom /\ oom' = oom
    BY <1>4 DEF ChainJoin, PowerNegate, BaseLeaf, BaseDefault, InFrame, InBase, Alloc
  <2>2. pc' = "loop" \/ (pc' = "back" /\ val' = New)
    BY <1>4 DEF ChainJoin, PowerNegate, BaseLeaf, BaseDefault, Continue, Return
  <2> QED BY <1>n, <2>1, <2>2
<1>5. CASE ChainDone
  BY <1>5 DEF ChainDone, InFrame, Return, memory, Control
<1>6. CASE NoArgs \/ NoArgsClose \/ Args
  BY <1>6, <1>b DEF NoArgs, NoArgsClose, Args, InFrame, Continue, Return, memory
<1>7. CASE ArgAttached
  BY <1>7, <1>b DEF ArgAttached, InFrame, Continue, Return
<1>8. CASE CompileNull
  <2>1. oom = TRUE /\ oom' = oom /\ err' = -1 /\ root' = NIL /\ pc' = "done"
    BY <1>8 DEF CompileNull, Returned, memory, Control
  <2>2. (err' = -1) = oom'
    BY <2>1, Zenon
  <2>3. (err' = 0) = (root' # NIL)
    BY <2>1
  <2> QED BY <2>1, <2>2, <2>3
<1>9. CASE CompileError
  BY <1>9 DEF CompileError, Returned, Free, Control
<1>10. CASE CompileOk
  <2>1. ~oom /\ oom \in BOOLEAN /\ oom' = oom /\ err' = 0 /\ root' # NIL /\ pc' = "done"
    BY <1>10 DEF CompileOk, Returned, Optimize, Control
  <2> QED BY <2>1
<1>11. CASE FreeExpr
  BY <1>11 DEF FreeExpr
<1>12. CASE UNCHANGED vars
  BY <1>12 DEF vars
<1> QED
  BY <1>1, <1>2, <1>3, <1>4, <1>5, <1>6, <1>7, <1>8, <1>9, <1>10, <1>11, <1>12 DEF Next

\* *error tells the program what happened, for texts of any length: -1 exactly when a
\* malloc failed, which no caller takes for a syntax error or for a success.
THEOREM ErrorCodeCorrect == Spec => []ErrorCode
<1>1. Init => Control /\ Told
  BY ControlInit DEF Init, Told, ErrorCode
<1>2. Control /\ Told /\ [Next]_vars => (Control /\ Told)'
  BY ControlStep, ToldStep
<1>3. Told => ErrorCode
  BY DEF Told
<1> QED
  BY <1>1, <1>2, <1>3, PTL DEF Spec

(***************************************************************************)
(* Walks through the heap                                                  *)
(***************************************************************************)

\* Every set of naturals has a least element.
LEMMA Least ==
  ASSUME NEW T, T \subseteq Nat, T # {}
  PROVE  \E m \in T : \A k \in T : m <= k
<1> DEFINE L == OpToRel(<, Nat)
<1>1. IsWellFoundedOn(L, Nat)
  BY NatLessThanWellFounded
<1>2. \A x, y \in Nat : y < x => <<y, x>> \in L
  BY DEF OpToRel
<1> HIDE DEF L
<1>3. PICK x \in T : \A y \in T : ~(<<y, x>> \in L)
  BY <1>1, WFMin
<1>4. ASSUME NEW y \in T PROVE x <= y
  <2>1. x \in Nat /\ y \in Nat /\ <<y, x>> \notin L
    BY <1>3
  <2>2. ~(y < x)
    BY <1>2, <2>1, Zenon
  <2> QED BY <2>1, <2>2
<1> QED BY <1>4

\* Induction up to a natural.
LEMMA Climb ==
  ASSUME NEW b \in Nat, NEW S, 0 \in S, \A k \in Nat : k < b /\ k \in S => k + 1 \in S
  PROVE  b \in S
<1> SUFFICES ASSUME b \notin S PROVE FALSE
  OBVIOUS
<1> DEFINE T == {k \in Nat : k <= b /\ k \notin S}
<1>1. T \subseteq Nat /\ b \in T
  OBVIOUS
<1>2. PICK m \in T : \A k \in T : m <= k
  <2> HIDE DEF T
  <2> QED BY <1>1, Least
<1>3. m \in Nat /\ m <= b /\ m \notin S /\ m # 0
  OBVIOUS
<1>4. m - 1 \in Nat /\ m - 1 < b /\ m - 1 + 1 = m /\ ~(m <= m - 1)
  BY <1>3
<1>5. m - 1 \in S
  BY <1>2, <1>4
<1> QED BY <1>3, <1>4, <1>5

\* One round of a walk: the nodes visited so far, and their children.
Round(h, through, r) == r \cup UNION {Children(h, m) : m \in r \cap through}

\* The rounds of a walk from n.
IsWalk(R, h, n, through) ==
  /\ R[0] = {n} \ {NIL}
  /\ \A k \in Nat : k < Len(h) => R[k + 1] = Round(h, through, R[k])
  /\ Closure(h, n, through) = R[Len(h)]

\* The recursive function that defines a walk exists, and the walk is its last value.
LEMMA Rounds ==
  ASSUME NEW h, Len(h) \in Nat, NEW n, NEW through
  PROVE  \E R : IsWalk(R, h, n, through)
<1> DEFINE Good(R, N) == R = [k \in 0..N |-> IF k = 0 THEN {n} \ {NIL}
                                             ELSE Round(h, through, R[k - 1])]
           S == {N \in Nat : \E R : Good(R, N)}
<1>1. 0 \in S
  <2>1. Good([k \in 0..0 |-> {n} \ {NIL}], 0)
    OBVIOUS
  <2> QED BY <2>1
<1>2. ASSUME NEW N \in Nat, N \in S PROVE N + 1 \in S
  <2>1. PICK R : Good(R, N)
    BY <1>2
  <2> DEFINE Q == [k \in 0..(N + 1) |-> IF k = N + 1 THEN Round(h, through, R[N]) ELSE R[k]]
  <2>2. \A k \in 0..N : Q[k] = R[k]
    OBVIOUS
  <2>3. Q[N + 1] = Round(h, through, R[N]) /\ N \in 0..N
    OBVIOUS
  <2>4. \A k \in 0..N : R[k] = IF k = 0 THEN {n} \ {NIL} ELSE Round(h, through, R[k - 1])
    BY <2>1
  <2>5. Q = [k \in 0..(N + 1) |-> Q[k]]
    OBVIOUS
  <2> HIDE DEF Q
  <2>6. ASSUME NEW k \in 0..(N + 1)
        PROVE  Q[k] = IF k = 0 THEN {n} \ {NIL} ELSE Round(h, through, Q[k - 1])
    <3>1. CASE k = N + 1
      <4>1. k # 0 /\ k - 1 = N
        BY <3>1
      <4> QED BY <3>1, <4>1, <2>2, <2>3
    <3>2. CASE k # N + 1
      <4>1. k \in 0..N /\ (k # 0 => k - 1 \in 0..N)
        BY <3>2
      <4> QED BY <4>1, <2>2, <2>4
    <3> QED BY <3>1, <3>2
  <2>7. Good(Q, N + 1)
    BY <2>5, <2>6
  <2> QED BY <2>7
<1>3. Len(h) \in S
  <2> HIDE DEF S
  <2> QED BY <1>1, <1>2, Climb
<1>4. \E R : Good(R, Len(h))
  BY <1>3
<1> DEFINE Rc == CHOOSE R : Good(R, Len(h))
<1>5. Good(Rc, Len(h))
  BY <1>4
<1>6. Closure(h, n, through) = Rc[Len(h)]
  BY DEF Closure, Round
<1>7. \A k \in 0..Len(h) : Rc[k] = IF k = 0 THEN {n} \ {NIL} ELSE Round(h, through, Rc[k - 1])
  <2> HIDE DEF Rc
  <2> QED BY <1>5
<1> HIDE DEF Rc
<1>8. Rc[0] = {n} \ {NIL}
  BY <1>7
<1>9. ASSUME NEW k \in Nat, k < Len(h) PROVE Rc[k + 1] = Round(h, through, Rc[k])
  <2>1. k + 1 \in 0..Len(h) /\ k + 1 # 0 /\ k + 1 - 1 = k
    BY <1>9
  <2> QED BY <2>1, <1>7
<1>10. IsWalk(Rc, h, n, through)
  BY <1>6, <1>8, <1>9 DEF IsWalk
<1> QED BY <1>10

\* A walk stays within every set that holds its start and the children it goes to.
LEMMA ClosureWithin ==
  ASSUME NEW h, Len(h) \in Nat, NEW n, NEW through, NEW T, n = NIL \/ n \in T,
         \A m \in T \cap through : Children(h, m) \subseteq T
  PROVE  Closure(h, n, through) \subseteq T
<1>0. PICK R : IsWalk(R, h, n, through)
  BY Rounds
<1>1. /\ R[0] = {n} \ {NIL}
      /\ \A k \in Nat : k < Len(h) => R[k + 1] = Round(h, through, R[k])
      /\ Closure(h, n, through) = R[Len(h)]
  BY <1>0 DEF IsWalk
<1> DEFINE S == {k \in Nat : R[k] \subseteq T}
<1>2. 0 \in S
  BY <1>1
<1>3. ASSUME NEW k \in Nat, k < Len(h), k \in S PROVE k + 1 \in S
  <2>1. Round(h, through, R[k]) \subseteq T
    BY <1>3 DEF Round
  <2> QED BY <1>1, <1>3, <2>1
<1>4. Len(h) \in S
  <2> HIDE DEF S
  <2> QED BY <1>2, <1>3, Climb
<1> QED BY <1>1, <1>4

\* A walk from a node of such a set S of nodes visits the least such set: as many
\* rounds as there are nodes are enough.
LEMMA ClosureLeast ==
  ASSUME NEW h, Len(h) \in Nat, NEW n, NEW through, NEW S, S \subseteq 1..Len(h),
         n = NIL \/ n \in S, \A m \in S \cap through : Children(h, m) \subseteq S
  PROVE  /\ Closure(h, n, through) \subseteq S
         /\ n # NIL => n \in Closure(h, n, through)
         /\ \A m \in Closure(h, n, through) \cap through :
              Children(h, m) \subseteq Closure(h, n, through)
         /\ \A c \in Closure(h, n, through) :
              c = n \/ \E m \in Closure(h, n, through) \cap through : c \in Children(h, m)
<1>0. PICK R : IsWalk(R, h, n, through)
  BY Rounds
<1>1. /\ R[0] = {n} \ {NIL}
      /\ \A k \in Nat : k < Len(h) => R[k + 1] = Round(h, through, R[k])
      /\ Closure(h, n, through) = R[Len(h)]
  BY <1>0 DEF IsWalk
<1> DEFINE Closed(r) == \A m \in r \cap through : Children(h, m) \subseteq r
           Fine == {k \in Nat : /\ R[k] \subseteq S /\ (n # NIL => n \in R[k])
                                /\ (Closed(R[k]) \/ Cardinality(R[k]) >= k + 1)}
<1>2. IsFiniteSet(S) /\ Cardinality(S) <= Len(h)
  <2>1. IsFiniteSet(1..Len(h)) /\ Cardinality(1..Len(h)) = Len(h)
    BY FS_Interval
  <2> QED BY <2>1, FS_Subset
<1>3. 0 \in Fine
  <2>1. CASE n = NIL
    <3>1. R[0] = {}
      BY <1>1, <2>1
    <3> QED BY <3>1, <2>1
  <2>2. CASE n # NIL
    <3>1. R[0] = {n} /\ n \in S
      BY <1>1, <2>2
    <3>2. Cardinality({n}) = 1
      BY FS_Singleton
    <3>3. Cardinality(R[0]) >= 0 + 1 /\ R[0] \subseteq S /\ n \in R[0]
      BY <3>1, <3>2
    <3> QED BY <3>3
  <2> QED BY <2>1, <2>2
<1>4. ASSUME NEW k \in Nat, k < Len(h), k \in Fine PROVE k + 1 \in Fine
  <2>1. R[k + 1] = R[k] \cup UNION {Children(h, m) : m \in R[k] \cap through}
    BY <1>1, <1>4 DEF Round
  <2>2. R[k] \subseteq S /\ (n # NIL => n \in R[k])
    BY <1>4
  <2>3. R[k + 1] \subseteq S /\ R[k] \subseteq R[k + 1] /\ (n # NIL => n \in R[k + 1])
    BY <2>1, <2>2
  <2>4. CASE Closed(R[k])
    <3>1. R[k + 1] = R[k]
      BY <2>1, <2>4
    <3> QED BY <3>1, <2>3, <2>4
  <2>5. CASE ~Closed(R[k])
    <3>1. R[k + 1] # R[k]
      BY <2>1, <2>5
    <3>2. PICK x \in R[k + 1] : x \notin R[k]
      BY <2>3, <3>1
    <3>3. IsFiniteSet(R[k + 1]) /\ IsFiniteSet(R[k])
      BY <1>2, <2>2, <2>3, FS_Subset
    <3>4. Cardinality(R[k] \cup {x}) = Cardinality(R[k]) + 1 /\ Cardinality(R[k]) \in Nat
      BY <3>2, <3>3, FS_AddElement, FS_CardinalityType
    <3>5. R[k] \cup {x} \subseteq R[k + 1]
      BY <2>3, <3>2
    <3>6. Cardinality(R[k] \cup {x}) <= Cardinality(R[k + 1]) /\ Cardinality(R[k + 1]) \in Nat
      BY <3>3, <3>5, FS_Subset, FS_CardinalityType
    <3>7. Cardinality(R[k]) >= k + 1
      BY <1>4, <2>5
    <3>8. Cardinality(R[k + 1]) >= k + 1 + 1
      BY <3>4, <3>6, <3>7
    <3> QED BY <2>3, <3>8
  <2> QED BY <2>4, <2>5
<1>5. Len(h) \in Fine
  <2> HIDE DEF Fine
  <2> QED BY <1>3, <1>4, Climb
<1> DEFINE D == Closure(h, n, through)
<1>6. D \subseteq S /\ (n # NIL => n \in D)
  BY <1>1, <1>5
<1>7. Closed(D)
  <2>1. Cardinality(D) <= Cardinality(S) /\ Cardinality(S) \in Nat /\ Cardinality(D) \in Nat
    BY <1>2, <1>6, FS_Subset, FS_CardinalityType
  <2>2. ~(Cardinality(D) >= Len(h) + 1)
    BY <1>2, <2>1
  <2> QED BY <1>1, <1>5, <2>2
<1>8. ASSUME NEW c \in D, c # n, \A m \in D \cap through : c \notin Children(h, m) PROVE FALSE
  <2> DEFINE T == D \ {c}
  <2>1. n = NIL \/ n \in T
    BY <1>6, <1>8
  <2>2. \A m \in T \cap through : Children(h, m) \subseteq T
    BY <1>7, <1>8
  <2>3. D \subseteq T
    <3> HIDE DEF T
    <3> QED BY <2>1, <2>2, ClosureWithin
  <2> QED BY <2>3
<1> QED BY <1>6, <1>7, <1>8

(***************************************************************************)
(* Ownership                                                               *)
(***************************************************************************)

\* The pointers to nodes: parameter k of a live node n, and as those of "node" 0 the
\* node that call k holds, the value returned (0) and the program's pointer (-1).
ParamOf(h, n, k) == IF n \in DOMAIN h /\ h[n].live /\ k \in DOMAIN h[n].params
                    THEN h[n].params[k] ELSE NIL
RetOf(st, k) == IF k \in DOMAIN st THEN st[k].ret ELSE NIL
Slots(h, st, v, r) ==
  [n \in Nat |-> [k \in Int |->
     IF n # 0 THEN ParamOf(h, n, k)
     ELSE IF k = 0 THEN v ELSE IF k = -1 THEN r ELSE RetOf(st, k)]]
LiveIn(h) == {n \in DOMAIN h : h[n].live}

Pointings == [Nat -> [Int -> Nat]]

\* The nodes L are owned: pointers lead to L, no two to the same node, and every set
\* of nodes is pointed at from outside it, so that all hang below "node" 0.
Own(f, L) ==
  /\ f \in Pointings /\ L \subseteq Nat \ {0}
  /\ \A n \in Nat, k \in Int : f[n][k] # 0 => f[n][k] \in L
  /\ \A n, m \in Nat, k, j \in Int : f[n][k] = f[m][j] /\ f[n][k] # 0 => n = m /\ k = j
  /\ \A S \in SUBSET L : S # {} => \E n \in Nat \ S, k \in Int : f[n][k] \in S

\* Pointers that agree everywhere are the same.
LEMMA SamePointings ==
  ASSUME NEW f \in Pointings, NEW g \in Pointings,
         \A n \in Nat, k \in Int : g[n][k] = f[n][k]
  PROVE  f = g
<1>1. \A n \in Nat : f[n] \in [Int -> Nat] /\ g[n] \in [Int -> Nat]
  BY DEF Pointings
<1>2. ASSUME NEW n \in Nat PROVE f[n] = g[n]
  <2>1. f[n] \in [Int -> Nat] /\ g[n] \in [Int -> Nat] /\ \A k \in Int : g[n][k] = f[n][k]
    BY <1>1
  <2> QED BY <2>1
<1> QED BY <1>2 DEF Pointings

\* A pointer is moved from one place to another.
Moved(f, a, b, c, d) ==
  [n \in Nat |-> [k \in Int |-> IF n = c /\ k = d THEN f[a][b]
                                ELSE IF n = a /\ k = b THEN 0 ELSE f[n][k]]]

\* Moving a pointer keeps the nodes owned when it is not moved below itself: to a
\* call, to a node that is not counted yet, or to one that a call holds.
LEMMA MoveOwn ==
  ASSUME NEW f, NEW L, Own(f, L), NEW a \in Nat, NEW b \in Int, NEW c \in Nat, NEW d \in Int,
         ~(a = c /\ b = d), f[c][d] = 0,
         c = 0 \/ c \notin L \/ \E e \in Int : f[0][e] = c /\ ~(a = 0 /\ e = b)
  PROVE  Own(Moved(f, a, b, c, d), L)
<1> DEFINE g == Moved(f, a, b, c, d)
<1>0. f \in Pointings /\ L \subseteq Nat \ {0} /\ (\A n \in Nat, k \in Int : f[n][k] \in Nat)
  <2>1. f \in Pointings /\ L \subseteq Nat \ {0}
    BY DEF Own
  <2>2. \A n \in Nat : f[n] \in [Int -> Nat]
    BY <2>1 DEF Pointings
  <2> QED BY <2>1, <2>2
<1>1. \A n \in Nat, k \in Int :
        g[n][k] = IF n = c /\ k = d THEN f[a][b] ELSE IF n = a /\ k = b THEN 0 ELSE f[n][k]
  BY DEF Moved
<1>2. g \in Pointings
  <2>1. \A n \in Nat, k \in Int :
          (IF n = c /\ k = d THEN f[a][b] ELSE IF n = a /\ k = b THEN 0 ELSE f[n][k]) \in Nat
    BY <1>0
  <2> QED BY <2>1 DEF Moved, Pointings
<1> HIDE DEF g
<1>3. \A n \in Nat, k \in Int : g[n][k] # 0 => g[n][k] \in L
  BY <1>1 DEF Own
<1>4. ASSUME NEW n \in Nat, NEW m \in Nat, NEW k \in Int, NEW j \in Int,
             g[n][k] = g[m][j], g[n][k] # 0
      PROVE  n = m /\ k = j
  <2>1. \A x, y \in Nat, i, l \in Int : f[x][i] = f[y][l] /\ f[x][i] # 0 => x = y /\ i = l
    BY DEF Own
  <2>2. CASE n = c /\ k = d
    BY <1>1, <1>4, <2>1, <2>2
  <2>3. CASE ~(n = c /\ k = d)
    BY <1>1, <1>4, <2>1, <2>3
  <2> QED BY <2>2, <2>3
<1>5. ASSUME NEW S \in SUBSET L, S # {} PROVE \E n \in Nat \ S, k \in Int : g[n][k] \in S
  <2>1. PICK n \in Nat \ S, k \in Int : f[n][k] \in S
    BY <1>5 DEF Own
  <2>2. 0 \in Nat \ S /\ f[n][k] # 0
    BY <1>0, <2>1
  <2>3. CASE ~(n = a /\ k = b)
    <3>1. ~(n = c /\ k = d)
      BY <2>1, <2>2
    <3>2. g[n][k] = f[n][k]
      BY <1>1, <2>3, <3>1
    <3> QED BY <2>1, <3>2
  <2>4. CASE n = a /\ k = b /\ c \notin S
    <3>1. g[c][d] \in S
      BY <1>1, <2>1, <2>4
    <3> QED BY <2>4, <3>1
  <2>5. CASE c \in S
    <3>1. PICK e \in Int : f[0][e] = c /\ ~(a = 0 /\ e = b)
      BY <2>2, <2>5
    <3>2. c # 0
      BY <1>0, <2>5
    <3>3. g[0][e] = c
      BY <1>1, <3>1, <3>2
    <3> QED BY <2>2, <2>5, <3>3
  <2> QED BY <2>3, <2>4, <2>5
<1>6. \A n, m \in Nat, k, j \in Int : g[n][k] = g[m][j] /\ g[n][k] # 0 => n = m /\ k = j
  BY <1>4
<1>7. Own(g, L)
  BY <1>0, <1>2, <1>3, <1>5, <1>6 DEF Own
<1> QED BY <1>7 DEF g

\* A new node is held by a call or returned.
LEMMA AddOwn ==
  ASSUME NEW f, NEW L, Own(f, L), NEW d \in Int, f[0][d] = 0, NEW x \in Nat \ {0}, x \notin L,
         NEW g \in Pointings,
         \A n \in Nat, k \in Int : g[n][k] = IF n = 0 /\ k = d THEN x ELSE f[n][k],
         NEW M, M = L \cup {x}
  PROVE  Own(g, M)
<1>0. L \subseteq Nat \ {0}
  BY DEF Own
<1>1. \A n \in Nat, k \in Int : g[n][k] # 0 => g[n][k] \in L \cup {x}
  BY DEF Own
<1>2. ASSUME NEW n \in Nat, NEW m \in Nat, NEW k \in Int, NEW j \in Int,
             g[n][k] = g[m][j], g[n][k] # 0
      PROVE  n = m /\ k = j
  BY <1>2 DEF Own
<1>4. \A n, m \in Nat, k, j \in Int : g[n][k] = g[m][j] /\ g[n][k] # 0 => n = m /\ k = j
  BY <1>2
<1>5. ASSUME NEW S \in SUBSET (L \cup {x}), S # {}
      PROVE \E n \in Nat \ S, k \in Int : g[n][k] \in S
  <2>1. CASE x \in S
    <3>1. g[0][d] \in S /\ 0 \in Nat \ S
      BY <1>0, <2>1
    <3> QED BY <3>1
  <2>2. CASE x \notin S
    <3>1. PICK n \in Nat \ S, k \in Int : f[n][k] \in S
      BY <1>5, <2>2 DEF Own
    <3>2. f[n][k] # 0
      BY <1>0, <3>1, <2>2
    <3>3. g[n][k] = f[n][k]
      BY <3>2
    <3> QED BY <3>1, <3>3
  <2> QED BY <2>1, <2>2
<1> QED BY <1>0, <1>1, <1>4, <1>5 DEF Own

\* Nodes are freed, and the pointers to them are gone.
LEMMA CutOwn ==
  ASSUME NEW f, NEW L, Own(f, L), NEW D, NEW g \in Pointings,
         \A n \in Nat, k \in Int : g[n][k] = IF f[n][k] \in D THEN 0 ELSE f[n][k],
         NEW M, M = L \ D
  PROVE  Own(g, M)
<1>0. L \ D \subseteq Nat \ {0}
  BY DEF Own
<1>1. \A n \in Nat, k \in Int : g[n][k] # 0 => g[n][k] \in L \ D
  BY DEF Own
<1>2. \A n, m \in Nat, k, j \in Int : g[n][k] = g[m][j] /\ g[n][k] # 0 => n = m /\ k = j
  BY DEF Own
<1>3. ASSUME NEW S \in SUBSET (L \ D), S # {}
      PROVE \E n \in Nat \ S, k \in Int : g[n][k] \in S
  <2>1. PICK n \in Nat \ S, k \in Int : f[n][k] \in S
    BY <1>3 DEF Own
  <2>2. g[n][k] = f[n][k]
    BY <2>1
  <2> QED BY <2>1, <2>2
<1> QED BY <1>0, <1>1, <1>2, <1>3 DEF Own

Pt == Slots(heap, stack, val, root)

\* A pointer, by where it stands.
LEMMA SlotsAt ==
  ASSUME NEW h, NEW st, NEW v, NEW r, NEW n \in Nat, NEW k \in Int
  PROVE  Slots(h, st, v, r)[n][k] =
           IF n # 0 THEN ParamOf(h, n, k)
           ELSE IF k = 0 THEN v ELSE IF k = -1 THEN r ELSE RetOf(st, k)
  BY DEF Slots

\* Every place holds a node or NULL.
LEMMA SlotsType ==
  ASSUME NEW h \in Seq(NodeSet), NEW st \in Seq(CallSet), NEW v \in Nat, NEW r \in Nat
  PROVE  Slots(h, st, v, r) \in Pointings
<1>1. ASSUME NEW n, NEW k PROVE ParamOf(h, n, k) \in Nat
  <2>1. CASE n \in DOMAIN h /\ h[n].live /\ k \in DOMAIN h[n].params
    <3>1. h[n] \in NodeSet
      BY <2>1
    <3>2. h[n].params \in Seq(Nat)
      BY <3>1 DEF NodeSet
    <3>3. h[n].params[k] \in Nat
      BY <2>1, <3>2
    <3> QED BY <3>3, <2>1 DEF ParamOf
  <2> QED BY <2>1 DEF ParamOf, NIL
<1>2. ASSUME NEW k PROVE RetOf(st, k) \in Nat
  <2>1. CASE k \in DOMAIN st
    <3>1. st[k] \in CallSet
      BY <2>1
    <3> QED BY <3>1, <2>1 DEF RetOf, CallSet
  <2> QED BY <2>1 DEF RetOf, NIL
<1> QED BY <1>1, <1>2 DEF Slots, Pointings

\* The pointers of a state are such a table.
LEMMA PtType == Control => Pt \in Pointings
  BY SlotsType DEF Pt, Control

\* What the calls hold when a call starts, ends or goes on.
LEMMA RetPush ==
  ASSUME Control, NEW f \in CallSet, stack' = Append(stack, f)
  PROVE  /\ Len(stack) \in Nat
         /\ \A k \in Int : RetOf(stack', k) = IF k = Len(stack) + 1 THEN f.ret ELSE RetOf(stack, k)
         /\ RetOf(stack, Len(stack) + 1) = 0
<1>1. /\ stack' \in Seq(CallSet) /\ Len(stack) \in Nat /\ Len(stack') = Len(stack) + 1
      /\ stack'[Len(stack) + 1] = f /\ \A k \in 1..Len(stack) : stack'[k] = stack[k]
  BY Starts
<1>2. DOMAIN stack = 1..Len(stack) /\ DOMAIN stack' = 1..(Len(stack) + 1)
  BY <1>1 DEF Control
<1> QED BY <1>1, <1>2 DEF RetOf, NIL

\* What the calls hold when the innermost one ends ...
LEMMA RetPop ==
  ASSUME Control, stack # <<>>, stack' = Below
  PROVE  /\ Len(stack) \in Nat /\ Len(stack) > 0
         /\ \A k \in Int : RetOf(stack', k) = IF k = Len(stack) THEN 0 ELSE RetOf(stack, k)
         /\ RetOf(stack, Len(stack)) = Top.ret
<1>1. /\ Below \in Seq(CallSet)
      /\ Len(stack) \in Nat /\ Len(stack) > 0 /\ Len(Below) = Len(stack) - 1
      /\ \A k \in 1..(Len(stack) - 1) : Below[k] = stack[k]
  BY Pops
<1>2. DOMAIN stack = 1..Len(stack) /\ DOMAIN stack' = 1..(Len(stack) - 1)
  BY <1>1 DEF Control
<1> QED BY <1>1, <1>2 DEF RetOf, NIL, Top

\* ... and when it goes on.
LEMMA RetGoes ==
  ASSUME Control, stack # <<>>, NEW f \in CallSet, NEW step, Continue(f, step)
  PROVE  /\ Len(stack) \in Nat /\ Len(stack) > 0
         /\ \A k \in Int : RetOf(stack', k) = IF k = Len(stack) THEN f.ret ELSE RetOf(stack, k)
         /\ RetOf(stack, Len(stack)) = Top.ret
<1>1. /\ stack' \in Seq(CallSet) /\ Len(stack') = Len(stack)
      /\ Top' = f /\ \A k \in 1..(Len(stack) - 1) : stack'[k] = stack[k]
  BY Goes
<1>2. Len(stack) \in Nat /\ Len(stack) > 0
  BY Pops
<1>3. DOMAIN stack = 1..Len(stack) /\ DOMAIN stack' = 1..Len(stack)
  BY <1>1 DEF Control
<1>4. stack'[Len(stack)] = f
  BY <1>1 DEF Top
<1>5. ASSUME NEW k \in Int
      PROVE  RetOf(stack', k) = IF k = Len(stack) THEN f.ret ELSE RetOf(stack, k)
  <2>1. CASE k = Len(stack)
    BY <1>2, <1>3, <1>4, <2>1 DEF RetOf
  <2>2. CASE k \in 1..(Len(stack) - 1)
    <3>1. k \in 1..Len(stack) /\ k # Len(stack) /\ stack'[k] = stack[k]
      BY <1>1, <1>2, <2>2
    <3> QED BY <1>3, <3>1 DEF RetOf
  <2>3. CASE k \notin 1..Len(stack)
    <3>1. k # Len(stack)
      BY <1>2, <2>3
    <3> QED BY <1>3, <2>3, <3>1 DEF RetOf
  <2> QED BY <1>2, <2>1, <2>2, <2>3
<1>6. Len(stack) \in DOMAIN stack
  BY <1>2, <1>3
<1> QED BY <1>2, <1>5, <1>6 DEF RetOf, Top

\* What the nodes hold when one is added, freed or filled in.
LEMMA ParamAlloc ==
  ASSUME Control, NEW x \in NodeSet, x.live, heap' = Append(heap, x)
  PROVE  /\ New \in Nat \ {0} /\ New \notin Live /\ Live' = Live \cup {New}
         /\ \A n \in Nat, k \in Int : ParamOf(heap', n, k) =
              IF n # New THEN ParamOf(heap, n, k)
              ELSE IF k \in DOMAIN x.params THEN x.params[k] ELSE NIL
         /\ \A k : ParamOf(heap, New, k) = NIL
         /\ \A n \in DOMAIN heap : heap'[n] = heap[n]
         /\ heap'[New] = x /\ DOMAIN heap' = DOMAIN heap \cup {New}
<1>1. /\ heap' \in Seq(NodeSet)
      /\ Len(heap) \in Nat /\ Len(heap') = Len(heap) + 1
      /\ heap'[Len(heap) + 1] = x
      /\ \A k \in 1..Len(heap) : heap'[k] = heap[k]
  BY Push DEF Control
<1>2. DOMAIN heap = 1..Len(heap) /\ DOMAIN heap' = 1..(Len(heap) + 1)
  BY <1>1 DEF Control
<1>3. Live' = Live \cup {New}
  BY <1>1, <1>2 DEF Live, New
<1>4. New \in Nat \ {0} /\ New \notin Live /\ New \notin DOMAIN heap
  BY <1>1, <1>2 DEF Live, New
<1>5. ASSUME NEW n \in Nat, NEW k \in Int
      PROVE ParamOf(heap', n, k) =
              IF n # New THEN ParamOf(heap, n, k)
              ELSE IF k \in DOMAIN x.params THEN x.params[k] ELSE NIL
  <2>1. CASE n = New
    BY <1>1, <1>2, <2>1 DEF ParamOf, New
  <2>2. CASE n # New /\ n \in DOMAIN heap
    BY <1>1, <1>2, <2>2 DEF ParamOf, New
  <2>3. CASE n # New /\ n \notin DOMAIN heap
    BY <1>1, <1>2, <2>3 DEF ParamOf, New
  <2> QED BY <2>1, <2>2, <2>3
<1> QED BY <1>1, <1>2, <1>3, <1>4, <1>5 DEF ParamOf, New

\* A parameter is filled in.
LEMMA ParamSet ==
  ASSUME Control, NEW m \in Live, NEW j \in DOMAIN heap[m].params,
         heap' = [heap EXCEPT ![m].params[j] = val]
  PROVE  /\ Live' = Live /\ DOMAIN heap' = DOMAIN heap
         /\ \A n \in Nat, k \in Int :
              ParamOf(heap', n, k) = IF n = m /\ k = j THEN val ELSE ParamOf(heap, n, k)
         /\ \A n \in DOMAIN heap : n # m => heap'[n] = heap[n]
         /\ heap'[m] = [heap[m] EXCEPT !.params = [@ EXCEPT ![j] = val]]
<1>0. m \in DOMAIN heap /\ heap[m] \in NodeSet
  BY DEF Live, Control
<1>1. DOMAIN heap' = DOMAIN heap /\ heap'[m] = [heap[m] EXCEPT !.params[j] = val]
      /\ \A n \in DOMAIN heap : n # m => heap'[n] = heap[n]
  BY <1>0
<1>2. heap'[m].params = [heap[m].params EXCEPT ![j] = val] /\ heap'[m].live = heap[m].live
  BY <1>0, <1>1 DEF NodeSet
<1>3. Live' = Live
  BY <1>0, <1>1, <1>2 DEF Live
<1>4. ASSUME NEW n \in Nat, NEW k \in Int
      PROVE  ParamOf(heap', n, k) = IF n = m /\ k = j THEN val ELSE ParamOf(heap, n, k)
  <2>1. CASE n = m
    <3>1. heap[m].live /\ heap'[m].live
      BY <1>2 DEF Live
    <3>2. heap[m].params \in Seq(Nat)
      BY <1>0 DEF NodeSet
    <3> QED BY <1>0, <1>1, <1>2, <2>1, <3>1, <3>2 DEF ParamOf
  <2>2. CASE n # m
    BY <1>1, <2>2 DEF ParamOf
  <2> QED BY <2>1, <2>2
<1> QED BY <1>1, <1>3, <1>4

\* Parameters of a heap that does not change.
LEMMA ParamSame ==
  ASSUME NEW h, NEW g, NEW n \in DOMAIN h, n \in DOMAIN g, g[n].params = h[n].params,
         g[n].live <=> h[n].live, NEW k
  PROVE  ParamOf(g, n, k) = ParamOf(h, n, k)
  BY DEF ParamOf

\* te_free leaves the parameters of the nodes it does not visit.
LEMMA ParamFree ==
  ASSUME Control, NEW D,
         heap' = [n \in DOMAIN heap |-> [heap[n] EXCEPT !.live = @ /\ n \notin D]]
  PROVE  /\ Live' = Live \ D /\ DOMAIN heap' = DOMAIN heap
         /\ \A n, k : ParamOf(heap', n, k) = IF n \in D THEN NIL ELSE ParamOf(heap, n, k)
         /\ \A n \in DOMAIN heap : /\ heap'[n].params = heap[n].params
                                   /\ heap'[n].type = heap[n].type
                                   /\ heap'[n].pure = heap[n].pure
<1>0. \A n \in DOMAIN heap : heap[n] \in NodeSet
  BY DEF Control
<1>1. DOMAIN heap' = DOMAIN heap
      /\ \A n \in DOMAIN heap : heap'[n] = [heap[n] EXCEPT !.live = @ /\ n \notin D]
  OBVIOUS
<1>2. \A n \in DOMAIN heap : /\ heap'[n].params = heap[n].params
                             /\ heap'[n].type = heap[n].type
                             /\ heap'[n].pure = heap[n].pure
                             /\ heap'[n].live = (heap[n].live /\ n \notin D)
  BY <1>0, <1>1 DEF NodeSet
<1>3. Live' = Live \ D
  BY <1>1, <1>2 DEF Live
<1>4. ASSUME NEW n, NEW k
      PROVE  ParamOf(heap', n, k) = IF n \in D THEN NIL ELSE ParamOf(heap, n, k)
  <2>1. CASE n \in DOMAIN heap
    <3>1. heap'[n].params = heap[n].params /\ heap'[n].live = (heap[n].live /\ n \notin D)
      BY <1>2, <2>1
    <3>2. CASE n \in D
      <4>1. ~heap'[n].live
        BY <3>1, <3>2
      <4> QED BY <3>2, <4>1 DEF ParamOf
    <3>3. CASE n \notin D
      <4>1. heap'[n].live <=> heap[n].live
        BY <3>1, <3>3
      <4>2. n \in DOMAIN heap' /\ n \in DOMAIN heap
        BY <1>1, <2>1
      <4>3. heap'[n].params = heap[n].params
        BY <3>1
      <4>4. ParamOf(heap', n, k) = ParamOf(heap, n, k)
        BY <4>1, <4>2, <4>3, ParamSame
      <4> QED BY <3>3, <4>4
    <3> QED BY <3>2, <3>3
  <2>2. CASE n \notin DOMAIN heap
    BY <1>1, <2>2 DEF ParamOf
  <2> QED BY <2>1, <2>2
<1> QED BY <1>1, <1>2, <1>3, <1>4

\* The children of a node are what it points to.
LEMMA ChildrenAre ==
  ASSUME Control, NEW n \in Live
  PROVE  /\ n \in Nat \ {0} /\ n \in DOMAIN heap
         /\ \A c \in Children(heap, n) : c # 0 /\ \E k \in Int : Pt[n][k] = c
         /\ \A k \in Int : Pt[n][k] # 0 => Pt[n][k] \in Children(heap, n)
<1>1. n \in DOMAIN heap /\ heap[n].live /\ n \in Nat \ {0}
  BY DEF Live, Control
<1>2. heap[n] \in NodeSet
  BY <1>1 DEF Control
<1>3. heap[n].params \in Seq(Nat)
  BY <1>2 DEF NodeSet
<1>4. DOMAIN heap[n].params \subseteq Int
  BY <1>3
<1>5. \A k \in Int : Pt[n][k] = ParamOf(heap, n, k)
  BY <1>1, SlotsAt DEF Pt
<1>6. \A k \in DOMAIN heap[n].params : Pt[n][k] = heap[n].params[k]
  BY <1>1, <1>4, <1>5 DEF ParamOf
<1>7. \A k \in Int : Pt[n][k] # 0 => k \in DOMAIN heap[n].params
  BY <1>1, <1>5 DEF ParamOf, NIL
<1> QED BY <1>1, <1>4, <1>6, <1>7 DEF Children, NIL

\* The live nodes are finitely many.
LEMMA LiveFinite == Control => IsFiniteSet(Live) /\ Len(heap) \in Nat /\ Live \subseteq 1..Len(heap)
<1> SUFFICES ASSUME Control PROVE IsFiniteSet(Live) /\ Len(heap) \in Nat /\ Live \subseteq 1..Len(heap)
  OBVIOUS
<1>1. Len(heap) \in Nat /\ DOMAIN heap = 1..Len(heap)
  BY DEF Control
<1>2. IsFiniteSet(1..Len(heap))
  BY <1>1, FS_Interval
<1>3. Live \subseteq 1..Len(heap)
  BY <1>1 DEF Live
<1> QED BY <1>1, <1>2, <1>3, FS_Subset

\* What te_free of some expressions visits.
Walks(roots) == UNION {Reach(heap, r) : r \in roots}

\* te_free visits live nodes: those it starts from, and what they point to.
LEMMA ReachOwn ==
  ASSUME Control, Own(Pt, Live), NEW roots, \A r \in roots : r = 0 \/ r \in Live
  PROVE  /\ Walks(roots) \subseteq Live
         /\ \A r \in roots : r # 0 => r \in Walks(roots)
         /\ \A n \in Walks(roots), k \in Int : Pt[n][k] # 0 => Pt[n][k] \in Walks(roots)
         /\ \A c \in Walks(roots) :
              c \in roots \/ \E n \in Walks(roots), k \in Int : Pt[n][k] = c
<1> DEFINE D == Walks(roots)
<1>1. Len(heap) \in Nat /\ Live \subseteq 1..Len(heap) /\ DOMAIN heap = 1..Len(heap)
  BY LiveFinite DEF Control
<1>2. \A m \in Live \cap DOMAIN heap : Children(heap, m) \subseteq Live
  BY ChildrenAre DEF Own
<1>3. ASSUME NEW r \in roots
      PROVE  /\ Reach(heap, r) \subseteq Live
             /\ r # 0 => r \in Reach(heap, r)
             /\ \A m \in Reach(heap, r) : Children(heap, m) \subseteq Reach(heap, r)
             /\ \A c \in Reach(heap, r) : c = r \/ \E m \in Reach(heap, r) : c \in Children(heap, m)
  <2>1. r = NIL \/ r \in Live
    BY <1>3 DEF NIL
  <2>2. /\ Closure(heap, r, DOMAIN heap) \subseteq Live
        /\ r # NIL => r \in Closure(heap, r, DOMAIN heap)
        /\ \A m \in Closure(heap, r, DOMAIN heap) \cap DOMAIN heap :
              Children(heap, m) \subseteq Closure(heap, r, DOMAIN heap)
        /\ \A c \in Closure(heap, r, DOMAIN heap) :
              c = r \/ \E m \in Closure(heap, r, DOMAIN heap) \cap DOMAIN heap : c \in Children(heap, m)
    BY <1>1, <1>2, <2>1, ClosureLeast
  <2> QED BY <1>1, <2>2 DEF Reach, NIL
<1>4. D \subseteq Live
  BY <1>3 DEF Walks
<1>5. \A r \in roots : r # 0 => r \in D
  BY <1>3 DEF Walks
<1>6. ASSUME NEW n \in D, NEW k \in Int, Pt[n][k] # 0 PROVE Pt[n][k] \in D
  <2>1. PICK r \in roots : n \in Reach(heap, r)
    BY DEF Walks
  <2>2. Pt[n][k] \in Children(heap, n)
    BY <1>4, <1>6, ChildrenAre
  <2> QED BY <1>3, <2>1, <2>2 DEF Walks
<1>7. ASSUME NEW c \in D, c \notin roots PROVE \E n \in D, k \in Int : Pt[n][k] = c
  <2>1. PICK r \in roots : c \in Reach(heap, r)
    BY DEF Walks
  <2>2. PICK m \in Reach(heap, r) : c \in Children(heap, m)
    BY <1>3, <1>7, <2>1
  <2>3. m \in D
    BY <2>1, <2>2 DEF Walks
  <2> QED BY <1>4, <2>2, <2>3, ChildrenAre
<1> QED BY <1>4, <1>5, <1>6, <1>7

\* A set of triples whose third parts are all different and are X.
LEMMA Thirds ==
  ASSUME NEW P, NEW X, IsFiniteSet(X), \A p \in P : p[3] \in X,
         \A p, q \in P : p[3] = q[3] => p = q, \A x \in X : \E p \in P : p[3] = x
  PROVE  IsFiniteSet(P) /\ Cardinality(P) = Cardinality(X)
<1> DEFINE g == [p \in P |-> p[3]]
<1>1. g \in Bijection(P, X)
  <2>1. g \in [P -> X]
    OBVIOUS
  <2>2. \A p, q \in P : g[p] = g[q] => p = q
    OBVIOUS
  <2>3. \A x \in X : \E p \in P : g[p] = x
    OBVIOUS
  <2> HIDE DEF g
  <2> QED BY <2>1, <2>2, <2>3 DEF Bijection, Injection, Surjection, IsInjective
<1>2. ExistsBijection(P, X)
  BY <1>1 DEF ExistsBijection
<1>3. ExistsBijection(X, P)
  BY <1>2, Fun_ExistsBijSymmetric
<1>4. IsFiniteSet(P) /\ Cardinality(X) = Cardinality(P)
  BY <1>3, FS_Bijection
<1> QED BY <1>4

\* The pointers to what te_free visits are those within it, and the calls' to the
\* expressions that are freed.
LEMMA PointsInto ==
  ASSUME Control, Own(Pt, Live), NEW roots, \A r \in roots : r = 0 \/ \E e \in Int : Pt[0][e] = r,
         NEW D, D = Walks(roots)
  PROVE  /\ D \subseteq Live /\ 0 \notin D
         /\ \A r \in roots : r = 0 \/ r \in D
         /\ \A c \in D : c \in roots \/ \E n \in D, k \in Int : Pt[n][k] = c
         /\ \A n \in Nat, k \in Int :
              Pt[n][k] \in D <=> \/ n \in D /\ Pt[n][k] # 0
                                 \/ n = 0 /\ Pt[n][k] \in roots /\ Pt[n][k] # 0
<1>1. \A r \in roots : r = 0 \/ r \in Live
  BY DEF Own
<1>2. /\ D \subseteq Live
      /\ \A r \in roots : r # 0 => r \in D
      /\ \A n \in D, k \in Int : Pt[n][k] # 0 => Pt[n][k] \in D
      /\ \A c \in D : c \in roots \/ \E n \in D, k \in Int : Pt[n][k] = c
  BY <1>1, ReachOwn
<1>3. 0 \notin D /\ D \subseteq Nat
  BY <1>2 DEF Own
<1>4. ASSUME NEW n \in Nat, NEW k \in Int, Pt[n][k] \in D
      PROVE  \/ n \in D /\ Pt[n][k] # 0
             \/ n = 0 /\ Pt[n][k] \in roots /\ Pt[n][k] # 0
  <2>1. Pt[n][k] # 0
    BY <1>3, <1>4
  <2>2. CASE Pt[n][k] \in roots
    <3>1. PICK e \in Int : Pt[0][e] = Pt[n][k]
      BY <2>1, <2>2
    <3>2. n = 0
      BY <2>1, <3>1 DEF Own
    <3> QED BY <2>1, <2>2, <3>2
  <2>3. CASE Pt[n][k] \notin roots
    <3>1. PICK m \in D, j \in Int : Pt[m][j] = Pt[n][k]
      BY <1>2, <1>4, <2>3
    <3>2. \A x, y \in Nat, i, l \in Int : Pt[x][i] = Pt[y][l] /\ Pt[x][i] # 0 => x = y /\ i = l
      BY DEF Own
    <3>3. m \in Nat
      BY <1>3
    <3>4. n = m
      BY <2>1, <3>1, <3>2, <3>3
    <3> QED BY <2>1, <3>4
  <2> QED BY <2>2, <2>3
<1> QED BY <1>2, <1>3, <1>4

\* Freeing what the calls hold: no node is freed twice, and the others stay owned when
\* the calls forget what was freed.
LEMMA FreeOwn ==
  ASSUME Control, Control', Own(Pt, Live),
         NEW roots, \A r \in roots : r = 0 \/ \E e \in Int : Pt[0][e] = r,
         Release(roots), \A k \in Int : Pt'[0][k] = IF Pt[0][k] \in roots THEN 0 ELSE Pt[0][k]
  PROVE  Own(Pt', Live') /\ (bad' <=> bad)
<1> DEFINE D == Walks(roots)
<1>1. /\ D \subseteq Live /\ 0 \notin D
      /\ \A r \in roots : r = 0 \/ r \in D
      /\ \A c \in D : c \in roots \/ \E n \in D, k \in Int : Pt[n][k] = c
      /\ \A n \in Nat, k \in Int :
              Pt[n][k] \in D <=> \/ n \in D /\ Pt[n][k] # 0
                                 \/ n = 0 /\ Pt[n][k] \in roots /\ Pt[n][k] # 0
  BY PointsInto
<1>2. /\ heap' = [n \in DOMAIN heap |-> [heap[n] EXCEPT !.live = @ /\ n \notin D]]
      /\ bad' = \/ bad
                \/ \E n \in D : ~heap[n].live
                \/ Cardinality(Pointers(heap, D)) + Cardinality(roots \ {NIL}) # Cardinality(D)
  BY DEF Release, Walks
<1> HIDE DEF D
<1>3. /\ Live' = Live \ D
      /\ \A n, k : ParamOf(heap', n, k) = IF n \in D THEN NIL ELSE ParamOf(heap, n, k)
  BY <1>2, ParamFree
<1>4. Own(Pt', Live')
  <2>1. Pt' \in Pointings
    BY SlotsType DEF Pt, Control
  <2>2. ASSUME NEW n \in Nat, NEW k \in Int
        PROVE  Pt'[n][k] = IF Pt[n][k] \in D THEN 0 ELSE Pt[n][k]
    <3>1. CASE n = 0
      BY <1>1, <3>1
    <3>2. CASE n # 0
      <4>1. Pt[n][k] = ParamOf(heap, n, k) /\ Pt'[n][k] = ParamOf(heap', n, k)
        BY <3>2, SlotsAt DEF Pt
      <4>2. Pt[n][k] \in D <=> n \in D /\ Pt[n][k] # 0
        BY <1>1, <3>2
      <4> QED BY <1>3, <4>1, <4>2 DEF NIL
    <3> QED BY <3>1, <3>2
  <2>3. \A n \in Nat, k \in Int : Pt'[n][k] = IF Pt[n][k] \in D THEN 0 ELSE Pt[n][k]
    BY <2>2
  <2> QED BY <1>3, <2>1, <2>3, CutOwn
<1>5. \A n \in D : heap[n].live
  BY <1>1 DEF Live
<1>6. Cardinality(Pointers(heap, D)) + Cardinality(roots \ {NIL}) = Cardinality(D)
  <2> DEFINE P == Pointers(heap, D)
             X == D \ roots
  <2>1. IsFiniteSet(D)
    BY <1>1, LiveFinite, FS_Subset
  <2>2. IsFiniteSet(X) /\ IsFiniteSet(roots \ {NIL}) /\ X \cap (roots \ {NIL}) = {}
        /\ X \cup (roots \ {NIL}) = D
    <3>1. X \subseteq D /\ roots \ {NIL} \subseteq D /\ X \cap (roots \ {NIL}) = {}
          /\ X \cup (roots \ {NIL}) = D
      BY <1>1 DEF NIL
    <3> QED BY <2>1, <3>1, FS_Subset
  <2>3. \A p \in P : /\ p[1] \in D /\ p[2] \in Int /\ p = <<p[1], p[2], p[3]>>
                     /\ p[3] # 0 /\ Pt[p[1]][p[2]] = p[3]
    <3> SUFFICES ASSUME NEW n \in D, NEW k \in DOMAIN heap[n].params, heap[n].params[k] # NIL
                 PROVE  k \in Int /\ Pt[n][k] = heap[n].params[k]
      BY DEF Pointers, NIL
    <3>1. n \in DOMAIN heap /\ heap[n].live /\ n \in Nat /\ n # 0 /\ heap[n] \in NodeSet
      BY <1>1 DEF Live, Control
    <3>2. heap[n].params \in Seq(Nat)
      BY <3>1 DEF NodeSet
    <3>3. k \in Int
      BY <3>2
    <3> QED BY <3>1, <3>3, SlotsAt DEF Pt, ParamOf
  <2>4. \A n \in D, k \in Int : Pt[n][k] # 0 => <<n, k, Pt[n][k]>> \in P
    <3> SUFFICES ASSUME NEW n \in D, NEW k \in Int, Pt[n][k] # 0 PROVE <<n, k, Pt[n][k]>> \in P
      OBVIOUS
    <3>1. n \in Nat /\ n # 0
      BY <1>1 DEF Own
    <3>2. k \in DOMAIN heap[n].params /\ Pt[n][k] = heap[n].params[k]
      BY <3>1, SlotsAt DEF Pt, ParamOf, NIL
    <3> QED BY <3>2 DEF Pointers, NIL
  <2> HIDE DEF P
  <2>5. \A n \in D : n \in Nat /\ n # 0
    BY <1>1 DEF Own
  <2>6. \A p \in P : p[3] \in X
    <3> SUFFICES ASSUME NEW p \in P PROVE p[3] \in D /\ p[3] \notin roots
      OBVIOUS
    <3>1. p[1] \in D /\ p[2] \in Int /\ p[3] # 0 /\ Pt[p[1]][p[2]] = p[3] /\ p[1] \in Nat /\ p[1] # 0
      BY <2>3, <2>5
    <3>2. p[3] \in D
      BY <1>1, <3>1
    <3>3. ASSUME p[3] \in roots PROVE FALSE
      <4>1. PICK e \in Int : Pt[0][e] = p[3]
        BY <3>1, <3>3
      <4> QED BY <3>1, <4>1 DEF Own
    <3> QED BY <3>2, <3>3
  <2>7. \A p, q \in P : p[3] = q[3] => p = q
    <3> SUFFICES ASSUME NEW p \in P, NEW q \in P, p[3] = q[3] PROVE p = q
      OBVIOUS
    <3>1. /\ p[1] \in Nat /\ p[2] \in Int /\ p = <<p[1], p[2], p[3]>>
          /\ p[3] # 0 /\ Pt[p[1]][p[2]] = p[3]
          /\ q[1] \in Nat /\ q[2] \in Int /\ q = <<q[1], q[2], q[3]>> /\ Pt[q[1]][q[2]] = q[3]
      BY <2>3, <2>5
    <3>2. p[1] = q[1] /\ p[2] = q[2]
      BY <3>1 DEF Own
    <3> QED BY <3>1, <3>2, Zenon
  <2>8. \A x \in X : \E p \in P : p[3] = x
    <3> SUFFICES ASSUME NEW x \in X PROVE \E p \in P : p[3] = x
      OBVIOUS
    <3>1. PICK n \in D, k \in Int : Pt[n][k] = x
      BY <1>1
    <3>2. x # 0
      BY <1>1
    <3>3. <<n, k, x>> \in P
      BY <2>4, <3>1, <3>2
    <3> QED BY <3>3
  <2>9. Cardinality(P) = Cardinality(X)
    <3> HIDE DEF X
    <3> QED BY <2>2, <2>6, <2>7, <2>8, Thirds
  <2>10. Cardinality(D) = Cardinality(X) + Cardinality(roots \ {NIL})
    <3>1. Cardinality(X \cup (roots \ {NIL})) =
            Cardinality(X) + Cardinality(roots \ {NIL}) - Cardinality(X \cap (roots \ {NIL}))
      BY <2>2, FS_Union
    <3>2. Cardinality({}) = 0
      BY FS_EmptySet
    <3>3. Cardinality(X) \in Nat /\ Cardinality(roots \ {NIL}) \in Nat
      BY <2>2, FS_CardinalityType
    <3> HIDE DEF X
    <3>4. Cardinality(D) = Cardinality(X) + Cardinality(roots \ {NIL}) - 0
      BY <2>2, <3>1, <3>2, Zenon
    <3> QED BY <3>3, <3>4
  <2> QED BY <2>9, <2>10 DEF P
<1> QED BY <1>2, <1>3, <1>4, <1>5, <1>6

\* The pointers of "node" 0.
LEMMA CallSlots ==
  ASSUME Control
  PROVE  /\ Pt[0][0] = val /\ Pt[0][-1] = root
         /\ \A k \in Int : k > 0 => Pt[0][k] = RetOf(stack, k)
         /\ \A k \in Int : k < -1 => Pt[0][k] = 0
<1>1. Pt[0][0] = val /\ Pt[0][-1] = root
  BY SlotsAt DEF Pt
<1>2. \A k \in Int : k > 0 => Pt[0][k] = RetOf(stack, k)
  BY SlotsAt DEF Pt
<1>3. \A k \in Int : k < -1 => Pt[0][k] = RetOf(stack, k)
  BY SlotsAt DEF Pt
<1>4. \A k \in Int : k < -1 => RetOf(stack, k) = 0
  BY DEF RetOf, Control, NIL
<1> QED BY <1>1, <1>2, <1>3, <1>4

\* The pointers after a step, from the calls' part and the nodes' part.
LEMMA NextSlots ==
  ASSUME Control, Control'
  PROVE  /\ Pt' \in Pointings
         /\ \A n \in Nat, k \in Int : n # 0 => Pt'[n][k] = ParamOf(heap', n, k)
         /\ \A n \in Nat, k \in Int : n # 0 => Pt[n][k] = ParamOf(heap, n, k)
         /\ \A k \in Int : Pt'[0][k] = IF k = 0 THEN val' ELSE IF k = -1 THEN root' ELSE RetOf(stack', k)
         /\ \A k \in Int : Pt[0][k] = IF k = 0 THEN val ELSE IF k = -1 THEN root ELSE RetOf(stack, k)
<1>1. Pt' \in Pointings
  BY SlotsType DEF Pt, Control
<1>2. \A n \in Nat, k \in Int : n # 0 => Pt'[n][k] = ParamOf(heap', n, k)
  BY SlotsAt DEF Pt
<1>3. \A n \in Nat, k \in Int : n # 0 => Pt[n][k] = ParamOf(heap, n, k)
  BY SlotsAt DEF Pt
<1>4. \A k \in Int : Pt'[0][k] = IF k = 0 THEN val' ELSE IF k = -1 THEN root' ELSE RetOf(stack', k)
  BY SlotsAt DEF Pt
<1>5. \A k \in Int : Pt[0][k] = IF k = 0 THEN val ELSE IF k = -1 THEN root ELSE RetOf(stack, k)
  BY SlotsAt DEF Pt
<1> QED BY <1>1, <1>2, <1>3, <1>4, <1>5

\* A step that moves no pointer.
LEMMA SameOwn ==
  ASSUME Control, Control', Own(Pt, Live), heap' = heap, val' = val, root' = root,
         \A k \in Int : RetOf(stack', k) = RetOf(stack, k)
  PROVE  Own(Pt', Live')
<1>1. Live' = Live
  BY DEF Live
<1>2. Pt' \in Pointings /\ Pt \in Pointings
  BY NextSlots, PtType
<1>3. \A n \in Nat, k \in Int : Pt'[n][k] = Pt[n][k]
  BY NextSlots
<1>4. Pt = Pt'
  BY <1>2, <1>3, SamePointings
<1> QED BY <1>1, <1>4

\* A step that moves a pointer between calls.
LEMMA PassOwn ==
  ASSUME Control, Control', Own(Pt, Live), heap' = heap, NEW b \in Int, NEW d \in Int, b # d,
         Pt[0][d] = 0,
         \A k \in Int : Pt'[0][k] = IF k = d THEN Pt[0][b] ELSE IF k = b THEN 0 ELSE Pt[0][k]
  PROVE  Own(Pt', Live')
<1>1. Live' = Live
  BY DEF Live
<1> DEFINE g == Moved(Pt, 0, b, 0, d)
<1>2. Own(g, Live)
  BY MoveOwn
<1>3. g \in Pointings
  BY <1>2 DEF Own
<1>4. Pt' \in Pointings
  BY NextSlots
<1>5. \A n \in Nat, k \in Int : g[n][k] = IF n = 0 /\ k = d THEN Pt[0][b]
                                ELSE IF n = 0 /\ k = b THEN 0 ELSE Pt[n][k]
  BY DEF Moved
<1>6. ASSUME NEW n \in Nat, NEW k \in Int PROVE Pt'[n][k] = g[n][k]
  <2>1. CASE n = 0
    BY <1>5, <2>1
  <2>2. CASE n # 0
    <3>1. Pt'[n][k] = Pt[n][k]
      BY <2>2, NextSlots
    <3> QED BY <1>5, <2>2, <3>1
  <2> QED BY <2>1, <2>2
<1> HIDE DEF g
<1>7. g = Pt'
  BY <1>3, <1>4, <1>6, SamePointings
<1> QED BY <1>1, <1>2, <1>7

\* A step that adds a node without parameters, or whose parameters are not parsed yet.
LEMMA LeafOwn ==
  ASSUME Control, Control', Own(Pt, Live), NEW x \in NodeSet, x.live,
         \A k \in DOMAIN x.params : x.params[k] = NIL, Alloc(x), NEW d \in Int, Pt[0][d] = 0,
         \A k \in Int : Pt'[0][k] = IF k = d THEN New ELSE Pt[0][k]
  PROVE  Own(Pt', Live')
<1>1. heap' = Append(heap, x)
  BY DEF Alloc
<1>2. /\ New \in Nat \ {0} /\ New \notin Live /\ Live' = Live \cup {New}
      /\ \A n \in Nat, k \in Int : ParamOf(heap', n, k) =
              IF n # New THEN ParamOf(heap, n, k)
              ELSE IF k \in DOMAIN x.params THEN x.params[k] ELSE NIL
      /\ \A k : ParamOf(heap, New, k) = NIL
  BY <1>1, ParamAlloc
<1>3. \A n \in Nat, k \in Int : ParamOf(heap', n, k) = ParamOf(heap, n, k)
  BY <1>2
<1>4. \A n \in Nat, k \in Int : Pt'[n][k] = IF n = 0 /\ k = d THEN New ELSE Pt[n][k]
  BY <1>3, NextSlots
<1>5. Pt' \in Pointings
  BY NextSlots
<1> QED BY <1>2, <1>4, <1>5, AddOwn

\* power's negation: the value becomes the parameter of a new node, which is returned.
LEMMA NegateOwn ==
  ASSUME Control, Control', Own(Pt, Live), PowerNegate
  PROVE  Own(Pt', Live')
<1> DEFINE x == Node("fun", TRUE, <<val>>)
<1>0. heap' = Append(heap, x) /\ stack # <<>> /\ Top.fn = "power" /\ stack' = Below
      /\ val' = New /\ root' = root /\ pc = "back"
  BY DEF PowerNegate, Alloc, InFrame, Return, result
<1>1. x \in NodeSet /\ x.live /\ x.params = <<val>>
  BY DEF Node, NodeSet, Control
<1>2. DOMAIN x.params = {1} /\ x.params[1] = val
  <2>1. DOMAIN <<val>> = 1..1 /\ <<val>>[1] = val /\ 1..1 = {1}
    OBVIOUS
  <2> QED BY <1>1, <2>1, Zenon
<1> HIDE DEF x
<1>3. /\ New \in Nat \ {0} /\ New \notin Live /\ Live' = Live \cup {New}
      /\ \A n \in Nat, k \in Int : ParamOf(heap', n, k) =
              IF n # New THEN ParamOf(heap, n, k)
              ELSE IF k \in DOMAIN x.params THEN x.params[k] ELSE NIL
      /\ \A k : ParamOf(heap, New, k) = NIL
  BY <1>0, <1>1, ParamAlloc
<1> DEFINE f == Moved(Pt, 0, 0, New, 1)
<1>4. \A n \in Nat, k \in Int : n # 0 => Pt[n][k] = ParamOf(heap, n, k)
  BY NextSlots
<1>5. Pt[New][1] = 0 /\ Pt[0][0] = val
  BY <1>3, <1>4, CallSlots DEF NIL
<1>6. Own(f, Live)
  BY <1>3, <1>5, MoveOwn
<1>7. \A n \in Nat, k \in Int : f[n][k] = IF n = New /\ k = 1 THEN val
                                ELSE IF n = 0 /\ k = 0 THEN 0 ELSE Pt[n][k]
  BY <1>5 DEF Moved
<1>8. f[0][0] = 0
  BY <1>3, <1>7
<1>9. Pt' \in Pointings
  BY NextSlots
<1> HIDE DEF f
<1>10. \A k \in Int : RetOf(stack', k) = RetOf(stack, k)
  <2>1. Top.ret = 0
    BY <1>0, Pops DEF CallSet, NIL
  <2> QED BY <1>0, <2>1, RetPop
<1>11. ASSUME NEW n \in Nat, NEW k \in Int
       PROVE  Pt'[n][k] = IF n = 0 /\ k = 0 THEN New ELSE f[n][k]
  <2>1. CASE n = 0
    BY <1>0, <1>3, <1>7, <1>10, <2>1, NextSlots
  <2>2. CASE n = New
    <3>1. Pt'[n][k] = IF k = 1 THEN val ELSE 0
      BY <1>2, <1>3, <2>2, NextSlots DEF NIL
    <3>2. n # 0 /\ Pt[n][k] = 0
      BY <1>3, <1>4, <2>2 DEF NIL
    <3> QED BY <1>7, <2>2, <3>1, <3>2
  <2>3. CASE n # 0 /\ n # New
    <3>1. Pt'[n][k] = Pt[n][k]
      BY <1>3, <2>3, NextSlots
    <3> QED BY <1>7, <2>3, <3>1
  <2> QED BY <2>1, <2>2, <2>3
<1> QED BY <1>3, <1>6, <1>8, <1>9, <1>11, AddOwn

\* An operator: both operands become parameters of a new node, which the call holds.
LEMMA JoinOwn ==
  ASSUME Control, Control', Own(Pt, Live), ChainJoin
  PROVE  Own(Pt', Live')
<1> DEFINE x == Node("fun", TRUE, <<Top.ret, val>>)
           l == Len(stack)
<1>0. heap' = Append(heap, x) /\ stack # <<>> /\ Top.fn \in Chain /\ root' = root
      /\ Continue([Top EXCEPT !.ret = New], "loop") /\ val' = 0
  BY DEF ChainJoin, Alloc, InFrame, Continue, result, NIL
<1>t. Top \in CallSet /\ Top.ret \in Nat /\ val \in Nat /\ l \in Nat /\ l > 0
  BY <1>0, Pops DEF CallSet, Control
<1>1. x \in NodeSet /\ x.live /\ x.params = <<Top.ret, val>>
  BY <1>t DEF Node, NodeSet
<1>2. DOMAIN x.params = {1, 2} /\ x.params[1] = Top.ret /\ x.params[2] = val
  <2> HIDE DEF x
  <2>1. DOMAIN <<Top.ret, val>> = 1..2 /\ 1..2 = {1, 2}
    OBVIOUS
  <2>2. <<Top.ret, val>>[1] = Top.ret /\ <<Top.ret, val>>[2] = val
    OBVIOUS
  <2> QED BY <1>1, <2>1, <2>2, Zenon
<1> HIDE DEF x
<1>3. /\ New \in Nat \ {0} /\ New \notin Live /\ Live' = Live \cup {New}
      /\ \A n \in Nat, k \in Int : ParamOf(heap', n, k) =
              IF n # New THEN ParamOf(heap, n, k)
              ELSE IF k \in DOMAIN x.params THEN x.params[k] ELSE NIL
      /\ \A k : ParamOf(heap, New, k) = NIL
  BY <1>0, <1>1, ParamAlloc
<1>4. /\ \A k \in Int : RetOf(stack', k) = IF k = l THEN New ELSE RetOf(stack, k)
      /\ RetOf(stack, l) = Top.ret
  <2>1. [Top EXCEPT !.ret = New] \in CallSet /\ [Top EXCEPT !.ret = New].ret = New
    BY <1>0, <1>t, <1>3 DEF CallSet, NIL, Chain
  <2> QED BY <1>0, <2>1, RetGoes
<1> HIDE DEF l
<1> DEFINE f == Moved(Pt, 0, l, New, 1)
           g == Moved(f, 0, 0, New, 2)
<1>5. \A n \in Nat, k \in Int : n # 0 => Pt[n][k] = ParamOf(heap, n, k)
  BY NextSlots
<1>6. Pt[0][0] = val /\ Pt[0][l] = Top.ret /\ \A k \in Int : Pt[New][k] = 0
  BY <1>3, <1>4, <1>5, <1>t, CallSlots DEF NIL
<1>7. Own(f, Live)
  BY <1>3, <1>6, <1>t, MoveOwn
<1>8. \A n \in Nat, k \in Int : f[n][k] = IF n = New /\ k = 1 THEN Top.ret
                                ELSE IF n = 0 /\ k = l THEN 0 ELSE Pt[n][k]
  BY <1>6 DEF Moved
<1>9. f[New][2] = 0 /\ f[0][0] = val
  BY <1>3, <1>6, <1>8, <1>t
<1> HIDE DEF f
<1>10. Own(g, Live)
  BY <1>3, <1>7, <1>9, MoveOwn
<1>11. \A n \in Nat, k \in Int : g[n][k] = IF n = New /\ k = 2 THEN val
                                 ELSE IF n = 0 /\ k = 0 THEN 0 ELSE f[n][k]
  BY <1>9 DEF Moved
<1> HIDE DEF g
<1>12. g[0][l] = 0
  BY <1>3, <1>8, <1>11, <1>t
<1>13. Pt' \in Pointings
  BY NextSlots
<1>14. ASSUME NEW n \in Nat, NEW k \in Int
       PROVE  Pt'[n][k] = IF n = 0 /\ k = l THEN New ELSE g[n][k]
  <2>1. CASE n = 0
    <3>1. Pt'[0][k] = IF k = 0 THEN 0 ELSE IF k = -1 THEN root ELSE IF k = l THEN New
                      ELSE RetOf(stack, k)
      BY <1>0, <1>4, NextSlots
    <3>2. Pt[0][k] = IF k = 0 THEN val ELSE IF k = -1 THEN root ELSE RetOf(stack, k)
      BY NextSlots
    <3>3. g[0][k] = IF k = 0 THEN 0 ELSE IF k = l THEN 0 ELSE Pt[0][k]
      BY <1>3, <1>8, <1>11
    <3> QED BY <1>t, <2>1, <3>1, <3>2, <3>3
  <2>2. CASE n = New
    <3>1. Pt'[n][k] = IF k = 1 THEN Top.ret ELSE IF k = 2 THEN val ELSE 0
      BY <1>2, <1>3, <2>2, NextSlots DEF NIL
    <3>2. n # 0 /\ Pt[n][k] = 0
      BY <1>3, <1>6, <2>2
    <3> QED BY <1>8, <1>11, <2>2, <3>1, <3>2
  <2>3. CASE n # 0 /\ n # New
    <3>1. Pt'[n][k] = Pt[n][k]
      BY <1>3, <2>3, NextSlots
    <3> QED BY <1>8, <1>11, <2>3, <3>1
  <2> QED BY <2>1, <2>2, <2>3
<1> QED BY <1>3, <1>10, <1>12, <1>13, <1>14, <1>t, AddOwn

\* A call of base that waits for an argument has parsed the ones before, and the
\* parameters from there on are NULL; "()" is read for functions without parameters.
Filling ==
  \A j \in DOMAIN stack : stack[j].fn = "base" =>
    /\ \A k \in DOMAIN heap[stack[j].ret].params :
         k > stack[j].i <=> heap[stack[j].ret].params[k] = NIL
    /\ IF j = Len(stack) /\ pc = "args" THEN stack[j].i = 0
       ELSE IF j = Len(stack) /\ pc = "close" THEN heap[stack[j].ret].params = <<>>
       ELSE stack[j].i < Len(heap[stack[j].ret].params)

\* The node of a call of base is live, and is the node of no other call.
LEMMA Held ==
  ASSUME Control, Own(Pt, Live)
  PROVE  /\ \A j \in DOMAIN stack : stack[j].ret # 0 => stack[j].ret \in Live
         /\ \A j, k \in DOMAIN stack : stack[j].ret = stack[k].ret /\ stack[j].ret # 0 => j = k
<1>1. \A j \in DOMAIN stack : j \in Int /\ j > 0
  BY DEF Control
<1>2. \A j \in DOMAIN stack : Pt[0][j] = stack[j].ret
  BY <1>1, CallSlots DEF RetOf
<1> QED BY <1>1, <1>2 DEF Own

\* The call of base to which an argument is returned.
LEMMA Awaits ==
  ASSUME Control, Own(Pt, Live), Filling, stack # <<>>, Top.fn = "base", pc \notin {"args", "close"}
  PROVE  /\ Top \in CallSet /\ Top.ret \in Live /\ Top.i \in Nat
         /\ Len(stack) \in DOMAIN stack
         /\ heap[Top.ret].params \in Seq(Nat) /\ Top.i < Len(heap[Top.ret].params)
         /\ \A k \in DOMAIN heap[Top.ret].params : k > Top.i <=> heap[Top.ret].params[k] = NIL
<1>1. Top \in CallSet /\ Len(stack) \in DOMAIN stack
  BY Pops DEF Control
<1>2. Top.i \in Nat /\ Top.ret # 0
  BY <1>1 DEF CallSet, NIL
<1>3. Top.ret \in Live
  BY <1>1, <1>2, Held DEF Top
<1>4. heap[Top.ret] \in NodeSet
  BY <1>3 DEF Live, Control
<1>5. heap[Top.ret].params \in Seq(Nat)
  BY <1>4 DEF NodeSet
<1>6. /\ Top.i < Len(heap[Top.ret].params)
      /\ \A k \in DOMAIN heap[Top.ret].params : k > Top.i <=> heap[Top.ret].params[k] = NIL
  BY <1>1 DEF Filling, Top
<1> QED BY <1>1, <1>2, <1>3, <1>5, <1>6

\* An argument is attached to the function's node, which the call holds or returns.
LEMMA AttachOwn ==
  ASSUME Control, Control', Own(Pt, Live), Filling, ArgAttached
  PROVE  Own(Pt', Live')
<1> DEFINE m == Top.ret
           j == Top.i + 1
           l == Len(stack)
<1>0. stack # <<>> /\ Top.fn = "base" /\ root' = root /\ pc = "back"
      /\ heap' = [heap EXCEPT ![m].params[j] = val]
      /\ (Continue([Top EXCEPT !.i = @ + 1], "arg") \/ Return(Below, m))
  BY DEF ArgAttached, InFrame, result
<1>1. /\ Top \in CallSet /\ m \in Live /\ Top.i \in Nat
      /\ heap[m].params \in Seq(Nat) /\ Top.i < Len(heap[m].params)
      /\ \A k \in DOMAIN heap[m].params : k > Top.i <=> heap[m].params[k] = NIL
  BY <1>0, Awaits
<1>2. j \in DOMAIN heap[m].params /\ j \in Int /\ l \in Nat /\ l > 0
  BY <1>0, <1>1, Pops
<1>3. heap[m].params[j] = NIL /\ m \in Nat /\ m # 0 /\ heap[m].live /\ m \in DOMAIN heap
  BY <1>1, <1>2 DEF Own, Live
<1>4. /\ Live' = Live
      /\ \A n \in Nat, k \in Int :
              ParamOf(heap', n, k) = IF n = m /\ k = j THEN val ELSE ParamOf(heap, n, k)
  BY <1>0, <1>1, <1>2, ParamSet
<1>5. RetOf(stack, l) = m
  BY <1>2 DEF RetOf, Top, Control
<1>6. Pt[m][j] = 0 /\ Pt[0][l] = m /\ Pt[0][0] = val
  BY <1>2, <1>3, <1>5, NextSlots, CallSlots DEF ParamOf, NIL
<1>7. /\ \A n \in Nat, k \in Int : n # 0 => Pt'[n][k] = IF n = m /\ k = j THEN val ELSE Pt[n][k]
      /\ Pt' \in Pointings
  BY <1>4, NextSlots
<1>8. /\ \A k \in Int : Pt'[0][k] = IF k = 0 THEN val' ELSE IF k = -1 THEN root' ELSE RetOf(stack', k)
      /\ \A k \in Int : Pt[0][k] = IF k = 0 THEN val ELSE IF k = -1 THEN root ELSE RetOf(stack, k)
  BY NextSlots
<1> HIDE DEF j, l, m
<1> DEFINE f == Moved(Pt, 0, 0, m, j)
<1>9. Own(f, Live)
  BY <1>2, <1>3, <1>6, MoveOwn
<1>10. \A n \in Nat, k \in Int : f[n][k] = IF n = m /\ k = j THEN val
                                ELSE IF n = 0 /\ k = 0 THEN 0 ELSE Pt[n][k]
  BY <1>6 DEF Moved
<1>11. f \in Pointings
  BY <1>9 DEF Own
<1> HIDE DEF f
<1>12. CASE Continue([Top EXCEPT !.i = @ + 1], "arg")
  <2>1. [Top EXCEPT !.i = @ + 1] \in CallSet /\ [Top EXCEPT !.i = @ + 1].ret = m
    BY <1>0, <1>1 DEF CallSet, NIL, Chain, m
  <2>2. \A k \in Int : RetOf(stack', k) = IF k = l THEN m ELSE RetOf(stack, k)
    BY <1>0, <1>12, <2>1, RetGoes DEF l
  <2>3. \A k \in Int : RetOf(stack', k) = RetOf(stack, k)
    BY <1>5, <2>2
  <2>4. val' = 0
    BY <1>12 DEF Continue, NIL
  <2>5. \A n \in Nat, k \in Int : Pt'[n][k] = f[n][k]
    BY <1>0, <1>3, <1>7, <1>8, <1>10, <2>3, <2>4
  <2>6. f = Pt'
    BY <1>7, <1>11, <2>5, SamePointings
  <2> QED BY <1>4, <1>9, <2>6
<1>13. CASE Return(Below, m)
  <2>1. stack' = Below /\ val' = m
    BY <1>13 DEF Return
  <2>2. \A k \in Int : RetOf(stack', k) = IF k = l THEN 0 ELSE RetOf(stack, k)
    BY <1>0, <2>1, RetPop DEF l
  <2> DEFINE g == Moved(f, 0, l, 0, 0)
  <2>3. f[0][0] = 0 /\ f[0][l] = m
    BY <1>2, <1>3, <1>6, <1>10
  <2>4. Own(g, Live)
    BY <1>2, <1>9, <2>3, MoveOwn
  <2>5. \A n \in Nat, k \in Int : g[n][k] = IF n = 0 /\ k = 0 THEN m
                                  ELSE IF n = 0 /\ k = l THEN 0 ELSE f[n][k]
    BY <2>3 DEF Moved
  <2>6. g \in Pointings
    BY <2>4 DEF Own
  <2> HIDE DEF g
  <2>7. ASSUME NEW n \in Nat, NEW k \in Int PROVE Pt'[n][k] = g[n][k]
    <3>1. CASE n = 0
      BY <1>0, <1>2, <1>3, <1>8, <1>10, <2>1, <2>2, <2>5, <3>1
    <3>2. CASE n # 0
      BY <1>7, <1>10, <2>5, <3>2
    <3> QED BY <3>1, <3>2
  <2>8. g = Pt'
    BY <1>7, <2>6, <2>7, SamePointings
  <2> QED BY <1>4, <2>4, <2>8
<1> QED BY <1>0, <1>12, <1>13 DEF m

\* The nodes that optimize frees: those below the functions it folds.
Folds(n) == UNION {Children(heap, m) : m \in Folded(heap, n)}

\* optimize visits live nodes only, and frees what hangs below the ones it folds.
LEMMA OptimizeWalks ==
  ASSUME Control, Own(Pt, Live), val \in Live
  PROVE  /\ Visited(heap, val) \subseteq Live /\ Folded(heap, val) \subseteq Live
         /\ Walks(Folds(val)) \subseteq Live
         /\ \A n \in Nat, k \in Int :
              Pt[n][k] \in Walks(Folds(val))
                <=> (n \in Walks(Folds(val)) \/ n \in Folded(heap, val)) /\ Pt[n][k] # 0
<1> DEFINE C == Folds(val)
           F == Folded(heap, val)
           D == Walks(C)
<1>1. \A m \in Live : Children(heap, m) \subseteq Live
  BY ChildrenAre DEF Own
<1>2. Visited(heap, val) \subseteq Live
  <2>1. Len(heap) \in Nat
    BY LiveFinite
  <2>2. \A m \in Live \cap {p \in DOMAIN heap : heap[p].pure} : Children(heap, m) \subseteq Live
    BY <1>1
  <2> QED BY <2>1, <2>2, ClosureWithin DEF Visited
<1>3. F \subseteq Live
  BY <1>2 DEF Folded
<1>4. C \subseteq Live
  BY <1>1, <1>3 DEF Folds
<1> HIDE DEF C, F
<1>5. /\ D \subseteq Live
      /\ \A r \in C : r # 0 => r \in D
      /\ \A n \in D, k \in Int : Pt[n][k] # 0 => Pt[n][k] \in D
      /\ \A c \in D : c \in C \/ \E n \in D, k \in Int : Pt[n][k] = c
  BY <1>4, ReachOwn
<1> HIDE DEF D
<1>6. \A x, y \in Nat, i, l \in Int : Pt[x][i] = Pt[y][l] /\ Pt[x][i] # 0 => x = y /\ i = l
  BY DEF Own
<1>7. 0 \notin Live /\ Live \subseteq Nat
  BY DEF Own
<1>8. ASSUME NEW n \in Nat, NEW k \in Int, n \in D \/ n \in F, Pt[n][k] # 0
      PROVE  Pt[n][k] \in D
  <2>1. CASE n \in D
    BY <1>5, <1>8, <2>1
  <2>2. CASE n \in F
    <3>1. Pt[n][k] \in Children(heap, n)
      BY <1>3, <1>8, <2>2, ChildrenAre
    <3>2. Pt[n][k] \in C
      BY <2>2, <3>1 DEF C, F, Folds
    <3> QED BY <1>5, <1>8, <3>2
  <2> QED BY <1>8, <2>1, <2>2
<1>9. ASSUME NEW n \in Nat, NEW k \in Int, Pt[n][k] \in D
      PROVE  (n \in D \/ n \in F) /\ Pt[n][k] # 0
  <2>1. Pt[n][k] # 0
    BY <1>5, <1>7, <1>9
  <2>2. CASE Pt[n][k] \in C
    <3>1. PICK m \in F : Pt[n][k] \in Children(heap, m)
      BY <2>2 DEF C, F, Folds
    <3>2. m \in Nat
      BY <1>3, <1>7
    <3>3. PICK j \in Int : Pt[m][j] = Pt[n][k]
      BY <1>3, <3>1, ChildrenAre
    <3>4. n = m
      BY <1>6, <2>1, <3>2, <3>3
    <3> QED BY <2>1, <3>4
  <2>3. CASE Pt[n][k] \notin C
    <3>1. PICK m \in D, j \in Int : Pt[m][j] = Pt[n][k]
      BY <1>5, <1>9, <2>3
    <3>2. m \in Nat
      BY <1>5, <1>7
    <3>3. n = m
      BY <1>6, <2>1, <3>1, <3>2
    <3> QED BY <2>1, <3>3
  <2> QED BY <2>2, <2>3
<1> QED BY <1>2, <1>3, <1>5, <1>8, <1>9 DEF C, D, F

\* What is left of the heap after optimize.
LEMMA OptimizeHeap ==
  ASSUME Control, Own(Pt, Live), val \in Live, Optimize(val)
  PROVE  /\ DOMAIN heap' = DOMAIN heap
         /\ Live' = Live \ Walks(Folds(val))
         /\ \A n \in DOMAIN heap :
              IF n \in Walks(Folds(val))
              THEN ~heap'[n].live /\ heap'[n].params = heap[n].params
              ELSE IF n \in Folded(heap, val) THEN heap'[n] = Node("const", FALSE, <<>>)
              ELSE heap'[n] = heap[n]
         /\ \A n \in Nat, k \in Int :
              ParamOf(heap', n, k) = IF n \in Walks(Folds(val)) \/ n \in Folded(heap, val)
                                     THEN 0 ELSE ParamOf(heap, n, k)
<1> DEFINE F == Folded(heap, val)
           D == Walks(Folds(val))
<1>1. heap' = [m \in DOMAIN heap |->
                   IF m \in D THEN [heap[m] EXCEPT !.live = FALSE]
                   ELSE IF m \in F THEN Node("const", FALSE, <<>>)
                   ELSE heap[m]]
  BY DEF Optimize, Walks, Folds
<1>2. D \subseteq Live /\ F \subseteq Live
  BY OptimizeWalks
<1> HIDE DEF D, F
<1>3. \A n \in DOMAIN heap : heap[n] \in NodeSet
  BY DEF Control
<1>4. \A n \in DOMAIN heap :
        /\ [heap[n] EXCEPT !.live = FALSE].live = FALSE
        /\ [heap[n] EXCEPT !.live = FALSE].params = heap[n].params
  BY <1>3 DEF NodeSet
<1>5. DOMAIN heap' = DOMAIN heap
  BY <1>1
<1>6. \A n \in DOMAIN heap :
        IF n \in D THEN ~heap'[n].live /\ heap'[n].params = heap[n].params
        ELSE IF n \in F THEN heap'[n] = Node("const", FALSE, <<>>)
        ELSE heap'[n] = heap[n]
  BY <1>1, <1>4
<1>7. Node("const", FALSE, <<>>).live /\ DOMAIN Node("const", FALSE, <<>>).params = {}
  BY DEF Node
<1> HIDE <1>1
<1>8. Live' = Live \ D
  BY <1>2, <1>5, <1>6, <1>7 DEF Live
<1>9. ASSUME NEW n \in Nat, NEW k \in Int
      PROVE  ParamOf(heap', n, k) = IF n \in D \/ n \in F THEN 0 ELSE ParamOf(heap, n, k)
  <2>1. CASE n \in D
    BY <1>2, <1>6, <2>1 DEF ParamOf, Live, NIL
  <2>2. CASE n \notin D /\ n \in F
    BY <1>2, <1>6, <1>7, <2>2 DEF ParamOf, Live, NIL
  <2>3. CASE n \notin D /\ n \notin F
    BY <1>5, <1>6, <2>3 DEF ParamOf
  <2> QED BY <2>1, <2>2, <2>3
<1> QED BY <1>5, <1>6, <1>8, <1>9 DEF D, F

\* te_compile returns what it has optimized: the nodes left are owned, and optimize
\* follows no NULL parameter when there is none.
LEMMA OptimizeOwn ==
  ASSUME Control, Control', Own(Pt, Live), CompileOk,
         \A n \in Live : \A k \in DOMAIN heap[n].params : heap[n].params[k] # NIL
  PROVE  Own(Pt', Live') /\ (bad' <=> bad)
<1> DEFINE D == Walks(Folds(val))
           f == [n \in Nat |-> [k \in Int |-> IF Pt[n][k] \in D THEN 0 ELSE Pt[n][k]]]
           g == Moved(f, 0, 0, 0, -1)
<1>0. stack = <<>> /\ stack' = stack /\ val # 0 /\ Optimize(val) /\ root' = val /\ val' = 0
      /\ root = 0 /\ val \in Nat
  BY DEF CompileOk, Returned, Control, NIL
<1>1. Pt[0][0] = val /\ Pt[0][-1] = 0
  BY <1>0, CallSlots
<1>2. val \in Live
  BY <1>0, <1>1 DEF Own
<1>3. /\ Visited(heap, val) \subseteq Live /\ D \subseteq Live
      /\ \A n \in Nat, k \in Int :
           Pt[n][k] \in D <=> (n \in D \/ n \in Folded(heap, val)) /\ Pt[n][k] # 0
      /\ Folded(heap, val) \subseteq Live
  BY <1>2, OptimizeWalks
<1>4. /\ Live' = Live \ D
      /\ \A n \in Nat, k \in Int :
              ParamOf(heap', n, k) = IF n \in D \/ n \in Folded(heap, val)
                                     THEN 0 ELSE ParamOf(heap, n, k)
  BY <1>0, <1>2, OptimizeHeap
<1>5. 0 \notin Live /\ \A n \in Nat, k \in Int : Pt[n][k] \in Nat
  <2>1. Pt \in [Nat -> [Int -> Nat]]
    BY PtType DEF Pointings
  <2>2. \A n \in Nat : Pt[n] \in [Int -> Nat]
    BY <2>1
  <2> QED BY <2>2 DEF Own
<1> HIDE DEF D
<1>6. f \in Pointings /\ \A n \in Nat, k \in Int : f[n][k] = IF Pt[n][k] \in D THEN 0 ELSE Pt[n][k]
  <2>1. \A n \in Nat, k \in Int : (IF Pt[n][k] \in D THEN 0 ELSE Pt[n][k]) \in Nat
    BY <1>5
  <2> QED BY <2>1 DEF Pointings
<1> HIDE DEF f
<1>7. Own(f, Live')
  BY <1>4, <1>6, CutOwn
<1>8. f[0][0] = val /\ f[0][-1] = 0
  BY <1>1, <1>3, <1>5, <1>6
<1>9. Own(g, Live')
  BY <1>7, <1>8, MoveOwn
<1>10. \A n \in Nat, k \in Int : g[n][k] = IF n = 0 /\ k = -1 THEN val
                                 ELSE IF n = 0 /\ k = 0 THEN 0 ELSE f[n][k]
  BY <1>8 DEF Moved
<1>11. g \in Pointings
  BY <1>9 DEF Own
<1> HIDE DEF g
<1>12. ASSUME NEW n \in Nat, NEW k \in Int PROVE Pt'[n][k] = g[n][k]
  <2>1. CASE n = 0
    <3>1. Pt'[0][k] = IF k = 0 THEN 0 ELSE IF k = -1 THEN val ELSE RetOf(stack, k)
      BY <1>0, NextSlots
    <3>2. Pt[0][k] = IF k = 0 THEN val ELSE IF k = -1 THEN 0 ELSE RetOf(stack, k)
      BY <1>0, NextSlots
    <3>3. Pt[0][k] \notin D
      BY <1>3, <1>5
    <3> QED BY <1>6, <1>10, <2>1, <3>1, <3>2, <3>3
  <2>2. CASE n # 0
    <3>1. Pt'[n][k] = ParamOf(heap', n, k) /\ Pt[n][k] = ParamOf(heap, n, k)
      BY <2>2, NextSlots
    <3>2. Pt'[n][k] = IF Pt[n][k] \in D THEN 0 ELSE Pt[n][k]
      BY <1>3, <1>4, <3>1
    <3> QED BY <1>6, <1>10, <2>2, <3>2
  <2> QED BY <2>1, <2>2
<1>13. Pt' \in Pointings
  BY NextSlots
<1>14. g = Pt'
  BY <1>11, <1>12, <1>13, SamePointings
<1>15. Own(Pt', Live')
  BY <1>9, <1>14
<1>16. bad' <=> bad
  <2>1. \A m \in Visited(heap, val) : heap[m].live
    BY <1>3 DEF Live
  <2>2. \A m \in Visited(heap, val) : NIL \notin {heap[m].params[k] : k \in DOMAIN heap[m].params}
    BY <1>3
  <2> QED BY <1>0, <2>1, <2>2 DEF Optimize
<1> QED BY <1>15, <1>16

\* A call that ends with NULL frees what it holds and what was returned to it.
LEMMA DropOwn ==
  ASSUME Control, Control', Own(Pt, Live), stack # <<>>, stack' = Below, val' = 0, root' = root,
         NEW roots, Release(roots), val = 0 \/ val \in roots, Top.ret = 0 \/ Top.ret \in roots,
         \A r \in roots : r = 0 \/ r = val \/ r = Top.ret
  PROVE  Own(Pt', Live') /\ (bad' <=> bad)
<1> DEFINE l == Len(stack)
<1>1. /\ l \in Nat /\ l > 0 /\ RetOf(stack, l) = Top.ret
      /\ \A k \in Int : RetOf(stack', k) = IF k = l THEN 0 ELSE RetOf(stack, k)
  BY RetPop
<1>2. Pt[0][0] = val /\ Pt[0][l] = Top.ret
  BY <1>1, CallSlots
<1> HIDE DEF l
<1>3. \A r \in roots : r = 0 \/ \E e \in Int : Pt[0][e] = r
  BY <1>1, <1>2
<1>4. \A k, j \in Int : Pt[0][k] = Pt[0][j] /\ Pt[0][k] # 0 => k = j
  BY DEF Own
<1>5. ASSUME NEW k \in Int PROVE Pt'[0][k] = IF Pt[0][k] \in roots THEN 0 ELSE Pt[0][k]
  <2>1. Pt'[0][k] = IF k = 0 THEN 0 ELSE IF k = -1 THEN root ELSE IF k = l THEN 0
                    ELSE RetOf(stack, k)
    BY <1>1, NextSlots
  <2>2. Pt[0][k] = IF k = 0 THEN val ELSE IF k = -1 THEN root ELSE RetOf(stack, k)
    BY NextSlots
  <2>3. CASE k = 0 \/ k = l
    BY <1>1, <1>2, <2>1, <2>3
  <2>4. CASE k # 0 /\ k # l
    <3>1. Pt[0][k] \in roots => Pt[0][k] = 0
      BY <1>1, <1>2, <1>4, <2>4
    <3> QED BY <2>1, <2>2, <2>4, <3>1
  <2> QED BY <2>3, <2>4
<1> QED BY <1>3, <1>5, FreeOwn

\* As long as there is no error, a node with a parameter that is NULL is being parsed.
Filled ==
  tok # "error" =>
    \A n \in Live : (\E k \in DOMAIN heap[n].params : heap[n].params[k] = NIL)
                      => \E j \in DOMAIN stack : stack[j].fn = "base" /\ stack[j].ret = n

\* Every step keeps the nodes owned, and frees or follows no node wrongly.
LEMMA OwnStep ==
  ASSUME Control, Control', Own(Pt, Live), Filling, Filled, [Next]_vars
  PROVE  Own(Pt', Live') /\ (bad' <=> bad)
<1>v. pc # "back" => val = 0
  BY DEF Control, NIL
<1>n. New \in Nat
  BY DEF Control, New
<1>1. CASE Compile
  BY <1>1, <1>v, SameOwn DEF Compile, Call, memory, result, NIL, Control
<1>2. CASE EnterChain
  <2>1. [fn |-> callee, ret |-> NIL, i |-> 0] \in CallSet
    BY <1>2 DEF EnterChain, CallSet, Chain, NIL
  <2>2. stack' = Append(stack, [fn |-> callee, ret |-> NIL, i |-> 0])
        /\ heap' = heap /\ bad' = bad /\ root' = root /\ val' = val
    BY <1>2, <1>v DEF EnterChain, Call, memory, result, NIL
  <2>3. \A k \in Int : RetOf(stack', k) = RetOf(stack, k)
    BY <2>1, <2>2, RetPush DEF NIL
  <2> QED BY <2>2, <2>3, SameOwn
<1>3. CASE ChainNull
  <2>1. stack # <<>> /\ stack' = Below /\ val = 0 /\ val' = 0 /\ root' = root /\ Release({Top.ret})
    BY <1>3 DEF ChainNull, InFrame, Return, Free, result, NIL
  <2> QED BY <2>1, DropOwn
<1>4. CASE ChainFirst
  <2>0. stack # <<>> /\ val # 0 /\ Top.ret = 0 /\ Continue([Top EXCEPT !.ret = val], "loop")
        /\ heap' = heap /\ bad' = bad /\ root' = root /\ val' = 0 /\ Top.fn \in Chain
    BY <1>4 DEF ChainFirst, InFrame, Continue, memory, result, NIL
  <2>1. [Top EXCEPT !.ret = val] \in CallSet /\ [Top EXCEPT !.ret = val].ret = val
    BY <2>0, Pops DEF CallSet, Chain, NIL, Control
  <2>2. /\ \A k \in Int : RetOf(stack', k) = IF k = Len(stack) THEN val ELSE RetOf(stack, k)
        /\ RetOf(stack, Len(stack)) = 0 /\ Len(stack) \in Nat /\ Len(stack) > 0
    BY <2>0, <2>1, RetGoes
  <2>3. Pt[0][Len(stack)] = 0 /\ Pt[0][0] = val
    BY <2>2, CallSlots
  <2>4. \A k \in Int : Pt'[0][k] = IF k = Len(stack) THEN Pt[0][0] ELSE IF k = 0 THEN 0 ELSE Pt[0][k]
    BY <2>0, <2>2, <2>3, NextSlots
  <2> QED BY <2>0, <2>2, <2>3, <2>4, PassOwn
<1>5. CASE ChainJoin
  BY <1>5, JoinOwn DEF ChainJoin, Alloc
<1>6. CASE ChainJoinFails
  <2>1. stack # <<>> /\ stack' = Below /\ val' = 0 /\ root' = root /\ Release({val, Top.ret})
    BY <1>6 DEF ChainJoinFails, InFrame, Return, AllocFails, result, NIL
  <2> QED BY <2>1, DropOwn
<1>7. CASE ChainMore \/ PowerBase \/ Arg
  <2>1. stack' = stack /\ heap' = heap /\ bad' = bad /\ root' = root /\ val' = val
    BY <1>7, <1>v DEF ChainMore, PowerBase, Arg, InFrame, Call, memory, result, NIL
  <2> QED BY <2>1, SameOwn
<1>8. ASSUME stack # <<>>, stack' = Below, val = 0, val' = Top.ret, heap' = heap, root' = root
      PROVE  Own(Pt', Live')
  <2>1. /\ \A k \in Int : RetOf(stack', k) = IF k = Len(stack) THEN 0 ELSE RetOf(stack, k)
        /\ RetOf(stack, Len(stack)) = Top.ret /\ Len(stack) \in Nat /\ Len(stack) > 0
    BY <1>8, RetPop
  <2>2. Pt[0][Len(stack)] = Top.ret /\ Pt[0][0] = 0
    BY <1>8, <2>1, CallSlots
  <2>3. \A k \in Int : Pt'[0][k] = IF k = 0 THEN Pt[0][Len(stack)]
                                   ELSE IF k = Len(stack) THEN 0 ELSE Pt[0][k]
    BY <1>8, <2>1, <2>2, NextSlots
  <2> QED BY <1>8, <2>1, <2>2, <2>3, PassOwn
<1>9. CASE ChainDone \/ NoArgsClose
  <2>1. stack # <<>> /\ stack' = Below /\ val = 0 /\ val' = Top.ret /\ heap' = heap
        /\ root' = root /\ bad' = bad
    BY <1>9, <1>v DEF ChainDone, NoArgsClose, InFrame, Return, memory, result
  <2> QED BY <2>1, <1>8
<1>10. CASE NoArgs \/ Args
  <2>0. stack # <<>> /\ val = 0 /\ heap' = heap /\ root' = root /\ bad' = bad /\ Top.fn = "base"
        /\ (Continue(Top, "close") \/ Continue(Top, "arg") \/ Return(Below, Top.ret))
    BY <1>10, <1>v DEF NoArgs, Args, InFrame, memory, result
  <2>1. ASSUME NEW step, Continue(Top, step) PROVE Own(Pt', Live')
    <3>1. Top \in CallSet
      BY <2>0, Pops
    <3>2. \A k \in Int : RetOf(stack', k) = RetOf(stack, k)
      BY <2>0, <2>1, <3>1, RetGoes
    <3>3. val' = val
      BY <2>0, <2>1 DEF Continue, NIL
    <3> QED BY <2>0, <3>2, <3>3, SameOwn
  <2>2. Return(Below, Top.ret) => Own(Pt', Live')
    BY <1>8, <2>0 DEF Return
  <2> QED BY <2>0, <2>1, <2>2
<1>11. CASE EnterPower
  <2>1. [fn |-> "power", ret |-> NIL, i |-> 0] \in CallSet
    BY DEF CallSet, NIL
  <2>2. stack' = Append(stack, [fn |-> "power", ret |-> NIL, i |-> 0])
        /\ heap' = heap /\ bad' = bad /\ root' = root /\ val' = val
    BY <1>11 DEF EnterPower, memory, result
  <2>3. \A k \in Int : RetOf(stack', k) = RetOf(stack, k)
    BY <2>1, <2>2, RetPush DEF NIL
  <2> QED BY <2>2, <2>3, SameOwn
<1>12. CASE PowerSign
  <2> DEFINE f == [Top EXCEPT !.i = IF tok = "sub" THEN 1 - @ ELSE @]
  <2>0. stack # <<>> /\ Top.fn = "power" /\ Continue(f, "loop") /\ pc = "loop"
        /\ heap' = heap /\ bad' = bad /\ root' = root
    BY <1>12 DEF PowerSign, InFrame, memory, result
  <2>1. f \in CallSet /\ f.ret = Top.ret
    BY <2>0, Pops DEF CallSet, Chain, NIL
  <2>2. val' = val
    BY <2>0, <1>v DEF Continue, NIL
  <2> HIDE DEF f
  <2>3. \A k \in Int : RetOf(stack', k) = RetOf(stack, k)
    BY <2>0, <2>1, RetGoes
  <2> HIDE <1>12
  <2> QED BY <2>0, <2>2, <2>3, SameOwn
<1>13. CASE PowerPlain \/ ParenBack
  <2>0. stack # <<>> /\ Top.fn \in {"power", "paren"} /\ stack' = Below /\ val' = val
        /\ heap' = heap /\ bad' = bad /\ root' = root
    BY <1>13 DEF PowerPlain, ParenBack, InFrame, Return, memory, result
  <2>1. Top.ret = 0
    BY <2>0, Pops DEF CallSet, NIL
  <2>2. \A k \in Int : RetOf(stack', k) = RetOf(stack, k)
    BY <2>0, <2>1, RetPop
  <2> QED BY <2>0, <2>2, SameOwn
<1>14. CASE PowerNegate
  BY <1>14, NegateOwn DEF PowerNegate, Alloc
<1>15. CASE PowerNegateFails
  <2>1. stack # <<>> /\ stack' = Below /\ val' = 0 /\ root' = root /\ Release({val})
        /\ Top.fn = "power"
    BY <1>15 DEF PowerNegateFails, InFrame, Return, AllocFails, result, NIL
  <2>2. Top.ret = 0
    BY <2>1, Pops DEF CallSet, NIL
  <2> QED BY <2>1, <2>2, DropOwn
<1>16. CASE BaseLeaf \/ BaseDefault
  <2>1. PICK t \in {"const", "var"} : Alloc(Node(t, FALSE, <<>>))
    BY <1>16 DEF BaseLeaf, BaseDefault
  <2>2. Node(t, FALSE, <<>>) \in NodeSet /\ Node(t, FALSE, <<>>).live
        /\ \A k \in DOMAIN Node(t, FALSE, <<>>).params : Node(t, FALSE, <<>>).params[k] = NIL
    BY DEF Node, NodeSet
  <2>3. stack' = stack /\ val = 0 /\ val' = New /\ root' = root /\ bad' = bad
    BY <1>16, <1>v DEF BaseLeaf, BaseDefault, InBase, Return, Alloc, result
  <2>4. Pt[0][0] = 0 /\ \A k \in Int : Pt'[0][k] = IF k = 0 THEN New ELSE Pt[0][k]
    BY <2>3, NextSlots
  <2> DEFINE x == Node(t, FALSE, <<>>)
  <2>5. x \in NodeSet /\ x.live /\ (\A k \in DOMAIN x.params : x.params[k] = NIL) /\ Alloc(x)
    BY <2>1, <2>2
  <2> HIDE DEF x
  <2> QED BY <2>3, <2>4, <2>5, LeafOwn
<1>17. CASE BaseFunction
  <2> DEFINE x == Node("fun", tok \notin Impure, [k \in 1..Arity[tok] |-> NIL])
             f == [fn |-> "base", ret |-> New, i |-> 0]
  <2>1. Alloc(x) /\ stack' = Append(stack, f) /\ val = 0 /\ val' = 0 /\ root' = root /\ bad' = bad
    BY <1>17, <1>v DEF BaseFunction, InBase, Call, Alloc, result, NIL
  <2>2. x \in NodeSet /\ x.live /\ \A k \in DOMAIN x.params : x.params[k] = NIL
    <3>1. Arity[tok] \in Nat
      BY <1>17 DEF BaseFunction, FunctionTokens, Arity
    <3>2. [k \in 1..Arity[tok] |-> NIL] \in Seq(Nat)
      BY <3>1 DEF NIL
    <3>3. x.params = [k \in 1..Arity[tok] |-> NIL] /\ x.live
      BY DEF Node
    <3> QED BY <3>2, <3>3 DEF Node, NodeSet
  <2>3. f \in CallSet /\ f.ret = New
    BY <1>n DEF CallSet, NIL, Chain, New, Control
  <2> HIDE DEF x, f
  <2>4. /\ \A k \in Int : RetOf(stack', k) = IF k = Len(stack) + 1 THEN New ELSE RetOf(stack, k)
        /\ RetOf(stack, Len(stack) + 1) = 0 /\ Len(stack) \in Nat
    BY <2>1, <2>3, RetPush
  <2>5. Pt[0][Len(stack) + 1] = 0
        /\ \A k \in Int : Pt'[0][k] = IF k = Len(stack) + 1 THEN New ELSE Pt[0][k]
    BY <2>1, <2>4, NextSlots
  <2> QED BY <2>1, <2>2, <2>4, <2>5, LeafOwn
<1>18. CASE BaseOpen
  <2>1. [fn |-> "paren", ret |-> NIL, i |-> 0] \in CallSet
    BY DEF CallSet, NIL, Chain
  <2>2. stack' = Append(stack, [fn |-> "paren", ret |-> NIL, i |-> 0])
        /\ heap' = heap /\ bad' = bad /\ root' = root /\ val' = val
    BY <1>18, <1>v DEF BaseOpen, InBase, Call, memory, result, NIL
  <2>3. \A k \in Int : RetOf(stack', k) = RetOf(stack, k)
    BY <2>1, <2>2, RetPush DEF NIL
  <2> QED BY <2>2, <2>3, SameOwn
<1>19. CASE BaseFails
  <2>1. stack' = stack /\ val = 0 /\ val' = 0 /\ root' = root /\ Release({})
    BY <1>19, <1>v DEF BaseFails, InBase, Return, AllocFails, result, NIL
  <2>2. \A k \in Int : Pt'[0][k] = Pt[0][k]
    BY <2>1, NextSlots
  <2> QED BY <2>1, <2>2, FreeOwn
<1>20. CASE ArgNull
  <2>1. stack # <<>> /\ stack' = Below /\ val = 0 /\ val' = 0 /\ root' = root /\ Release({Top.ret})
    BY <1>20 DEF ArgNull, InFrame, Return, Free, result, NIL
  <2> QED BY <2>1, DropOwn
<1>21. CASE ArgAttached
  BY <1>21, AttachOwn DEF ArgAttached
<1>22. CASE CompileNull
  BY <1>22, SameOwn DEF CompileNull, memory
<1>23. CASE CompileError
  <2>1. stack' = stack /\ val' = 0 /\ root' = root /\ Release({val}) /\ val # 0
    BY <1>23 DEF CompileError, Free, NIL
  <2>2. Pt[0][0] = val
    BY CallSlots
  <2>3. \A k \in Int : Pt[0][k] = val => k = 0
    BY <2>1, <2>2 DEF Own
  <2>4. \A k \in Int : Pt'[0][k] = IF Pt[0][k] \in {val} THEN 0 ELSE Pt[0][k]
    BY <2>1, <2>3, NextSlots
  <2> QED BY <2>1, <2>2, <2>4, FreeOwn
<1>24. CASE CompileOk
  <2>1. stack = <<>> /\ tok # "error"
    BY <1>24 DEF CompileOk, Returned
  <2>2. \A n \in Live : \A k \in DOMAIN heap[n].params : heap[n].params[k] # NIL
    BY <2>1 DEF Filled
  <2> QED BY <1>24, <2>2, OptimizeOwn
<1>25. CASE FreeExpr
  <2>1. stack' = stack /\ val' = val /\ val = 0 /\ root' = 0 /\ Release({root}) /\ pc = "done"
    BY <1>25, <1>v DEF FreeExpr, Free, NIL
  <2>2. Pt[0][-1] = root
    BY CallSlots
  <2>3. \A k \in Int : Pt[0][k] = root => k = -1 \/ Pt[0][k] = 0
    BY <2>2 DEF Own
  <2>4. \A k \in Int : Pt'[0][k] = IF Pt[0][k] \in {root} THEN 0 ELSE Pt[0][k]
    BY <2>1, <2>3, NextSlots
  <2> QED BY <2>1, <2>2, <2>4, FreeOwn
<1>26. CASE UNCHANGED vars
  BY <1>26, SameOwn DEF vars
<1> QED
  BY <1>1, <1>2, <1>3, <1>4, <1>5, <1>6, <1>7, <1>9, <1>10, <1>11, <1>12, <1>13,
     <1>14, <1>15, <1>16, <1>17, <1>18, <1>19, <1>20, <1>21, <1>22, <1>23, <1>24, <1>25,
     <1>26 DEF Next

\* No node's parameters change.
SameParams == \A n \in DOMAIN heap : n \in DOMAIN heap' /\ heap'[n].params = heap[n].params

\* Only the attachment of an argument and optimize change a node's parameters.
LEMMA Steady ==
  ASSUME Control, [Next]_vars, ~ArgAttached, ~CompileOk
  PROVE  SameParams
<1>1. ASSUME NEW roots, Release(roots) PROVE SameParams
  <2>1. heap' = [n \in DOMAIN heap |-> [heap[n] EXCEPT !.live = @ /\ n \notin Walks(roots)]]
    BY <1>1 DEF Release, Walks
  <2> QED BY <2>1, ParamFree DEF SameParams
<1>2. ASSUME NEW x, Alloc(x) PROVE SameParams
  <2>1. heap \in Seq(NodeSet) /\ heap' = Append(heap, x)
    BY <1>2 DEF Alloc, Control
  <2> QED BY <2>1 DEF SameParams
<1>3. heap' = heap => SameParams
  BY DEF SameParams
<1>4. CASE Compile \/ EnterChain \/ ChainFirst \/ ChainMore \/ ChainDone \/ EnterPower \/ PowerSign
           \/ PowerBase \/ PowerPlain \/ BaseOpen \/ NoArgs \/ NoArgsClose \/ Args \/ Arg
           \/ ParenBack \/ CompileNull
  BY <1>3, <1>4 DEF Compile, EnterChain, ChainFirst, ChainMore, ChainDone, EnterPower, PowerSign,
     PowerBase, PowerPlain, BaseOpen, NoArgs, NoArgsClose, Args, Arg, ParenBack, CompileNull, memory
<1>5. CASE ChainNull \/ ChainJoinFails \/ PowerNegateFails \/ BaseFails \/ ArgNull \/ CompileError
           \/ FreeExpr
  <2>1. Release({Top.ret}) \/ Release({val, Top.ret}) \/ Release({val}) \/ Release({}) \/ Release({root})
    BY <1>5, Zenon DEF ChainNull, ChainJoinFails, PowerNegateFails, BaseFails, ArgNull, CompileError,
       FreeExpr, Free, AllocFails
  <2> QED BY <1>1, <2>1, Zenon
<1>6. CASE ChainJoin \/ PowerNegate \/ BaseLeaf \/ BaseFunction \/ BaseDefault
  <2>1. \E x : Alloc(x)
    BY <1>6, Zenon DEF ChainJoin, PowerNegate, BaseLeaf, BaseFunction, BaseDefault
  <2> QED BY <1>2, <2>1, Zenon
<1>7. CASE UNCHANGED vars
  BY <1>3, <1>7 DEF vars
<1> QED
  BY <1>4, <1>5, <1>6, <1>7, Zenon DEF Next

\* A call waits for an argument.
Waits(f, h) == /\ f.i < Len(h[f.ret].params)
               /\ \A k \in DOMAIN h[f.ret].params : k > f.i <=> h[f.ret].params[k] = NIL

\* Calls of base that stay as they were keep waiting.
LEMMA WaitsKept ==
  ASSUME Control, Own(Pt, Live), Filling,
         SameParams,
         NEW j \in DOMAIN stack, stack[j].fn = "base", j < Len(stack) \/ pc \notin {"args", "close"}
  PROVE  Waits(stack[j], heap')
<1>1. stack[j] \in CallSet /\ (j # Len(stack) \/ pc \notin {"args", "close"})
  BY DEF Control
<1>2. stack[j].ret # 0
  BY DEF CallSet, NIL, Control
<1>3. stack[j].ret \in DOMAIN heap
  BY <1>2, Held DEF Live
<1> QED BY <1>1, <1>3 DEF Filling, Waits, SameParams

\* A step that starts or ends no call of base in the middle of its parameters keeps Filling.
LEMMA FillingKept ==
  ASSUME Control, Control', Own(Pt, Live), Filling,
         SameParams,
         pc' \notin {"args", "close"},
         \A j \in DOMAIN stack' : \/ stack'[j].fn # "base"
                                  \/ /\ j \in DOMAIN stack /\ stack'[j] = stack[j]
                                     /\ j < Len(stack) \/ pc \notin {"args", "close"}
  PROVE  Filling'
<1> SUFFICES ASSUME NEW j \in DOMAIN stack', stack'[j].fn = "base" PROVE Waits(stack'[j], heap')
  BY DEF Filling, Waits
<1>1. j \in DOMAIN stack /\ stack'[j] = stack[j] /\ (j < Len(stack) \/ pc \notin {"args", "close"})
  OBVIOUS
<1>2. Waits(stack[j], heap')
  BY <1>1, WaitsKept
<1> QED BY <1>1, <1>2

\* The calls below the one that ends, goes on, or starts another.
LEMMA Frames ==
  ASSUME Control
  PROVE  /\ stack # <<>> /\ stack' = Below =>
              \A j \in DOMAIN stack' : j \in DOMAIN stack /\ stack'[j] = stack[j] /\ j < Len(stack)
         /\ \A f \in CallSet : stack' = Append(stack, f) =>
              /\ \A j \in DOMAIN stack' : \/ j \in DOMAIN stack /\ stack'[j] = stack[j]
                                          \/ j = Len(stack) + 1 /\ stack'[j] = f
              /\ Len(stack') = Len(stack) + 1 /\ Len(stack') \in DOMAIN stack'
              /\ stack'[Len(stack')] = f
              /\ \A j \in DOMAIN stack : j \in DOMAIN stack' /\ stack'[j] = stack[j]
         /\ \A f \in CallSet : \A step : stack # <<>> /\ Continue(f, step) =>
              /\ \A j \in DOMAIN stack' :
                   \/ j \in DOMAIN stack /\ stack'[j] = stack[j] /\ j < Len(stack)
                   \/ j = Len(stack) /\ stack'[j] = f
              /\ Len(stack') = Len(stack) /\ Len(stack) \in DOMAIN stack'
              /\ stack'[Len(stack)] = f
              /\ \A j \in DOMAIN stack : j < Len(stack) => j \in DOMAIN stack' /\ stack'[j] = stack[j]
<1>0. DOMAIN stack = 1..Len(stack) /\ Len(stack) \in Nat
  BY DEF Control
<1>1. ASSUME stack # <<>>, stack' = Below
      PROVE  \A j \in DOMAIN stack' : j \in DOMAIN stack /\ stack'[j] = stack[j] /\ j < Len(stack)
  <2>1. DOMAIN stack' = 1..(Len(stack) - 1) /\ \A k \in 1..(Len(stack) - 1) : stack'[k] = stack[k]
    BY <1>1, Pops
  <2> QED BY <1>0, <2>1
<1>2. ASSUME NEW f \in CallSet, stack' = Append(stack, f)
      PROVE  /\ \A j \in DOMAIN stack' : \/ j \in DOMAIN stack /\ stack'[j] = stack[j]
                                         \/ j = Len(stack) + 1 /\ stack'[j] = f
             /\ Len(stack') = Len(stack) + 1 /\ Len(stack') \in DOMAIN stack'
             /\ stack'[Len(stack')] = f
             /\ \A j \in DOMAIN stack : j \in DOMAIN stack' /\ stack'[j] = stack[j]
  <2>1. /\ DOMAIN stack' = 1..(Len(stack) + 1) /\ Len(stack') = Len(stack) + 1
        /\ stack'[Len(stack) + 1] = f /\ \A k \in 1..Len(stack) : stack'[k] = stack[k]
    BY <1>2, Starts
  <2> QED BY <1>0, <2>1
<1>3. ASSUME NEW f \in CallSet, NEW step, stack # <<>>, Continue(f, step)
      PROVE  /\ \A j \in DOMAIN stack' :
                   \/ j \in DOMAIN stack /\ stack'[j] = stack[j] /\ j < Len(stack)
                   \/ j = Len(stack) /\ stack'[j] = f
             /\ Len(stack') = Len(stack) /\ Len(stack) \in DOMAIN stack'
             /\ stack'[Len(stack)] = f
             /\ \A j \in DOMAIN stack : j < Len(stack) => j \in DOMAIN stack' /\ stack'[j] = stack[j]
  <2>1. /\ DOMAIN stack' = 1..Len(stack) /\ Len(stack') = Len(stack) /\ Len(stack) > 0
        /\ Top' = f /\ \A k \in 1..(Len(stack) - 1) : stack'[k] = stack[k]
    BY <1>3, Goes, Pops
  <2>2. stack'[Len(stack)] = f
    BY <2>1 DEF Top
  <2>3. \A n \in Nat : n > 0 => /\ n \in 1..n
                                /\ \A j \in 1..n : j = n \/ (j \in 1..(n - 1) /\ j < n)
                                /\ \A j \in 1..n : j < n => j \in 1..(n - 1)
    OBVIOUS
  <2>4. \A j \in 1..Len(stack) : j = Len(stack) \/ (j \in 1..(Len(stack) - 1) /\ j < Len(stack))
    BY <1>0, <2>1, <2>3, Zenon
  <2>5. Len(stack) \in 1..Len(stack) /\ \A j \in 1..Len(stack) : j < Len(stack) => j \in 1..(Len(stack) - 1)
    BY <1>0, <2>1, <2>3, Zenon
  <2> QED BY <1>0, <2>1, <2>2, <2>4, <2>5, Zenon
<1> QED BY <1>1, <1>2, <1>3

\* Every step keeps Filling.
LEMMA FillingStep ==
  ASSUME Control, Control', Own(Pt, Live), Filling, [Next]_vars
  PROVE  Filling'
<1>s. DOMAIN stack = 1..Len(stack) /\ Len(stack) \in Nat
      /\ DOMAIN stack' = 1..Len(stack') /\ Len(stack') \in Nat
  BY DEF Control
<1>1. ASSUME SameParams, stack' = stack, pc \notin {"args", "close"}, pc' \notin {"args", "close"}
      PROVE  Filling'
  BY <1>1, FillingKept
<1>2. ASSUME SameParams, NEW f \in CallSet, f.fn # "base", stack' = Append(stack, f),
             pc \notin {"args", "close"}, pc' \notin {"args", "close"}
      PROVE  Filling'
  <2>1. \A j \in DOMAIN stack' : \/ j \in DOMAIN stack /\ stack'[j] = stack[j]
                                 \/ j = Len(stack) + 1 /\ stack'[j] = f
    BY <1>2, Frames
  <2> QED BY <1>2, <2>1, FillingKept
<1>3. ASSUME SameParams, stack # <<>>, stack' = Below, pc' \notin {"args", "close"}
      PROVE  Filling'
  <2>1. \A j \in DOMAIN stack' : j \in DOMAIN stack /\ stack'[j] = stack[j] /\ j < Len(stack)
    BY <1>3, Frames
  <2> QED BY <1>3, <2>1, FillingKept
<1>4. ASSUME SameParams, stack # <<>>, NEW f \in CallSet, f.fn # "base", NEW step, Continue(f, step),
             step \notin {"args", "close"}
      PROVE  Filling'
  <2>1. \A j \in DOMAIN stack' : \/ j \in DOMAIN stack /\ stack'[j] = stack[j] /\ j < Len(stack)
                                 \/ j = Len(stack) /\ stack'[j] = f
    BY <1>4, Frames
  <2>2. pc' \notin {"args", "close"}
    BY <1>4 DEF Continue
  <2> QED BY <1>4, <2>1, <2>2, FillingKept
<1>5. CASE ArgAttached
  <2> DEFINE m == Top.ret
             l == Len(stack)
             f == [Top EXCEPT !.i = @ + 1]
  <2>0. stack # <<>> /\ Top.fn = "base" /\ pc = "back" /\ val # NIL
        /\ heap' = [heap EXCEPT ![m].params[Top.i + 1] = val]
        /\ \/ Continue(f, "arg") /\ Top.i + 1 < Len(heap[m].params)
           \/ Return(Below, m)
    BY <1>5 DEF ArgAttached, InFrame
  <2>1. /\ Top \in CallSet /\ m \in Live /\ Top.i \in Nat /\ l \in DOMAIN stack
        /\ heap[m].params \in Seq(Nat) /\ Top.i < Len(heap[m].params)
        /\ \A k \in DOMAIN heap[m].params : k > Top.i <=> heap[m].params[k] = NIL
    BY <2>0, Awaits
  <2>2. Top.i + 1 \in DOMAIN heap[m].params /\ m \in DOMAIN heap
    BY <2>1 DEF Live
  <2>3. /\ \A n \in DOMAIN heap : n # m => heap'[n] = heap[n]
        /\ heap'[m] = [heap[m] EXCEPT !.params = [@ EXCEPT ![Top.i + 1] = val]]
    BY <2>0, <2>1, <2>2, ParamSet
  <2>4. heap'[m].params = [heap[m].params EXCEPT ![Top.i + 1] = val]
    <3>1. heap[m] \in NodeSet
      BY <2>2 DEF Control
    <3> QED BY <2>3, <3>1 DEF NodeSet
  <2>5. ASSUME NEW j \in DOMAIN stack, stack[j].fn = "base", j < l PROVE Waits(stack[j], heap')
    <3>1. stack[j] \in CallSet
      BY DEF Control
    <3>2. stack[j].ret # 0
      BY <2>5, <3>1 DEF CallSet, NIL
    <3>3. j # l
      BY <2>5, <1>s
    <3>4. stack[j].ret \in DOMAIN heap /\ stack[j].ret # m
      BY <2>1, <3>2, <3>3, Held DEF Live, Top
    <3>5. Waits(stack[j], heap)
      BY <2>0, <2>5, <3>3 DEF Filling, Waits
    <3> QED BY <2>3, <3>4, <3>5 DEF Waits
  <2>6. CASE Return(Below, m)
    <3>1. stack' = Below /\ pc' = "back"
      BY <2>6 DEF Return
    <3>2. \A j \in DOMAIN stack' : j \in DOMAIN stack /\ stack'[j] = stack[j] /\ j < l
      BY <2>0, <3>1, Frames
    <3> QED BY <2>5, <3>1, <3>2 DEF Filling, Waits
  <2>7. CASE Continue(f, "arg") /\ Top.i + 1 < Len(heap[m].params)
    <3>1. f \in CallSet /\ f.ret = m /\ f.i = Top.i + 1
      <4>0. Top.fn = "base" /\ Top.ret # NIL
        BY <2>0, <2>1 DEF CallSet
      <4>2. Top \in [fn : Chain \cup {"power", "base", "paren"}, ret : Nat, i : Nat]
        BY <2>1 DEF CallSet
      <4>3. f.ret = m /\ f.i = Top.i + 1
        BY <4>2
      <4>1. f \in CallSet
        BY <4>0, <4>2 DEF CallSet
      <4> QED BY <4>1, <4>3
    <3> HIDE DEF f
    <3>2. pc' = "arg"
      BY <2>7 DEF Continue
    <3>3. \A j \in DOMAIN stack' : \/ j \in DOMAIN stack /\ stack'[j] = stack[j] /\ j < l
                                   \/ j = l /\ stack'[j] = f
      BY <2>0, <2>7, <3>1, Frames
    <3>4. Waits(f, heap')
      <4>1. Len(heap'[m].params) = Len(heap[m].params)
            /\ DOMAIN heap'[m].params = DOMAIN heap[m].params
        BY <2>1, <2>2, <2>4, ExceptSeq DEF Control
      <4>2. ASSUME NEW k \in DOMAIN heap[m].params
            PROVE  k > Top.i + 1 <=> heap'[m].params[k] = NIL
        <5>1. k \in Nat
          BY <2>1
        <5>2. heap'[m].params[k] = IF k = Top.i + 1 THEN val ELSE heap[m].params[k]
          BY <2>1, <2>2, <2>4
        <5>3. CASE k = Top.i + 1
          BY <2>0, <2>1, <5>2, <5>3
        <5>4. CASE k # Top.i + 1
          <6>1. k > Top.i + 1 <=> k > Top.i
            BY <2>1, <5>1, <5>4
          <6> QED BY <2>1, <5>2, <5>4, <6>1
        <5> QED BY <5>3, <5>4
      <4> QED BY <2>7, <3>1, <4>1, <4>2 DEF Waits
    <3> QED BY <2>5, <3>2, <3>3, <3>4 DEF Filling, Waits
  <2> QED BY <2>0, <2>6, <2>7
<1>6. CASE CompileOk
  <2>1. stack' = <<>>
    BY <1>6 DEF CompileOk, Returned
  <2> QED BY <2>1 DEF Filling
<1>7. CASE ~ArgAttached /\ ~CompileOk
  <2>s. SameParams
    BY <1>7, Steady
  <2>1. CASE Compile \/ ChainMore \/ PowerBase \/ BaseLeaf \/ BaseDefault \/ BaseFails \/ Arg
             \/ CompileNull \/ CompileError \/ FreeExpr
    <3>1. stack' = stack /\ pc \notin {"args", "close"} /\ pc' \notin {"args", "close"}
      BY <2>1 DEF Compile, ChainMore, PowerBase, BaseLeaf, BaseDefault, BaseFails, Arg, Call, Return,
         CompileNull, CompileError, FreeExpr, InFrame, InBase, Returned, Control
    <3> QED BY <1>1, <2>s, <3>1
  <2>2. CASE EnterChain
    <3>1. [fn |-> callee, ret |-> NIL, i |-> 0] \in CallSet /\ callee # "base"
      BY <2>2 DEF EnterChain, CallSet, Chain, NIL
    <3>2. stack' = Append(stack, [fn |-> callee, ret |-> NIL, i |-> 0]) /\ pc = "call" /\ pc' = "call"
      BY <2>2 DEF EnterChain, Call
    <3> QED BY <1>2, <2>s, <3>1, <3>2
  <2>3. CASE EnterPower
    <3>1. [fn |-> "power", ret |-> NIL, i |-> 0] \in CallSet
      BY DEF CallSet, NIL
    <3>2. stack' = Append(stack, [fn |-> "power", ret |-> NIL, i |-> 0]) /\ pc = "call" /\ pc' = "loop"
      BY <2>3 DEF EnterPower
    <3> QED BY <1>2, <2>s, <3>1, <3>2
  <2>4. CASE BaseOpen
    <3>1. [fn |-> "paren", ret |-> NIL, i |-> 0] \in CallSet
      BY DEF CallSet, NIL, Chain
    <3>2. stack' = Append(stack, [fn |-> "paren", ret |-> NIL, i |-> 0]) /\ pc = "call" /\ pc' = "call"
      BY <2>4 DEF BaseOpen, InBase, Call
    <3> QED BY <1>2, <2>s, <3>1, <3>2
  <2>5. CASE ChainNull \/ ChainJoinFails \/ ChainDone \/ PowerPlain \/ PowerNegate \/ PowerNegateFails
             \/ NoArgsClose \/ ArgNull \/ ParenBack
    <3>1. stack # <<>> /\ stack' = Below /\ pc' = "back"
      BY <2>5 DEF ChainNull, ChainJoinFails, ChainDone, PowerPlain, PowerNegate, PowerNegateFails,
         NoArgsClose, ArgNull, ParenBack, InFrame, Return
    <3> QED BY <1>3, <2>s, <3>1
  <2>6. CASE ChainFirst \/ ChainJoin
    <3>1. stack # <<>> /\ Top.fn \in Chain /\ stack' # <<>>
          /\ \E v : Continue([Top EXCEPT !.ret = v], "loop") /\ v \in Nat
      <4>1. val \in Nat /\ New \in Nat
        BY DEF Control, New
      <4>2. Continue([Top EXCEPT !.ret = val], "loop") \/ Continue([Top EXCEPT !.ret = New], "loop")
        BY <2>6 DEF ChainFirst, ChainJoin
      <4>3. stack # <<>> /\ Top.fn \in Chain
        BY <2>6 DEF ChainFirst, ChainJoin, InFrame
      <4>4. pc' = "loop"
        BY <4>2 DEF Continue
      <4> QED BY <4>1, <4>2, <4>3, <4>4 DEF Control
    <3>2. PICK v \in Nat : Continue([Top EXCEPT !.ret = v], "loop")
      BY <3>1
    <3>3. [Top EXCEPT !.ret = v] \in CallSet /\ [Top EXCEPT !.ret = v].fn # "base"
      BY <3>1, Pops DEF CallSet, Chain, NIL
    <3> DEFINE f == [Top EXCEPT !.ret = v]
    <3>4. f \in CallSet /\ f.fn # "base" /\ Continue(f, "loop")
      BY <3>2, <3>3
    <3> HIDE DEF f
    <3> HIDE <3>2, <3>3
    <3> QED BY <1>4, <2>s, <3>1, <3>4
  <2>7. CASE PowerSign
    <3> DEFINE f == [Top EXCEPT !.i = IF tok = "sub" THEN 1 - @ ELSE @]
    <3>0. stack # <<>> /\ Top.fn = "power" /\ Continue(f, "loop")
      BY <2>7 DEF PowerSign, InFrame
    <3>1. f \in CallSet /\ f.fn # "base"
      BY <3>0, Pops DEF CallSet, Chain, NIL
    <3> HIDE DEF f
    <3> HIDE <2>7
    <3> QED BY <1>4, <2>s, <3>0, <3>1
  <2>8. CASE BaseFunction
    <3> DEFINE x == Node("fun", tok \notin Impure, [k \in 1..Arity[tok] |-> NIL])
               f == [fn |-> "base", ret |-> New, i |-> 0]
    <3>1. heap' = Append(heap, x) /\ stack' = Append(stack, f) /\ tok \in FunctionTokens /\ pc = "call"
          /\ pc' = (IF Arity[tok] = 1 THEN "call" ELSE "args")
      BY <2>8 DEF BaseFunction, InBase, Call, Alloc
    <3>2. Arity[tok] \in Nat
      BY <3>1 DEF FunctionTokens, Arity
    <3>3. heap'[New] = x
      BY <3>1 DEF New, Control
    <3>4. x.params = [k \in 1..Arity[tok] |-> NIL]
      BY DEF Node
    <3>5. Len(x.params) = Arity[tok] /\ DOMAIN x.params = 1..Arity[tok]
          /\ \A k \in DOMAIN x.params : x.params[k] = NIL /\ k > 0
      BY <3>2, <3>4
    <3>6. f \in CallSet /\ f.ret = New /\ f.i = 0 /\ f.fn = "base"
      BY DEF CallSet, NIL, Chain, New, Control
    <3> HIDE DEF x, f
    <3>7. /\ \A j \in DOMAIN stack' : \/ j \in DOMAIN stack /\ stack'[j] = stack[j]
                                      \/ j = Len(stack) + 1 /\ stack'[j] = f
          /\ Len(stack') = Len(stack) + 1
      BY <3>1, <3>6, Frames
    <3>8. ASSUME NEW j \in DOMAIN stack', stack'[j].fn = "base", j \in DOMAIN stack, stack'[j] = stack[j]
          PROVE  Waits(stack'[j], heap') /\ j # Len(stack')
      <4>1. Waits(stack[j], heap')
        BY <2>s, <3>1, <3>8, WaitsKept
      <4>2. j # Len(stack')
        BY <1>s, <3>7, <3>8
      <4> QED BY <3>8, <4>1, <4>2
    <3>9. \A k \in DOMAIN heap'[New].params : k > 0 <=> heap'[New].params[k] = NIL
      BY <3>3, <3>5
    <3>10. ASSUME NEW j \in DOMAIN stack', stack'[j].fn = "base"
           PROVE  /\ \A k \in DOMAIN heap'[stack'[j].ret].params :
                       k > stack'[j].i <=> heap'[stack'[j].ret].params[k] = NIL
                  /\ IF j = Len(stack') /\ pc' = "args" THEN stack'[j].i = 0
                     ELSE IF j = Len(stack') /\ pc' = "close" THEN heap'[stack'[j].ret].params = <<>>
                     ELSE stack'[j].i < Len(heap'[stack'[j].ret].params)
      <4>1. CASE j \in DOMAIN stack /\ stack'[j] = stack[j]
        BY <3>8, <3>10, <4>1 DEF Waits
      <4>2. CASE j = Len(stack) + 1 /\ stack'[j] = f
        <5>1. pc' = "call" => Arity[tok] = 1
          BY <3>1
        <5>2. pc' = "args" \/ 0 < Len(heap'[New].params)
          BY <3>1, <3>3, <3>5, <5>1
        <5>3. pc' # "close"
          BY <3>1
        <5> QED BY <3>6, <3>7, <3>9, <4>2, <5>2, <5>3
      <4> QED BY <3>7, <4>1, <4>2
    <3> QED BY <3>10 DEF Filling
  <2>9. CASE NoArgs \/ Args
    <3>0. stack # <<>> /\ Top.fn = "base" /\ heap' = heap /\ pc = "args"
          /\ \/ Return(Below, Top.ret)
             \/ Continue(Top, "close") /\ heap[Top.ret].params = <<>>
             \/ Continue(Top, "arg") /\ heap[Top.ret].params # <<>>
      BY <2>9 DEF NoArgs, Args, InFrame, memory
    <3>1. Top \in CallSet /\ Len(stack) \in DOMAIN stack
      BY <3>0, Pops DEF Control
    <3>2. CASE Return(Below, Top.ret)
      BY <1>3, <2>s, <3>0, <3>2 DEF Return
    <3>3. ASSUME NEW step \in {"close", "arg"}, Continue(Top, step)
          PROVE  /\ \A j \in DOMAIN stack' : j \in DOMAIN stack /\ stack'[j] = stack[j]
                 /\ Len(stack') = Len(stack) /\ pc' = step
      <4>1. /\ \A j \in DOMAIN stack' :
                   \/ j \in DOMAIN stack /\ stack'[j] = stack[j] /\ j < Len(stack)
                   \/ j = Len(stack) /\ stack'[j] = Top
            /\ Len(stack') = Len(stack)
        BY <3>0, <3>1, <3>3, Frames
      <4>2. pc' = step
        BY <3>3 DEF Continue
      <4> QED BY <3>1, <4>1, <4>2 DEF Top
    <3>4. CASE Continue(Top, "close") /\ heap[Top.ret].params = <<>>
      <4>1. /\ \A j \in DOMAIN stack' : j \in DOMAIN stack /\ stack'[j] = stack[j]
            /\ Len(stack') = Len(stack) /\ pc' = "close"
        BY <3>3, <3>4
      <4> QED BY <3>0, <3>4, <4>1 DEF Filling, Top
    <3>5. CASE Continue(Top, "arg") /\ heap[Top.ret].params # <<>>
      <4>1. /\ \A j \in DOMAIN stack' : j \in DOMAIN stack /\ stack'[j] = stack[j]
            /\ Len(stack') = Len(stack) /\ pc' = "arg"
        BY <3>3, <3>5
      <4>2. Top.ret # 0
        BY <3>0, <3>1 DEF CallSet, NIL
      <4>3. Top.ret \in DOMAIN heap
        BY <3>1, <4>2, Held DEF Live, Top
      <4>4. heap[Top.ret] \in NodeSet
        BY <4>3 DEF Control
      <4>5. heap[Top.ret].params \in Seq(Nat)
        BY <4>4 DEF NodeSet
      <4>6. 0 < Len(heap[Top.ret].params)
        BY <3>5, <4>5
      <4>7. Top.i = 0
        BY <3>0, <3>1 DEF Filling, Top
      <4> QED BY <3>0, <4>1, <4>6, <4>7 DEF Filling, Top
    <3> QED BY <3>0, <3>2, <3>4, <3>5
  <2>10. CASE UNCHANGED vars
    BY <2>10 DEF vars, Filling
  <2> QED BY <1>7, <2>1, <2>2, <2>3, <2>4, <2>5, <2>6, <2>7, <2>8, <2>9, <2>10 DEF Next
<1> QED BY <1>5, <1>6, <1>7

\* What te_free leaves alive.
LEMMA Survivors ==
  ASSUME Control, Own(Pt, Live), NEW roots, Release(roots)
  PROVE  Live' \subseteq Live /\ \A r \in roots : (r = 0 \/ r \in Live) /\ roots = {r} => r \notin Live'
<1>1. heap' = [n \in DOMAIN heap |-> [heap[n] EXCEPT !.live = @ /\ n \notin Walks(roots)]]
  BY DEF Release, Walks
<1>2. Live' = Live \ Walks(roots)
  BY <1>1, ParamFree
<1>3. ASSUME NEW r \in roots, r = 0 \/ r \in Live, roots = {r} PROVE r \notin Live'
  <2>1. r # 0 => r \in Walks(roots)
    BY <1>3, ReachOwn
  <2> QED BY <1>2, <2>1 DEF Own
<1> QED BY <1>2, <1>3

\* Every step keeps Filled: a function whose arguments end too early or too late is
\* an error.
LEMMA FilledStep ==
  ASSUME Control, Control', Reads, Own(Pt, Live), Filling, Filled, [Next]_vars
  PROVE  Filled'
<1> DEFINE Base(st, n) == \E j \in DOMAIN st : st[j].fn = "base" /\ st[j].ret = n
<1> SUFFICES ASSUME tok' # "error", NEW n \in Live', NEW k \in DOMAIN heap'[n].params,
                    heap'[n].params[k] = NIL
             PROVE  Base(stack', n)
  BY DEF Filled
<1>0. tok # "error"
  BY StickyStep
<1>s. DOMAIN stack = 1..Len(stack) /\ Len(stack) \in Nat
  BY DEF Control
<1>1. ASSUME n \in Live, heap'[n].params = heap[n].params PROVE Base(stack, n)
  BY <1>0, <1>1 DEF Filled
<1>2. ASSUME SameParams, n \in Live PROVE Base(stack, n)
  BY <1>1, <1>2 DEF SameParams, Live
<1>3. CASE ChainJoin \/ PowerNegate \/ BaseLeaf \/ BaseDefault \/ BaseFunction
  <2>1. PICK x : Alloc(x) /\ (\/ BaseFunction
                              \/ x.params = <<>>
                              \/ x.params = <<val>> /\ val # 0
                              \/ x.params = <<Top.ret, val>> /\ val # 0 /\ Top.ret # 0)
    <3>1. CASE ChainJoin
      BY <3>1 DEF ChainJoin, Node, NIL
    <3>2. CASE PowerNegate
      BY <3>2 DEF PowerNegate, Node, NIL
    <3>3. CASE BaseLeaf
      BY <3>3 DEF BaseLeaf, Node
    <3>4. CASE BaseDefault
      BY <3>4 DEF BaseDefault, Node
    <3>5. CASE BaseFunction
      BY <3>5 DEF BaseFunction
    <3> QED BY <1>3, <3>1, <3>2, <3>3, <3>4, <3>5
  <2>2. heap' = Append(heap, x) /\ heap \in Seq(NodeSet) /\ Len(heap) \in Nat
    BY <2>1 DEF Alloc, Control
  <2>3. DOMAIN heap' = 1..(Len(heap) + 1) /\ heap'[New] = x /\ \A m \in DOMAIN heap : heap'[m] = heap[m]
    BY <2>2 DEF New
  <2>4. n = New \/ n \in Live
    BY <2>2, <2>3 DEF Live, New
  <2>5. CASE BaseFunction
    <3> DEFINE f == [fn |-> "base", ret |-> New, i |-> 0]
    <3>1. stack' = Append(stack, f)
      BY <2>5 DEF BaseFunction, Call
    <3>0. New \in Nat /\ New # 0
      BY <2>2 DEF New
    <3>2. f \in CallSet /\ f.fn = "base" /\ f.ret = New
      BY <3>0 DEF CallSet, NIL
    <3> HIDE DEF f
    <3>3. /\ Len(stack') \in DOMAIN stack' /\ stack'[Len(stack')] = f
          /\ \A j \in DOMAIN stack : j \in DOMAIN stack' /\ stack'[j] = stack[j]
      BY <3>1, <3>2, Frames
    <3>4. CASE n = New
      BY <3>2, <3>3, <3>4
    <3>5. CASE n \in Live
      <4>1. Base(stack, n)
        BY <1>1, <2>3, <3>5 DEF Live
      <4> QED BY <3>3, <4>1
    <3> QED BY <2>4, <3>4, <3>5
  <2>6. CASE ~BaseFunction
    <3>1. n # New
      <4>1. ASSUME n = New PROVE FALSE
        <5>1. k \in DOMAIN x.params /\ x.params[k] = 0
          BY <2>3, <4>1 DEF NIL
        <5>2. x.params # <<>>
          BY <5>1
        <5>3. x.params # <<val>> \/ val = 0
          <6>1. DOMAIN <<val>> = 1..1 /\ \A i \in 1..1 : <<val>>[i] = val
            OBVIOUS
          <6> QED BY <5>1, <6>1
        <5>4. x.params # <<Top.ret, val>> \/ val = 0 \/ Top.ret = 0
          <6>1. DOMAIN <<Top.ret, val>> = 1..2
                /\ \A i \in 1..2 : <<Top.ret, val>>[i] \in {val, Top.ret}
            OBVIOUS
          <6> QED BY <5>1, <6>1
        <5> QED BY <2>1, <2>6, <5>2, <5>3, <5>4
      <4> QED BY <4>1
    <3>2. n \in Live /\ heap'[n].params = heap[n].params
      BY <2>3, <2>4, <3>1 DEF Live
    <3>3. PICK j \in DOMAIN stack : stack[j].fn = "base" /\ stack[j].ret = n
      BY <1>1, <3>2
    <3>4. CASE BaseLeaf \/ BaseDefault
      <4>1. stack' = stack
        BY <3>4 DEF BaseLeaf, BaseDefault, Return
      <4> QED BY <3>3, <4>1
    <3>5. CASE PowerNegate
      <4>1. stack # <<>> /\ stack' = Below /\ Top.fn = "power"
        BY <3>5 DEF PowerNegate, InFrame, Return
      <4>2. DOMAIN stack' = 1..(Len(stack) - 1) /\ \A i \in 1..(Len(stack) - 1) : stack'[i] = stack[i]
        BY <4>1, Pops
      <4>3. j # Len(stack)
        BY <3>3, <4>1 DEF Top
      <4>4. j \in 1..(Len(stack) - 1)
        BY <1>s, <4>3
      <4> QED BY <3>3, <4>2, <4>4
    <3>6. CASE ChainJoin
      <4> DEFINE f == [Top EXCEPT !.ret = New]
      <4>1. stack # <<>> /\ Continue(f, "loop") /\ Top.fn \in Chain
        BY <3>6 DEF ChainJoin, InFrame
      <4>0. New \in Nat
        BY <2>2 DEF New
      <4>2. f \in CallSet
        BY <4>0, <4>1, Pops DEF CallSet, Chain
      <4> HIDE DEF f
      <4>3. \A i \in DOMAIN stack : i < Len(stack) => i \in DOMAIN stack' /\ stack'[i] = stack[i]
        BY <4>1, <4>2, Frames
      <4>4. j # Len(stack)
        BY <3>3, <4>1 DEF Top, Chain
      <4>5. j < Len(stack)
        BY <1>s, <4>4
      <4> QED BY <3>3, <4>3, <4>5
    <3> QED BY <1>3, <2>6, <3>4, <3>5, <3>6
  <2> QED BY <2>5, <2>6
<1>4. CASE CompileOk
  <2>0. stack = <<>> /\ val # 0 /\ val \in Nat /\ Optimize(val)
    BY <1>4 DEF CompileOk, Returned, Control, NIL
  <2>1. val \in Live
    BY <2>0, CallSlots DEF Own
  <2>2. /\ DOMAIN heap' = DOMAIN heap /\ Live' \subseteq Live
        /\ \A m \in DOMAIN heap :
             IF m \in Walks(Folds(val))
             THEN ~heap'[m].live /\ heap'[m].params = heap[m].params
             ELSE IF m \in Folded(heap, val) THEN heap'[m] = Node("const", FALSE, <<>>)
             ELSE heap'[m] = heap[m]
    BY <2>0, <2>1, OptimizeHeap
  <2>3. n \in DOMAIN heap /\ n \in Live
    BY <2>2 DEF Live
  <2>4. heap'[n].params = heap[n].params \/ heap'[n] = Node("const", FALSE, <<>>)
    BY <2>2, <2>3
  <2>5. heap'[n] # Node("const", FALSE, <<>>)
    BY DEF Node
  <2>6. Base(stack, n)
    BY <1>1, <2>3, <2>4, <2>5
  <2> QED BY <2>0, <2>6
<1>5. CASE ArgAttached
  <2> DEFINE m == Top.ret
             l == Len(stack)
             f == [Top EXCEPT !.i = @ + 1]
  <2>0. stack # <<>> /\ Top.fn = "base" /\ pc = "back" /\ val # NIL
        /\ heap' = [heap EXCEPT ![m].params[Top.i + 1] = val]
        /\ \/ Continue(f, "arg")
           \/ Return(Below, m) /\ (Top.i + 1 = Len(heap[m].params) \/ Len(heap[m].params) = 1)
    BY <1>5 DEF ArgAttached, InFrame, SetError
  <2>1. /\ Top \in CallSet /\ m \in Live /\ Top.i \in Nat /\ l \in DOMAIN stack
        /\ heap[m].params \in Seq(Nat) /\ Top.i < Len(heap[m].params)
        /\ \A i \in DOMAIN heap[m].params : i > Top.i <=> heap[m].params[i] = NIL
    BY <2>0, Awaits
  <2>2. Top.i + 1 \in DOMAIN heap[m].params /\ m \in DOMAIN heap
    BY <2>1 DEF Live
  <2>3. /\ Live' = Live
        /\ \A i \in DOMAIN heap : i # m => heap'[i] = heap[i]
        /\ heap'[m] = [heap[m] EXCEPT !.params = [@ EXCEPT ![Top.i + 1] = val]]
    BY <2>0, <2>1, <2>2, ParamSet
  <2>4. heap'[m].params = [heap[m].params EXCEPT ![Top.i + 1] = val]
    <3>1. heap[m] \in NodeSet
      BY <2>2 DEF Control
    <3> QED BY <2>3, <3>1 DEF NodeSet
  <2>5. ASSUME n # m PROVE \E j \in DOMAIN stack : stack[j].fn = "base" /\ stack[j].ret = n /\ j < l
    <3>1. n \in Live /\ heap'[n] = heap[n]
      BY <2>3, <2>5 DEF Live
    <3>2. PICK j \in DOMAIN stack : stack[j].fn = "base" /\ stack[j].ret = n
      BY <1>1, <3>1
    <3>3. j # l
      BY <2>5, <3>2 DEF Top
    <3>4. j < l
      BY <1>s, <3>3
    <3> QED BY <3>2, <3>4
  <2>6. CASE Continue(f, "arg")
    <3>0. Top.fn = "base" /\ Top.ret # NIL
      BY <2>0, <2>1 DEF CallSet
    <3>1. Top \in [fn : Chain \cup {"power", "base", "paren"}, ret : Nat, i : Nat]
      BY <2>1 DEF CallSet
    <3>2. f.ret = m /\ f.fn = "base" /\ f \in CallSet
      <4>1. f.ret = m /\ f.fn = "base"
        BY <3>0, <3>1
      <4>2. f \in CallSet
        BY <3>0, <3>1 DEF CallSet
      <4> QED BY <4>1, <4>2
    <3> HIDE DEF f
    <3>3. /\ l \in DOMAIN stack' /\ stack'[l] = f
          /\ \A j \in DOMAIN stack : j < l => j \in DOMAIN stack' /\ stack'[j] = stack[j]
      BY <2>0, <2>6, <3>2, Frames
    <3> HIDE <1>5, <2>0, <2>6
    <3>4. CASE n = m
      BY <3>2, <3>3, <3>4
    <3>5. CASE n # m
      BY <2>5, <3>3, <3>5
    <3> QED BY <3>4, <3>5
  <2>7. CASE Return(Below, m) /\ (Top.i + 1 = Len(heap[m].params) \/ Len(heap[m].params) = 1)
    <3>1. DOMAIN stack' = 1..(l - 1) /\ \A i \in 1..(l - 1) : stack'[i] = stack[i]
      BY <2>0, <2>7, Pops DEF Return
    <3>2. n # m
      <4>1. ASSUME n = m PROVE FALSE
        <5>1. k \in DOMAIN heap[m].params /\ heap'[m].params[k] = NIL
          BY <2>1, <2>2, <2>4, <4>1
        <5>2. k # Top.i + 1
          BY <2>0, <2>1, <2>2, <2>4, <5>1
        <5>3. heap[m].params[k] = NIL
          BY <2>1, <2>2, <2>4, <5>1, <5>2
        <5>4. k > Top.i /\ k \in 1..Len(heap[m].params) /\ Len(heap[m].params) \in Nat
          BY <2>1, <5>1, <5>3
        <5>5. Top.i + 1 = Len(heap[m].params)
          <6>1. \A a, b \in Nat : a < b /\ (a + 1 = b \/ b = 1) => a + 1 = b
            OBVIOUS
          <6>2. Top.i \in Nat /\ Top.i < Len(heap[m].params)
            BY <2>1
          <6>3. Top.i + 1 = Len(heap[m].params) \/ Len(heap[m].params) = 1
            BY <2>7
          <6> QED BY <5>4, <6>1, <6>2, <6>3, Zenon
        <5> HIDE DEF m, l
        <5> QED BY <2>1, <5>2, <5>4, <5>5
      <4> QED BY <4>1
    <3>3. PICK j \in DOMAIN stack : stack[j].fn = "base" /\ stack[j].ret = n /\ j < l
      BY <2>5, <3>2
    <3>4. j \in 1..(l - 1)
      BY <1>s, <3>3
    <3> QED BY <3>1, <3>3, <3>4
  <2> QED BY <2>0, <2>6, <2>7
<1>6. ASSUME ~ArgAttached, ~CompileOk, Live' \subseteq Live PROVE Base(stack, n)
  <2>1. SameParams
    BY <1>6, Steady
  <2> QED BY <1>2, <1>6, <2>1
<1>7. ASSUME heap' = heap PROVE Base(stack, n)
  BY <1>1, <1>7 DEF Live
<1>8. CASE Compile \/ ChainMore \/ PowerBase \/ Arg \/ CompileNull \/ UNCHANGED vars
  <2>1. heap' = heap /\ stack' = stack
    BY <1>8 DEF Compile, ChainMore, PowerBase, Arg, CompileNull, Call, memory, vars, Control
  <2> QED BY <1>7, <2>1
<1>9. CASE BaseFails \/ CompileError \/ FreeExpr
  <2>1. (Release({}) \/ Release({val}) \/ Release({root})) /\ stack' = stack
    BY <1>9 DEF BaseFails, CompileError, FreeExpr, AllocFails, Free, Return
  <2>2. Live' \subseteq Live
    BY <2>1, Survivors
  <2>3. ~ArgAttached /\ ~CompileOk
    BY <1>9 DEF BaseFails, CompileError, FreeExpr, ArgAttached, CompileOk, InFrame, InBase, Returned
  <2> QED BY <1>6, <2>1, <2>2, <2>3
<1>10. CASE EnterChain \/ EnterPower \/ BaseOpen
  <2>1. heap' = heap /\ \E f \in CallSet : stack' = Append(stack, f)
    <3>1. [fn |-> "paren", ret |-> NIL, i |-> 0] \in CallSet
          /\ [fn |-> "power", ret |-> NIL, i |-> 0] \in CallSet
      BY DEF CallSet, NIL, Chain
    <3>2. callee \in Chain => [fn |-> callee, ret |-> NIL, i |-> 0] \in CallSet
      BY DEF CallSet, NIL, Chain
    <3> QED BY <1>10, <3>1, <3>2 DEF EnterChain, EnterPower, BaseOpen, Call, memory
  <2>2. \A j \in DOMAIN stack : j \in DOMAIN stack' /\ stack'[j] = stack[j]
    BY <2>1, Frames
  <2> QED BY <1>7, <2>1, <2>2
<1>11. ASSUME stack # <<>>, Top.fn # "base", Base(stack, n), stack' = Below PROVE Base(stack', n)
  <2>1. PICK j \in DOMAIN stack : stack[j].fn = "base" /\ stack[j].ret = n
    BY <1>11
  <2>2. j # Len(stack)
    BY <1>11, <2>1 DEF Top
  <2>3. j \in 1..(Len(stack) - 1)
    BY <1>s, <2>2
  <2>4. DOMAIN stack' = 1..(Len(stack) - 1) /\ \A i \in 1..(Len(stack) - 1) : stack'[i] = stack[i]
    BY <1>11, Pops
  <2> QED BY <2>1, <2>3, <2>4
<1>12. CASE ChainDone \/ PowerPlain \/ ParenBack
  <2>1. stack # <<>> /\ Top.fn # "base" /\ stack' = Below /\ heap' = heap
    BY <1>12 DEF ChainDone, PowerPlain, ParenBack, InFrame, Return, memory, Chain
  <2> QED BY <1>7, <1>11, <2>1
<1>13. CASE ChainNull \/ ChainJoinFails \/ PowerNegateFails
  <2>1. stack # <<>> /\ Top.fn # "base" /\ stack' = Below
        /\ (Release({Top.ret}) \/ Release({val, Top.ret}) \/ Release({val}))
    BY <1>13 DEF ChainNull, ChainJoinFails, PowerNegateFails, InFrame, Return, AllocFails, Free, Chain
  <2>2. Live' \subseteq Live
    BY <2>1, Survivors
  <2>3. ~ArgAttached /\ ~CompileOk
    BY <2>1 DEF ArgAttached, CompileOk, InFrame, Returned
  <2>4. Base(stack, n)
    BY <1>6, <2>2, <2>3
  <2> QED BY <1>11, <2>1, <2>4
<1>14. ASSUME stack # <<>>, NEW f \in CallSet, NEW step, Continue(f, step), Base(stack, n),
              Top.fn = "base" => f.fn = "base" /\ f.ret = Top.ret
       PROVE  Base(stack', n)
  <2>1. PICK j \in DOMAIN stack : stack[j].fn = "base" /\ stack[j].ret = n
    BY <1>14
  <2>2. /\ Len(stack) \in DOMAIN stack' /\ stack'[Len(stack)] = f
        /\ \A i \in DOMAIN stack : i < Len(stack) => i \in DOMAIN stack' /\ stack'[i] = stack[i]
    BY <1>14, Frames
  <2>3. CASE j = Len(stack)
    BY <1>14, <2>1, <2>2, <2>3 DEF Top
  <2>4. CASE j # Len(stack)
    <3>1. j < Len(stack)
      BY <1>s, <2>4
    <3> QED BY <2>1, <2>2, <3>1
  <2> QED BY <2>3, <2>4
<1>15. CASE ChainFirst
  <2> DEFINE f == [Top EXCEPT !.ret = val]
  <2>1. stack # <<>> /\ Continue(f, "loop") /\ Top.fn \in Chain /\ heap' = heap
    BY <1>15 DEF ChainFirst, InFrame, memory
  <2>2. f \in CallSet /\ Top.fn # "base"
    BY <2>1, Pops DEF CallSet, Chain, Control
  <2>3. Base(stack, n)
    BY <1>7, <2>1
  <2> HIDE DEF f
  <2> QED BY <1>14, <2>1, <2>2, <2>3
<1>16. CASE PowerSign
  <2> DEFINE f == [Top EXCEPT !.i = IF tok = "sub" THEN 1 - @ ELSE @]
  <2>1. stack # <<>> /\ Continue(f, "loop") /\ Top.fn = "power" /\ heap' = heap
    BY <1>16 DEF PowerSign, InFrame, memory
  <2>2. f \in CallSet
    BY <2>1, Pops DEF CallSet, Chain, NIL
  <2>3. Base(stack, n)
    BY <1>7, <2>1
  <2> HIDE DEF f
  <2> HIDE <1>16
  <2> QED BY <1>14, <2>1, <2>2, <2>3
<1>17. CASE NoArgs \/ NoArgsClose \/ Args
  <2>1. stack # <<>> /\ Top.fn = "base" /\ heap' = heap /\ Base(stack, n)
        /\ \/ Continue(Top, "close")
           \/ Continue(Top, "arg")
           \/ Return(Below, Top.ret) /\ (heap[Top.ret].params = <<>> \/ pc = "close")
    BY <1>7, <1>17 DEF NoArgs, NoArgsClose, Args, InFrame, memory, SetError
  <2>2. Top \in CallSet
    BY <2>1, Pops
  <2>3. CASE Continue(Top, "close") \/ Continue(Top, "arg")
    BY <1>14, <2>1, <2>2, <2>3
  <2>4. CASE Return(Below, Top.ret) /\ (heap[Top.ret].params = <<>> \/ pc = "close")
    <3>1. PICK j \in DOMAIN stack : stack[j].fn = "base" /\ stack[j].ret = n
      BY <2>1
    <3>2. heap[Top.ret].params = <<>>
      <4>1. Len(stack) \in DOMAIN stack
        BY <1>s, <3>1
      <4> QED BY <2>1, <2>4, <4>1 DEF Filling, Top
    <3>3. n # Top.ret
      <4>1. heap'[n].params # <<>>
        OBVIOUS
      <4> QED BY <2>1, <3>2, <4>1
    <3>4. j # Len(stack)
      BY <3>1, <3>3 DEF Top
    <3>5. j \in 1..(Len(stack) - 1)
      BY <1>s, <3>4
    <3>6. DOMAIN stack' = 1..(Len(stack) - 1) /\ \A i \in 1..(Len(stack) - 1) : stack'[i] = stack[i]
      BY <2>1, <2>4, Pops DEF Return
    <3> QED BY <3>1, <3>5, <3>6
  <2> QED BY <2>1, <2>3, <2>4
<1>18. CASE ArgNull
  <2>1. stack # <<>> /\ Top.fn = "base" /\ stack' = Below /\ Release({Top.ret}) /\ val = NIL /\ pc = "back"
    BY <1>18 DEF ArgNull, InFrame, Free, Return
  <2>2. ~ArgAttached /\ ~CompileOk
    BY <2>1 DEF ArgAttached, CompileOk
  <2>3. Top.ret \in Live
    BY <2>1, Awaits
  <2>4. Live' \subseteq Live /\ Top.ret \notin Live'
    BY <2>1, <2>3, Survivors
  <2>5. PICK j \in DOMAIN stack : stack[j].fn = "base" /\ stack[j].ret = n
    BY <1>6, <2>2, <2>4
  <2>6. j # Len(stack)
    BY <2>4, <2>5 DEF Top
  <2>7. j \in 1..(Len(stack) - 1)
    BY <1>s, <2>6
  <2>8. DOMAIN stack' = 1..(Len(stack) - 1) /\ \A i \in 1..(Len(stack) - 1) : stack'[i] = stack[i]
    BY <2>1, Pops
  <2> QED BY <2>5, <2>7, <2>8
<1> QED
  BY <1>3, <1>4, <1>5, <1>8, <1>9, <1>10, <1>12, <1>13, <1>15, <1>16, <1>17, <1>18 DEF Next

\* The program is given an expression only when the text ended where it should.
Accepted == root # NIL => tok = "end"

\* Every step keeps Accepted: only the success path of te_compile sets the result.
LEMMA AcceptedStep ==
  ASSUME Control, Accepted, [Next]_vars
  PROVE  Accepted'
<1>1. CASE CompileOk
  BY <1>1 DEF CompileOk, Accepted
<1>2. CASE FreeExpr
  BY <1>2 DEF FreeExpr, Accepted
<1>3. CASE UNCHANGED vars
  BY <1>3 DEF vars, Accepted
<1>4. CASE CompileNull \/ CompileError
  BY <1>4 DEF CompileNull, CompileError, Accepted
<1>5. CASE Next /\ ~CompileOk /\ ~FreeExpr /\ ~CompileNull /\ ~CompileError
  <2>1. pc # "done" /\ root' = root
    BY <1>5 DEF Next, Compile, EnterChain, ChainNull, ChainFirst, ChainJoin, ChainJoinFails,
       ChainMore, ChainDone, EnterPower, PowerSign, PowerBase, PowerPlain, PowerNegate,
       PowerNegateFails, BaseLeaf, BaseFunction, BaseOpen, BaseDefault, BaseFails, NoArgs,
       NoArgsClose, Args, Arg, ArgNull, ArgAttached, ParenBack, InFrame, InBase, result
  <2> QED BY <2>1 DEF Accepted, Control
<1> QED BY <1>1, <1>2, <1>3, <1>4, <1>5

\* The inductive invariant of the heap.
HeapInv ==
  /\ Control /\ Reads /\ Accepted
  /\ Own(Pt, Live) /\ Filling /\ Filled
  /\ ~bad

\* There is nothing to own at the start.
LEMMA HeapInit == Init => HeapInv
<1> SUFFICES ASSUME Init PROVE HeapInv
  OBVIOUS
<1>1. Control /\ Reads
  BY ControlInit, ReadsInit
<1>2. stack = <<>> /\ heap = <<>> /\ val = 0 /\ root = 0 /\ ~bad
  BY DEF Init, NIL
<1>3. Live = {}
  BY <1>2 DEF Live
<1>4. ASSUME NEW n \in Nat, NEW k \in Int PROVE Pt[n][k] = 0
  <2>1. ParamOf(heap, n, k) = 0 /\ RetOf(stack, k) = 0
    BY <1>2 DEF ParamOf, RetOf, NIL
  <2> QED BY <1>2, <2>1, SlotsAt DEF Pt
<1>5. Pt \in Pointings
  BY <1>1, PtType
<1>6. Own(Pt, Live)
  BY <1>3, <1>4, <1>5 DEF Own
<1>7. Filling /\ Filled /\ Accepted
  BY <1>2, <1>3 DEF Filling, Filled, Accepted, NIL
<1> QED BY <1>1, <1>2, <1>6, <1>7 DEF HeapInv

\* HeapInv holds throughout.
LEMMA HeapInvariant == Spec => []HeapInv
<1>1. HeapInv /\ [Next]_vars => HeapInv'
  <2> SUFFICES ASSUME HeapInv, [Next]_vars PROVE HeapInv'
    OBVIOUS
  <2> USE DEF HeapInv
  <2>1. Control' /\ Reads' /\ Accepted'
    BY ControlStep, ReadsStep, AcceptedStep
  <2>2. Own(Pt', Live') /\ ~bad'
    BY <2>1, OwnStep
  <2>3. Filling' /\ Filled'
    BY <2>1, FillingStep, FilledStep
  <2> QED BY <2>1, <2>2, <2>3
<1> QED BY <1>1, HeapInit, PTL DEF Spec

\* Every node that was allocated and not freed belongs to exactly one holder, for
\* texts of any length and whichever mallocs fail: nothing is leaked, the CHECK_NULL
\* paths free nothing that somebody else holds, and nothing is freed twice or followed
\* through NULL.
THEOREM OwnedCorrect == Spec => []Owned
<1>1. ASSUME HeapInv PROVE Owned
  <2>0. Control /\ Own(Pt, Live) /\ ~bad
    BY <1>1 DEF HeapInv
  <2>s. \A k \in DOMAIN stack : k \in Int /\ k > 0
    BY <2>0 DEF Control
  <2>1. \A p \in Pointers(heap, Live) : /\ p[1] \in Nat /\ p[2] \in Int /\ p = <<p[1], p[2], p[3]>>
                                        /\ p[3] # 0 /\ Pt[p[1]][p[2]] = p[3]
    <3> SUFFICES ASSUME NEW n \in Live, NEW k \in DOMAIN heap[n].params, heap[n].params[k] # NIL
                 PROVE  n \in Nat /\ k \in Int /\ Pt[n][k] = heap[n].params[k]
      BY DEF Pointers, NIL
    <3>1. n \in DOMAIN heap /\ heap[n].live /\ n \in Nat /\ n # 0 /\ heap[n] \in NodeSet
      BY <2>0 DEF Live, Control
    <3>2. heap[n].params \in Seq(Nat)
      BY <3>1 DEF NodeSet
    <3>3. k \in Int
      BY <3>2
    <3> QED BY <3>1, <3>3, SlotsAt DEF Pt, ParamOf
  <2>2. \A p \in {<<0, k, stack[k].ret>> : k \in {j \in DOMAIN stack : stack[j].ret # NIL}} :
          /\ p[1] \in Nat /\ p[2] \in Int /\ p = <<p[1], p[2], p[3]>>
          /\ p[3] # 0 /\ Pt[p[1]][p[2]] = p[3]
    <3> SUFFICES ASSUME NEW k \in DOMAIN stack, stack[k].ret # NIL
                 PROVE  k \in Int /\ Pt[0][k] = stack[k].ret
      BY DEF NIL
    <3> QED BY <2>0, <2>s, CallSlots DEF RetOf
  <2>3. \A p \in {x \in {<<0, 0, val>>, <<0, -1, root>>} : x[3] # NIL} :
          /\ p[1] \in Nat /\ p[2] \in Int /\ p = <<p[1], p[2], p[3]>>
          /\ p[3] # 0 /\ Pt[p[1]][p[2]] = p[3]
    BY <2>0, CallSlots DEF NIL
  <2>4. \A p \in Holders : /\ p[1] \in Nat /\ p[2] \in Int /\ p = <<p[1], p[2], p[3]>>
                           /\ p[3] # 0 /\ Pt[p[1]][p[2]] = p[3]
    BY <2>1, <2>2, <2>3, Zenon DEF Holders
  <2>5. ASSUME NEW n \in Nat, NEW k \in Int, Pt[n][k] # 0 PROVE <<n, k, Pt[n][k]>> \in Holders
    <3>1. CASE n # 0
      <4>1. n \in Live /\ k \in DOMAIN heap[n].params /\ Pt[n][k] = heap[n].params[k]
        BY <2>5, <3>1, SlotsAt DEF Pt, ParamOf, NIL, Live
      <4>2. <<n, k, Pt[n][k]>> \in Pointers(heap, Live)
        BY <2>5, <4>1 DEF Pointers, NIL
      <4> QED BY <4>2 DEF Holders
    <3>2. CASE n = 0 /\ k = 0
      BY <2>0, <2>5, <3>2, CallSlots DEF Holders, NIL
    <3>3. CASE n = 0 /\ k = -1
      BY <2>0, <2>5, <3>3, CallSlots DEF Holders, NIL
    <3>4. CASE n = 0 /\ k # 0 /\ k # -1
      <4>1. k \in DOMAIN stack /\ Pt[n][k] = stack[k].ret
        BY <2>5, <3>4, SlotsAt DEF Pt, RetOf, NIL
      <4> QED BY <2>5, <3>4, <4>1 DEF Holders, NIL
    <3> QED BY <3>1, <3>2, <3>3, <3>4
  <2>6. \A p \in Holders : p[3] \in Live
    BY <2>0, <2>4 DEF Own
  <2>7. \A p, q \in Holders : p[3] = q[3] => p = q
    <3> SUFFICES ASSUME NEW p \in Holders, NEW q \in Holders, p[3] = q[3] PROVE p = q
      OBVIOUS
    <3>1. /\ p[1] \in Nat /\ p[2] \in Int /\ p = <<p[1], p[2], p[3]>>
          /\ p[3] # 0 /\ Pt[p[1]][p[2]] = p[3]
          /\ q[1] \in Nat /\ q[2] \in Int /\ q = <<q[1], q[2], q[3]>> /\ Pt[q[1]][q[2]] = q[3]
      BY <2>4
    <3>2. p[1] = q[1] /\ p[2] = q[2]
      BY <2>0, <3>1 DEF Own
    <3> QED BY <3>1, <3>2, Zenon
  <2>8. \A x \in Live : \E p \in Holders : p[3] = x
    <3> SUFFICES ASSUME NEW x \in Live PROVE \E p \in Holders : p[3] = x
      OBVIOUS
    <3>1. {x} \in SUBSET Live /\ {x} # {} /\ x # 0
      BY <2>0 DEF Own
    <3>2. PICK n \in Nat \ {x}, k \in Int : Pt[n][k] \in {x}
      BY <2>0, <3>1 DEF Own
    <3>3. <<n, k, x>> \in Holders
      BY <2>5, <3>1, <3>2
    <3> QED BY <3>3
  <2>9. Cardinality(Holders) = Cardinality(Live)
    BY <2>0, <2>6, <2>7, <2>8, LiveFinite, Thirds
  <2> QED BY <2>0, <2>6, <2>8, <2>9 DEF Owned
<1> QED BY <1>1, HeapInvariant, PTL

\* An expression that te_compile returns is complete, for texts of any length: no
\* parameter is NULL or freed where te_eval would follow it.
THEOREM CompleteCorrect == Spec => []Complete
<1>1. ASSUME HeapInv PROVE Complete
  <2> SUFFICES ASSUME root # NIL, NEW n \in Reach(heap, root)
               PROVE  heap[n].live /\ NIL \notin {heap[n].params[k] : k \in DOMAIN heap[n].params}
    BY DEF Complete
  <2>0. Control /\ Own(Pt, Live) /\ Filled /\ Accepted
    BY <1>1 DEF HeapInv
  <2>1. stack = <<>> /\ tok = "end"
    BY <2>0 DEF Accepted, Control
  <2>2. root \in Live
    BY <2>0, CallSlots DEF Own, NIL
  <2>3. Reach(heap, root) \subseteq Walks({root}) /\ Walks({root}) \subseteq Live
    BY <2>0, <2>2, ReachOwn DEF Walks
  <2>4. \A m \in Live : \A k \in DOMAIN heap[m].params : heap[m].params[k] # NIL
    BY <2>0, <2>1 DEF Filled
  <2> QED BY <2>3, <2>4 DEF Live
<1> QED BY <1>1, HeapInvariant, PTL

(***************************************************************************)
(* Calls that are not pure                                                 *)
(***************************************************************************)

\* Where a text whose last token is still to be parsed holds one of some tokens.
Before(text, tokens) == {k \in 1..(Len(text) - 1) : text[k] \in tokens}

ImpureIn(h) == {n \in DOMAIN h : h[n].type = "fun" /\ ~h[n].pure}

\* While memory lasts nothing is freed before te_compile is through, s->type is the
\* last token read unless it is an error, and every other token that names a function
\* of the program has its node.
Tally ==
  /\ pc = "idle" => heap = <<>> /\ input = <<>>
  /\ ~oom /\ pc \notin {"idle", "done", "over"} =>
       /\ Live = DOMAIN heap
       /\ tok # "error" =>
            /\ input # <<>> /\ tok = input[Len(input)]
            /\ Cardinality(ImpureIn(heap)) = Cardinality(Before(input, Impure))
  /\ root # NIL =>
       Cardinality({n \in Live : heap[n].type = "fun" /\ ~heap[n].pure})
         = Cardinality({k \in DOMAIN input : input[k] \in Impure})

\* Positions before the last are finitely many, and the last is none of them.
LEMMA BeforeFinite ==
  ASSUME Control, NEW S
  PROVE  /\ IsFiniteSet(Before(input, S)) /\ Cardinality(Before(input, S)) \in Nat
         /\ Len(input) \notin Before(input, S)
<1>1. Len(input) \in Nat
  BY DEF Control
<1>2. IsFiniteSet(1..(Len(input) - 1))
  BY <1>1, FS_Interval
<1>3. Before(input, S) \subseteq 1..(Len(input) - 1)
  BY DEF Before
<1>4. IsFiniteSet(Before(input, S)) /\ Cardinality(Before(input, S)) \in Nat
  BY <1>2, <1>3, FS_Subset, FS_CardinalityType
<1> QED BY <1>1, <1>3, <1>4

\* A token that is read is the last one; the one before it counts from now on.
LEMMA ReadOn ==
  ASSUME Control, NextToken, NEW S, input # <<>> => tok = input[Len(input)]
  PROVE  /\ input' # <<>> /\ tok' = input'[Len(input')]
         /\ Cardinality(Before(input', S))
              = Cardinality(Before(input, S)) + IF input # <<>> /\ tok \in S THEN 1 ELSE 0
<1> DEFINE A == AllTokens \cup {"end"}
           l == Len(input)
<1>1. input \in Seq(A) /\ tok' \in A /\ input' = Append(input, tok')
  BY TokenRead DEF Control, NextToken
<1> HIDE DEF A
<1>2. /\ Len(input') = l + 1 /\ input'[l + 1] = tok' /\ l \in Nat
      /\ \A k \in 1..l : input'[k] = input[k]
  BY <1>1
<1>3. input' # <<>> /\ tok' = input'[Len(input')]
  BY <1>2
<1>4. \A k \in Int : k \in 1..(l + 1 - 1) <=> k \in 1..(l - 1) \/ (k = l /\ l > 0)
  BY <1>2
<1>5. input = <<>> <=> l = 0
  BY <1>1
<1>f. /\ IsFiniteSet(Before(input, S)) /\ Cardinality(Before(input, S)) \in Nat
      /\ l \notin Before(input, S)
  BY BeforeFinite
<1>6. CASE input # <<>> /\ tok \in S
  <2>1. Before(input', S) = Before(input, S) \cup {l}
    BY <1>2, <1>4, <1>5, <1>6 DEF Before
  <2>2. Cardinality(Before(input, S) \cup {l}) = Cardinality(Before(input, S)) + 1
    BY <1>f, FS_AddElement
  <2> QED BY <1>3, <1>6, <2>1, <2>2
<1>7. CASE ~(input # <<>> /\ tok \in S)
  <2>1. Before(input', S) = Before(input, S)
    BY <1>2, <1>4, <1>5, <1>7 DEF Before
  <2> QED BY <1>3, <1>7, <1>f, <2>1
<1> QED BY <1>6, <1>7

\* optimize removes and folds no call of a function that is not pure.
LEMMA OptimizeImpure ==
  ASSUME Control, Own(Pt, Live), val \in Live, Optimize(val), Live = DOMAIN heap
  PROVE  {n \in Live' : heap'[n].type = "fun" /\ ~heap'[n].pure} = ImpureIn(heap)
<1> DEFINE F == Folded(heap, val)
           D == Walks(Folds(val))
<1>1. /\ DOMAIN heap' = DOMAIN heap
      /\ Live' = Live \ D
      /\ \A n \in DOMAIN heap :
           n \notin D => heap'[n] = IF n \in F THEN Node("const", FALSE, <<>>) ELSE heap[n]
  BY OptimizeHeap
<1>2. Visited(heap, val) \subseteq Live /\ F \subseteq Live /\ D \subseteq Live
  BY OptimizeWalks
<1>3. \A n \in F : n \notin ImpureIn(heap)
  BY DEF Folded, ImpureIn
<1>4. \A n \in D : n \notin ImpureIn(heap)
  <2> SUFFICES ASSUME NEW n \in D PROVE n \notin ImpureIn(heap)
    OBVIOUS
  <2>0. PICK m \in F : \E c \in Children(heap, m) : n \in Reach(heap, c)
    BY DEF Walks, Folds
  <2>1. PICK c \in Children(heap, m) : n \in Reach(heap, c)
    BY <2>0
  <2>2. \A x \in Live \cap DOMAIN heap : Children(heap, x) \subseteq Live
    BY ChildrenAre DEF Own
  <2>3. Len(heap) \in Nat /\ Live \subseteq 1..Len(heap) /\ m \in Live
    BY <1>2, LiveFinite
  <2>4. /\ m # NIL => m \in Reach(heap, m)
        /\ \A x \in Reach(heap, m) \cap DOMAIN heap : Children(heap, x) \subseteq Reach(heap, m)
    BY <2>2, <2>3, ClosureLeast DEF Reach
  <2>5. m # NIL
    BY <2>3 DEF NIL
  <2>6. c \in Reach(heap, m)
    BY <2>1, <2>3, <2>4, <2>5
  <2>7. Reach(heap, c) \subseteq Reach(heap, m)
    BY <2>3, <2>4, <2>6, ClosureWithin DEF Reach
  <2>8. heap[n].type = "const" \/ heap[n].pure
    BY <2>1, <2>7 DEF Folded, Known
  <2> QED BY <2>8 DEF ImpureIn
<1>5. Node("const", FALSE, <<>>).type = "const"
  BY DEF Node
<1> HIDE DEF F, D
<1> QED BY <1>1, <1>2, <1>3, <1>4, <1>5 DEF ImpureIn

\* A step that reads no token, finds an error, or reads on from a token that is not one
\* of a function of the program, and neither frees a node nor makes such a call.
LEMMA TallyKept ==
  ASSUME Control, Tally, pc \notin {"idle", "done", "over"}, oom' = oom, pc' # "idle",
         root' = NIL,
         KeepToken \/ SetError \/ (NextToken /\ tok \notin Impure \cup {"error"}),
         ~oom => Live' = DOMAIN heap' /\ ImpureIn(heap') = ImpureIn(heap)
  PROVE  Tally'
<1>1. ASSUME ~oom, tok' # "error"
      PROVE  /\ input' # <<>> /\ tok' = input'[Len(input')]
             /\ Cardinality(ImpureIn(heap')) = Cardinality(Before(input', Impure))
  <2>1. CASE KeepToken
    BY <1>1, <2>1 DEF KeepToken, Tally
  <2>2. CASE SetError
    BY <1>1, <2>2 DEF SetError
  <2>3. CASE NextToken /\ tok \notin Impure /\ tok # "error"
    <3>1. /\ input # <<>> /\ tok = input[Len(input)]
          /\ Cardinality(ImpureIn(heap)) = Cardinality(Before(input, Impure))
      BY <1>1, <2>3 DEF Tally
    <3>2. /\ input' # <<>> /\ tok' = input'[Len(input')]
          /\ Cardinality(Before(input', Impure)) = Cardinality(Before(input, Impure)) + 0
      BY <2>3, <3>1, ReadOn
    <3>3. Cardinality(Before(input, Impure)) \in Nat
      BY BeforeFinite
    <3> QED BY <1>1, <3>1, <3>2, <3>3
  <2> QED BY <2>1, <2>2, <2>3
<1> QED BY <1>1 DEF Tally

\* A node that is allocated is live, and the others stay as they are.
LEMMA AllocImpure ==
  ASSUME Control, NEW x \in NodeSet, x.live, Alloc(x), Live = DOMAIN heap
  PROVE  /\ Live' = DOMAIN heap'
         /\ ImpureIn(heap') = ImpureIn(heap) \cup (IF x.type = "fun" /\ ~x.pure THEN {New} ELSE {})
         /\ New \notin ImpureIn(heap)
<1>1. heap \in Seq(NodeSet) /\ heap' = Append(heap, x)
  BY DEF Control, Alloc
<1>2. /\ Len(heap) \in Nat /\ heap' \in Seq(NodeSet) /\ Len(heap') = Len(heap) + 1
      /\ heap'[New] = x /\ \A n \in 1..Len(heap) : heap'[n] = heap[n]
  BY <1>1, Push DEF New
<1>3. DOMAIN heap = 1..Len(heap) /\ DOMAIN heap' = 1..(Len(heap) + 1)
  BY <1>1, <1>2
<1>4. \A n \in Int : n \in 1..(Len(heap) + 1) <=> n \in 1..Len(heap) \/ n = New
  BY <1>2 DEF New
<1>5. New \notin 1..Len(heap) /\ New \in Int
  BY <1>2 DEF New
<1> QED BY <1>2, <1>3, <1>4, <1>5 DEF Live, ImpureIn

\* Every step keeps Tally: base makes the node of a function as it reads on from it.
LEMMA TallyStep ==
  ASSUME Control, Control', Told, Reads, Own(Pt, Live), Tally, [Next]_vars
  PROVE  Tally'
<1>r. pc # "done" => root = NIL
  BY DEF Control
<1>b. oom \in BOOLEAN
  BY DEF Control
<1>1. CASE Compile
  <2>1. heap = <<>> /\ input = <<>> /\ NextToken /\ heap' = heap /\ root' = NIL /\ pc' = "call"
    BY <1>1, <1>r DEF Compile, Call, Tally, memory, result
  <2>2. /\ input' # <<>> /\ tok' = input'[Len(input')]
        /\ Cardinality(Before(input', Impure)) = Cardinality(Before(input, Impure)) + 0
    BY <2>1, ReadOn
  <2>3. Before(input, Impure) = {} /\ ImpureIn(heap') = {} /\ Live' = DOMAIN heap'
    BY <2>1 DEF Before, ImpureIn, Live
  <2>4. Cardinality({}) = 0
    BY FS_EmptySet
  <2>5. Cardinality(ImpureIn(heap')) = Cardinality(Before(input', Impure))
    BY <2>2, <2>3, <2>4
  <2> HIDE <1>1
  <2> QED BY <2>1, <2>2, <2>3, <2>5 DEF Tally
<1>2. CASE EnterChain \/ ChainFirst \/ ChainMore \/ ChainDone \/ EnterPower \/ PowerSign
           \/ PowerBase \/ PowerPlain \/ BaseOpen \/ NoArgs \/ NoArgsClose \/ Args \/ Arg
           \/ ParenBack
  <2>1. pc \in {"call", "back", "loop", "args", "close", "arg"} /\ pc' # "idle"
    BY <1>2 DEF EnterChain, ChainFirst, ChainMore, ChainDone, EnterPower, PowerSign, PowerBase,
       PowerPlain, BaseOpen, NoArgs, NoArgsClose, Args, Arg, ParenBack, InFrame, InBase, Call,
       Continue, Return
  <2>2. heap' = heap /\ oom' = oom /\ root' = root
    BY <1>2 DEF EnterChain, ChainFirst, ChainMore, ChainDone, EnterPower, PowerSign, PowerBase,
       PowerPlain, BaseOpen, NoArgs, NoArgsClose, Args, Arg, ParenBack, memory, result
  <2>3. KeepToken \/ SetError \/ (NextToken /\ tok \in {"sep", "add", "sub", "mul", "pow", "open", "close"})
    <3>1. CASE ChainMore
      BY <3>1 DEF ChainMore, InFrame, Chain, Ops
    <3>2. CASE Arg
      BY <3>2 DEF Arg, InFrame, Reads
    <3>3. CASE ~ChainMore /\ ~Arg
      BY <1>2, <3>3 DEF EnterChain, ChainFirst, ChainDone, EnterPower, PowerSign, PowerBase,
         PowerPlain, BaseOpen, NoArgs, NoArgsClose, Args, ParenBack
    <3> QED BY <3>1, <3>2, <3>3
  <2>4. ~oom => Live' = DOMAIN heap' /\ ImpureIn(heap') = ImpureIn(heap)
    BY <2>1, <2>2 DEF Tally, Live
  <2>5. KeepToken \/ SetError \/ (NextToken /\ tok \notin Impure \cup {"error"})
    BY <2>3 DEF Impure
  <2> HIDE <1>2
  <2> QED BY <1>r, <2>1, <2>2, <2>4, <2>5, TallyKept
<1>3. CASE ChainNull \/ ArgNull
  BY <1>3, <1>r DEF ChainNull, ArgNull, InFrame, Told, Free, Return, result, Tally
<1>4. CASE ChainJoinFails \/ PowerNegateFails \/ BaseFails
  BY <1>4, <1>r DEF ChainJoinFails, PowerNegateFails, BaseFails, AllocFails, Return, InFrame,
     InBase, result, Tally
<1>5. CASE ChainJoin \/ PowerNegate \/ BaseLeaf \/ BaseDefault
  <2>1. pc \in {"call", "back"} /\ pc' # "idle" /\ oom' = oom /\ root' = root
    BY <1>5 DEF ChainJoin, PowerNegate, BaseLeaf, BaseDefault, InFrame, InBase, Alloc, Return,
       Continue, result
  <2>2. KeepToken \/ SetError \/ (NextToken /\ tok \in {"num", "var"})
    BY <1>5 DEF ChainJoin, PowerNegate, BaseLeaf, BaseDefault
  <2>3. PICK x \in NodeSet : Alloc(x) /\ x.live /\ ~(x.type = "fun" /\ ~x.pure)
    <3>1. ASSUME NEW p \in Seq(Nat)
          PROVE  /\ Node("fun", TRUE, p) \in NodeSet /\ Node("fun", TRUE, p).live
                 /\ Node("fun", TRUE, p).pure
      BY DEF Node, NodeSet
    <3>2. ASSUME NEW t \in {"const", "var"}
          PROVE  /\ Node(t, FALSE, <<>>) \in NodeSet /\ Node(t, FALSE, <<>>).live
                 /\ Node(t, FALSE, <<>>).type # "fun"
      BY DEF Node, NodeSet
    <3>3. CASE ChainJoin
      <4>1. Top.ret \in Nat /\ val \in Nat
        BY <3>3, Pops DEF ChainJoin, InFrame, CallSet, Control
      <4>2. <<Top.ret, val>> \in Seq(Nat)
        BY <4>1
      <4> QED BY <3>1, <3>3, <4>2 DEF ChainJoin
    <3>4. CASE PowerNegate
      <4>1. <<val>> \in Seq(Nat)
        BY DEF Control
      <4> QED BY <3>1, <3>4, <4>1 DEF PowerNegate
    <3>5. CASE BaseLeaf
      BY <3>2, <3>5 DEF BaseLeaf
    <3>6. CASE BaseDefault
      BY <3>2, <3>6 DEF BaseDefault
    <3> QED BY <1>5, <3>3, <3>4, <3>5, <3>6
  <2>4. ~oom => Live' = DOMAIN heap' /\ ImpureIn(heap') = ImpureIn(heap)
    <3>1. ASSUME ~oom PROVE Live = DOMAIN heap
      BY <2>1, <3>1 DEF Tally
    <3> QED BY <2>3, <3>1, AllocImpure
  <2>5. KeepToken \/ SetError \/ (NextToken /\ tok \notin Impure \cup {"error"})
    BY <2>2 DEF Impure
  <2> HIDE <1>5
  <2> QED BY <1>r, <2>1, <2>4, <2>5, TallyKept
<1>6. CASE BaseFunction
  <2> DEFINE x == Node("fun", tok \notin Impure, [k \in 1..Arity[tok] |-> NIL])
  <2>1. Alloc(x) /\ NextToken /\ pc = "call" /\ tok \in FunctionTokens /\ root' = NIL
        /\ pc' \in {"call", "args"} /\ oom' = oom
    BY <1>6, <1>r DEF BaseFunction, InBase, Call, Alloc, result
  <2>2. x \in NodeSet /\ x.live /\ x.type = "fun" /\ (x.pure <=> tok \notin Impure)
    <3>1. [k \in 1..Arity[tok] |-> NIL] \in Seq(Nat)
      BY <2>1 DEF FunctionTokens, Arity, NIL
    <3> QED BY <3>1 DEF Node, NodeSet
  <2> HIDE DEF x
  <2>3. ASSUME ~oom
        PROVE  /\ Live' = DOMAIN heap' /\ input' # <<>> /\ tok' = input'[Len(input')]
               /\ Cardinality(ImpureIn(heap')) = Cardinality(Before(input', Impure))
    <3>1. /\ Live = DOMAIN heap /\ input # <<>> /\ tok = input[Len(input)]
          /\ Cardinality(ImpureIn(heap)) = Cardinality(Before(input, Impure))
      BY <2>1, <2>3 DEF Tally, FunctionTokens, Arity
    <3>2. /\ Live' = DOMAIN heap'
          /\ ImpureIn(heap') = ImpureIn(heap) \cup (IF tok \in Impure THEN {New} ELSE {})
          /\ New \notin ImpureIn(heap)
      BY <2>1, <2>2, <3>1, AllocImpure
    <3>3. /\ input' # <<>> /\ tok' = input'[Len(input')]
          /\ Cardinality(Before(input', Impure))
               = Cardinality(Before(input, Impure)) + IF tok \in Impure THEN 1 ELSE 0
      BY <2>1, <3>1, ReadOn
    <3>4. IsFiniteSet(ImpureIn(heap))
      BY <3>1, LiveFinite, FS_Subset DEF ImpureIn
    <3>5. CASE tok \in Impure
      <4>1. Cardinality(ImpureIn(heap) \cup {New}) = Cardinality(ImpureIn(heap)) + 1
        BY <3>2, <3>4, FS_AddElement
      <4> QED BY <3>1, <3>2, <3>3, <3>5, <4>1
    <3>6. CASE tok \notin Impure
      <4>1. Cardinality(Before(input, Impure)) \in Nat
        BY BeforeFinite
      <4>2. ImpureIn(heap') = ImpureIn(heap)
        BY <3>2, <3>6
      <4>3. Cardinality(Before(input', Impure)) = Cardinality(Before(input, Impure))
        BY <3>3, <3>6, <4>1
      <4> QED BY <3>1, <3>2, <3>3, <4>2, <4>3
    <3> QED BY <3>5, <3>6
  <2> QED BY <2>1, <2>3 DEF Tally
<1>7. CASE ArgAttached
  <2>1. /\ heap' = [heap EXCEPT ![Top.ret].params[Top.i + 1] = val]
        /\ oom' = oom /\ root' = NIL /\ pc = "back" /\ pc' # "idle"
        /\ (KeepToken \/ SetError \/ (NextToken /\ tok = "close"))
    BY <1>7, <1>r DEF ArgAttached, InFrame, Return, Continue, result
  <2>2. DOMAIN heap' = DOMAIN heap /\ \A n \in DOMAIN heap : heap[n] \in NodeSet
    BY <2>1 DEF Control
  <2>3. ASSUME NEW n \in DOMAIN heap
        PROVE  heap'[n].type = heap[n].type /\ heap'[n].pure = heap[n].pure
               /\ heap'[n].live = heap[n].live
    <3>1. CASE n = Top.ret
      <4>1. heap'[n] = [heap[n] EXCEPT !.params[Top.i + 1] = val]
        BY <2>1, <3>1
      <4>2. \A y \in NodeSet : \A q : /\ [y EXCEPT !.params = q].type = y.type
                                      /\ [y EXCEPT !.params = q].pure = y.pure
                                      /\ [y EXCEPT !.params = q].live = y.live
        BY DEF NodeSet
      <4> QED BY <2>2, <4>1, <4>2
    <3>2. CASE n # Top.ret
      BY <2>1, <3>2
    <3> QED BY <3>1, <3>2
  <2>4. ~oom => Live' = DOMAIN heap' /\ ImpureIn(heap') = ImpureIn(heap)
    BY <2>1, <2>2, <2>3 DEF Tally, Live, ImpureIn
  <2>5. KeepToken \/ SetError \/ (NextToken /\ tok \notin Impure \cup {"error"})
    BY <2>1 DEF Impure
  <2> HIDE <1>7
  <2> QED BY <2>1, <2>4, <2>5, TallyKept
<1>8. CASE CompileNull \/ CompileError \/ FreeExpr
  BY <1>8, <1>r DEF CompileNull, CompileError, FreeExpr, Returned, Tally
<1>9. CASE CompileOk
  <2>1. /\ pc = "back" /\ val # NIL /\ tok = "end" /\ Optimize(val) /\ pc' = "done" /\ input' = input
        /\ stack = <<>> /\ root' = val
    BY <1>9 DEF CompileOk, Returned
  <2>2. ~oom
    BY <2>1 DEF Told
  <2>3. /\ Live = DOMAIN heap /\ input # <<>> /\ input[Len(input)] = "end"
        /\ Cardinality(ImpureIn(heap)) = Cardinality(Before(input, Impure))
    BY <2>1, <2>2 DEF Tally
  <2>4. val \in Live
    BY <2>1, CallSlots DEF Own, NIL
  <2>5. {n \in Live' : heap'[n].type = "fun" /\ ~heap'[n].pure} = ImpureIn(heap)
    BY <2>1, <2>3, <2>4, OptimizeImpure
  <2>6. {k \in DOMAIN input : input[k] \in Impure} = Before(input, Impure)
    <3>1. DOMAIN input = 1..Len(input) /\ Len(input) \in Nat
      BY DEF Control
    <3>2. input[Len(input)] \notin Impure
      BY <2>3 DEF Impure
    <3>3. \A l \in Nat : /\ \A k \in 1..l : k = l \/ k \in 1..(l - 1)
                         /\ \A k \in 1..(l - 1) : k \in 1..l
      OBVIOUS
    <3> QED BY <3>1, <3>2, <3>3 DEF Before
  <2> QED BY <2>1, <2>3, <2>5, <2>6 DEF Tally
<1>10. CASE UNCHANGED vars
  BY <1>10 DEF vars, Tally, Live
<1> QED
  BY <1>1, <1>2, <1>3, <1>4, <1>5, <1>6, <1>7, <1>8, <1>9, <1>10 DEF Next

\* What is not pure is left to te_eval, for texts of any length: the expression that
\* te_compile returns holds as many calls of functions of the program as the text.
THEOREM ImpureSurvivesCorrect == Spec => []ImpureSurvives
<1>1. Init => Control /\ Told /\ HeapInv /\ Tally
  <2> SUFFICES ASSUME Init PROVE Control /\ Told /\ HeapInv /\ Tally
    OBVIOUS
  <2>1. Control /\ HeapInv /\ Told
    BY ControlInit, HeapInit DEF Init, Told, ErrorCode
  <2> QED BY <2>1 DEF Init, Tally
<1>2. Told /\ HeapInv /\ HeapInv' /\ Tally /\ [Next]_vars => Told' /\ Tally'
  BY ToldStep, TallyStep DEF HeapInv
<1>3. ASSUME HeapInv, Tally PROVE ImpureSurvives
  <2> SUFFICES ASSUME root # NIL
               PROVE  Cardinality({n \in Reach(heap, root) : heap[n].type = "fun" /\ ~heap[n].pure})
                        = Cardinality({k \in DOMAIN input : input[k] \in Impure})
    BY DEF ImpureSurvives
  <2>0. Control /\ Own(Pt, Live) /\ stack = <<>> /\ val = 0 /\ root # 0 /\ root \in Nat
    BY <1>3 DEF HeapInv, Control, NIL
  <2>1. \A k \in Int : Pt[0][k] = IF k = -1 THEN root ELSE 0
    BY <2>0, SlotsAt DEF Pt, RetOf, NIL
  <2>2. root \in Live
    <3>1. -1 \in Int /\ Pt[0][-1] = root
      BY <2>1
    <3> QED BY <2>0, <3>1 DEF Own
  <2>3. /\ Walks({root}) \subseteq Live /\ root \in Walks({root})
        /\ \A n \in Walks({root}), k \in Int : Pt[n][k] # 0 => Pt[n][k] \in Walks({root})
    BY <2>0, <2>2, ReachOwn
  <2>4. Walks({root}) = Reach(heap, root)
    BY DEF Walks
  <2>5. Walks({root}) = Live
    <3> SUFFICES ASSUME Walks({root}) # Live PROVE FALSE
      OBVIOUS
    <3> DEFINE S == Live \ Walks({root})
    <3>1. S \in SUBSET Live /\ S # {}
      BY <2>3
    <3>2. PICK n \in Nat \ S, k \in Int : Pt[n][k] \in S
      <4> HIDE DEF S
      <4> QED BY <2>0, <3>1 DEF Own
    <3>3. Pt[n][k] # 0 /\ Pt[n][k] \notin Walks({root})
      BY <2>0, <3>2 DEF Own
    <3>4. n # 0
      BY <2>1, <2>3, <3>3
    <3>5. n \in Live
      BY <3>3, <3>4, SlotsAt DEF Pt, ParamOf, NIL, Live
    <3> QED BY <2>3, <3>2, <3>3, <3>5
  <2> QED BY <1>3, <2>4, <2>5 DEF Tally
<1> QED BY <1>1, <1>2, <1>3, HeapInvariant, PTL DEF Spec

(***************************************************************************)
(* The depth of the recursion                                              *)
(***************************************************************************)

\* What a call is: a call of base for a function of several arguments, which stand in
\* parentheses, is told apart from one for a function of one or none.
Kind(f, h) == IF f.fn = "base" /\ Len(h[f.ret].params) >= 2 THEN "wide" ELSE f.fn
Kinds == [k \in DOMAIN stack |-> Kind(stack[k], heap)]

KindSet == {"list", "expr", "term", "factor", "power", "base", "paren", "wide"}

\* The call that a call makes, and how much deeper the stack can get before "(" or a
\* function is read.
Inner(k) == CASE k \in {"wide", "list"} -> "expr" [] k = "expr" -> "term" [] k = "term" -> "factor"
              [] k \in {"factor", "base"} -> "power" [] k = "power" -> "base" [] k = "paren" -> "list"
Slack(k) == CASE k = "list" -> 4 [] k = "expr" -> 3 [] k = "term" -> 2 [] k = "factor" -> 1
              [] k = "power" -> 0 [] k = "base" -> 1 [] k = "paren" -> 5 [] k = "wide" -> 7

\* How many of the first l elements are of some kinds.
CountAt(s, l, S) == Cardinality({k \in 1..l : s[k] \in S})
Wides(s, l) == CountAt(s, l, {"paren", "wide"})
Bases(s, l) == CountAt(s, l, {"base", "wide"})

Deep(s, l) == \A k \in 1..l : k + Slack(s[k]) <= 5 + 6 * Wides(s, k) + 2 * Bases(s, k)

\* What is counted is finite.
LEMMA CountNat == ASSUME NEW s, NEW l \in Nat, NEW S PROVE CountAt(s, l, S) \in Nat
<1>1. {k \in 1..l : s[k] \in S} \subseteq 1..l
  OBVIOUS
<1>2. IsFiniteSet(1..l)
  BY FS_Interval
<1>3. IsFiniteSet({k \in 1..l : s[k] \in S})
  BY <1>1, <1>2, FS_Subset
<1> QED BY <1>3, FS_CardinalityType DEF CountAt

\* One more element counts once, or not at all.
LEMMA CountNext ==
  ASSUME NEW s, NEW l \in Nat, NEW S
  PROVE  CountAt(s, l + 1, S) = CountAt(s, l, S) + IF s[l + 1] \in S THEN 1 ELSE 0
<1> DEFINE A == {k \in 1..l : s[k] \in S}
           B == {k \in 1..(l + 1) : s[k] \in S}
<1>1. \A k \in Int : k \in 1..(l + 1) <=> k \in 1..l \/ k = l + 1
  OBVIOUS
<1>2. l + 1 \notin 1..l /\ l + 1 \in Int /\ A \subseteq 1..l
  OBVIOUS
<1>3. IsFiniteSet(A)
  <2>1. IsFiniteSet(1..l)
    BY FS_Interval
  <2> HIDE DEF A
  <2> QED BY <1>2, <2>1, FS_Subset
<1>4. CASE s[l + 1] \in S
  <2>1. B = A \cup {l + 1}
    BY <1>1, <1>2, <1>4
  <2>2. Cardinality(A \cup {l + 1}) = Cardinality(A) + 1
    <3> HIDE DEF A
    <3> QED BY <1>2, <1>3, FS_AddElement
  <2> QED BY <1>4, <2>1, <2>2 DEF CountAt
<1>5. CASE s[l + 1] \notin S
  <2>1. B = A
    BY <1>1, <1>2, <1>5
  <2>2. CountAt(s, l, S) \in Nat
    BY CountNat
  <2> QED BY <1>5, <2>1, <2>2 DEF CountAt
<1> QED BY <1>4, <1>5

\* Calls that are the same in number and kind are as deep.
LEMMA DeepSame ==
  ASSUME NEW s, NEW t, NEW l \in Nat, \A k \in 1..l : t[k] = s[k]
  PROVE  /\ Deep(s, l) => Deep(t, l)
         /\ Wides(t, l) = Wides(s, l) /\ Bases(t, l) = Bases(s, l)
<1>1. ASSUME NEW j \in Nat, j <= l, NEW S PROVE CountAt(t, j, S) = CountAt(s, j, S)
  <2>1. {k \in 1..j : t[k] \in S} = {k \in 1..j : s[k] \in S}
    BY <1>1
  <2> QED BY <2>1 DEF CountAt
<1>2. \A j \in 1..l : j \in Nat /\ j <= l /\ t[j] = s[j]
  OBVIOUS
<1>3. \A j \in 1..l : Wides(t, j) = Wides(s, j) /\ Bases(t, j) = Bases(s, j)
  BY <1>1, <1>2 DEF Wides, Bases
<1> QED BY <1>1, <1>2, <1>3 DEF Deep, Wides, Bases

\* A call that starts where the grammar lets it uses up slack, or is paid for.
LEMMA DeepPush ==
  ASSUME NEW s, NEW l \in Nat, Deep(s, l), s[l + 1] \in KindSet,
         l = 0 => s[l + 1] = "list",
         l > 0 => s[l] \in KindSet /\ \/ s[l + 1] = Inner(s[l])
                                      \/ s[l] = "power" /\ s[l + 1] \in {"base", "paren", "wide"}
  PROVE  /\ Deep(s, l + 1)
         /\ Wides(s, l + 1) = Wides(s, l) + IF s[l + 1] \in {"paren", "wide"} THEN 1 ELSE 0
         /\ Bases(s, l + 1) = Bases(s, l) + IF s[l + 1] \in {"base", "wide"} THEN 1 ELSE 0
         /\ Wides(s, l) \in Nat /\ Bases(s, l) \in Nat
<1>1. /\ Wides(s, l + 1) = Wides(s, l) + IF s[l + 1] \in {"paren", "wide"} THEN 1 ELSE 0
      /\ Bases(s, l + 1) = Bases(s, l) + IF s[l + 1] \in {"base", "wide"} THEN 1 ELSE 0
  BY CountNext DEF Wides, Bases
<1>2. Wides(s, l) \in Nat /\ Bases(s, l) \in Nat
  BY CountNat DEF Wides, Bases
<1>3. l + 1 + Slack(s[l + 1]) <= 5 + 6 * Wides(s, l + 1) + 2 * Bases(s, l + 1)
  <2>1. CASE l = 0
    <3>1. Slack(s[l + 1]) = 4 /\ Wides(s, l + 1) = Wides(s, l) /\ Bases(s, l + 1) = Bases(s, l)
      BY <1>1, <1>2, <2>1 DEF Slack
    <3> QED BY <1>2, <2>1, <3>1
  <2>2. CASE l > 0
    <3>0. l \in 1..l
      BY <2>2
    <3>1. l + Slack(s[l]) <= 5 + 6 * Wides(s, l) + 2 * Bases(s, l)
      BY <3>0 DEF Deep
    <3> DEFINE x == s[l]
               y == s[l + 1]
               w == Wides(s, l)
               b == Bases(s, l)
    <3>2. x \in KindSet /\ y \in KindSet /\ (y = Inner(x) \/ (x = "power" /\ y \in {"base", "paren", "wide"}))
      BY <2>2
    <3>3. Slack(y) <= Slack(x) - 1 + (IF y \in {"paren", "wide"} THEN 6 ELSE 0)
                                  + (IF y \in {"base", "wide"} THEN 2 ELSE 0)
          /\ Slack(x) \in Nat /\ Slack(y) \in Nat
      <4> HIDE DEF x, y
      <4> QED BY <3>2 DEF KindSet, Inner, Slack
    <3>4. /\ Wides(s, l + 1) = w + IF y \in {"paren", "wide"} THEN 1 ELSE 0
          /\ Bases(s, l + 1) = b + IF y \in {"base", "wide"} THEN 1 ELSE 0
          /\ w \in Nat /\ b \in Nat /\ l + Slack(x) <= 5 + 6 * w + 2 * b
      BY <1>1, <1>2, <3>1
    <3> HIDE DEF x, y, w, b
    <3>5. l + 1 + Slack(y) <= 5 + 6 * Wides(s, l + 1) + 2 * Bases(s, l + 1)
      BY <3>3, <3>4
    <3> QED BY <3>5 DEF y
  <2> QED BY <2>1, <2>2
<1>4. \A k \in 1..(l + 1) : k \in 1..l \/ k = l + 1
  OBVIOUS
<1>5. Deep(s, l + 1)
  BY <1>3, <1>4 DEF Deep
<1> QED BY <1>1, <1>2, <1>5

\* A call that ends leaves the ones below within the bound.
LEMMA DeepPop ==
  ASSUME NEW s, NEW l \in Nat, l > 0, Deep(s, l)
  PROVE  /\ Deep(s, l - 1)
         /\ Wides(s, l) = Wides(s, l - 1) + IF s[l] \in {"paren", "wide"} THEN 1 ELSE 0
         /\ Bases(s, l) = Bases(s, l - 1) + IF s[l] \in {"base", "wide"} THEN 1 ELSE 0
         /\ Wides(s, l - 1) \in Nat /\ Bases(s, l - 1) \in Nat
<1>1. l - 1 \in Nat /\ l - 1 + 1 = l /\ \A k \in 1..(l - 1) : k \in 1..l
  OBVIOUS
<1>2. /\ Wides(s, l) = Wides(s, l - 1) + IF s[l] \in {"paren", "wide"} THEN 1 ELSE 0
      /\ Bases(s, l) = Bases(s, l - 1) + IF s[l] \in {"base", "wide"} THEN 1 ELSE 0
  <2>1. \A S : CountAt(s, l - 1 + 1, S) = CountAt(s, l - 1, S) + IF s[l - 1 + 1] \in S THEN 1 ELSE 0
    BY <1>1, CountNext
  <2>2. \A S : CountAt(s, l, S) = CountAt(s, l - 1, S) + IF s[l] \in S THEN 1 ELSE 0
    BY <1>1, <2>1
  <2> QED BY <2>2 DEF Wides, Bases
<1>3. Wides(s, l - 1) \in Nat /\ Bases(s, l - 1) \in Nat
  BY <1>1, CountNat DEF Wides, Bases
<1>4. Deep(s, l - 1)
  BY <1>1 DEF Deep
<1> QED BY <1>2, <1>3, <1>4

\* s->type is the last token read, unless it is an error.
Latest ==
  /\ pc = "idle" => input = <<>>
  /\ pc # "idle" /\ tok # "error" => input # <<>> /\ tok = input[Len(input)]

\* Parentheses that were read and not closed, and functions that were read.
Opened == Cardinality(Before(input, {"open"})) - Cardinality(Before(input, {"close"}))
Named == Cardinality(Before(input, FunctionTokens))

\* The parenthesis of the innermost call of base: "()" for a function without
\* arguments has been read, or that of a function with several has not.
Pending == IF pc = "close" THEN 1
           ELSE IF pc \in {"args", "arg"} /\ Top.i = 0 /\ Kinds[Len(stack)] = "wide" THEN -1
           ELSE 0

\* Who calls whom, and what base does next.
Calling ==
  /\ pc = "call" => callee = IF stack = <<>> THEN "list" ELSE Inner(Kinds[Len(stack)])
  /\ pc \in {"args", "close", "arg"} => stack # <<>> /\ Top.fn = "base"
  /\ pc = "args" => Len(heap[Top.ret].params) # 1
  /\ pc = "arg" => Kinds[Len(stack)] = "wide" /\ tok = IF Top.i = 0 THEN "open" ELSE "sep"

\* l calls fit what was read: o parentheses are open, but p of them, n functions named.
Fits(s, l, o, n, p) == Deep(s, l) /\ o >= Wides(s, l) + p /\ n >= Bases(s, l)

Nested == Fits(Kinds, Len(stack), Opened, Named, Pending)

\* Every token that is read is counted once it has been parsed.
LEMMA Parsed ==
  ASSUME Control, Latest, pc # "idle"
  PROVE  /\ Opened \in Int /\ Named \in Nat
         /\ KeepToken \/ SetError => Opened' = Opened /\ Named' = Named
         /\ NextToken /\ tok # "error" =>
              /\ Opened' = Opened + (IF tok = "open" THEN 1 ELSE 0) - (IF tok = "close" THEN 1 ELSE 0)
              /\ Named' = Named + IF tok \in FunctionTokens THEN 1 ELSE 0
<1>1. \A S : Cardinality(Before(input, S)) \in Nat
  BY BeforeFinite
<1>2. ASSUME KeepToken \/ SetError PROVE Opened' = Opened /\ Named' = Named
  BY <1>2 DEF KeepToken, SetError, Opened, Named
<1>3. ASSUME NextToken, tok # "error", NEW S
      PROVE  Cardinality(Before(input', S))
               = Cardinality(Before(input, S)) + IF tok \in S THEN 1 ELSE 0
  <2>1. input # <<>> /\ tok = input[Len(input)]
    BY <1>3 DEF Latest
  <2> QED BY <1>3, <2>1, ReadOn
<1>4. ASSUME NextToken, tok # "error"
      PROVE  /\ Opened' = Opened + (IF tok = "open" THEN 1 ELSE 0) - (IF tok = "close" THEN 1 ELSE 0)
             /\ Named' = Named + IF tok \in FunctionTokens THEN 1 ELSE 0
  <2>1. Named' = Named + IF tok \in FunctionTokens THEN 1 ELSE 0
    BY <1>3, <1>4 DEF Named
  <2>2. /\ Cardinality(Before(input', {"open"}))
             = Cardinality(Before(input, {"open"})) + IF tok \in {"open"} THEN 1 ELSE 0
        /\ Cardinality(Before(input', {"close"}))
             = Cardinality(Before(input, {"close"})) + IF tok \in {"close"} THEN 1 ELSE 0
    BY <1>3, <1>4
  <2>3. Cardinality(Before(input, {"open"})) \in Nat /\ Cardinality(Before(input, {"close"})) \in Nat
    BY <1>1
  <2>4. tok \in {"open"} <=> tok = "open"
    OBVIOUS
  <2>5. tok \in {"close"} <=> tok = "close"
    OBVIOUS
  <2> QED BY <2>1, <2>2, <2>3, <2>4, <2>5 DEF Opened
<1>5. Opened \in Int /\ Named \in Nat
  BY <1>1 DEF Opened, Named
<1> QED BY <1>2, <1>4, <1>5

\* Every step keeps Latest: only next_token changes s->type, or an error does.
LEMMA LatestStep ==
  ASSUME Control, Latest, Reads, [Next]_vars
  PROVE  Latest'
<1>1. UNCHANGED <<tok, input>> \/ SetError \/ NextToken
  BY DEF Next, vars, Compile, EnterChain, ChainNull, ChainFirst, ChainJoin, ChainJoinFails,
     ChainMore, ChainDone, EnterPower, PowerSign, PowerBase, PowerPlain, PowerNegate,
     PowerNegateFails, BaseLeaf, BaseFunction, BaseOpen, BaseDefault, BaseFails, NoArgs,
     NoArgsClose, Args, Arg, ArgNull, ArgAttached, ParenBack, CompileNull, CompileError,
     CompileOk, FreeExpr, KeepToken
<1>2. /\ pc' = "idle" => UNCHANGED vars
      /\ pc = "idle" => UNCHANGED vars \/ NextToken
  BY DEF Next, vars, Compile, EnterChain, ChainNull, ChainFirst, ChainJoin, ChainJoinFails,
     ChainMore, ChainDone, EnterPower, PowerSign, PowerBase, PowerPlain, PowerNegate,
     PowerNegateFails, BaseLeaf, BaseFunction, BaseOpen, BaseDefault, BaseFails, NoArgs,
     NoArgsClose, Args, Arg, ArgNull, ArgAttached, ParenBack, CompileNull, CompileError,
     CompileOk, FreeExpr, InFrame, InBase, Returned, Call, Continue, Return
<1>3. tok = "error" => UNCHANGED <<tok, input>>
  BY StickyStep
<1>4. CASE UNCHANGED vars
  BY <1>4 DEF vars, Latest
<1>5. CASE ~UNCHANGED vars /\ UNCHANGED <<tok, input>>
  <2>1. pc' # "idle"
    BY <1>2, <1>5
  <2>2. CASE pc # "idle"
    BY <1>5, <2>1, <2>2 DEF Latest
  <2>3. CASE pc = "idle"
    <3>1. input = <<>> /\ NextToken
      BY <1>2, <1>5, <2>3 DEF Latest
    <3>2. input' # <<>> /\ tok' = input'[Len(input')]
      BY <3>1, ReadOn
    <3> QED BY <2>1, <3>2 DEF Latest
  <2> QED BY <2>2, <2>3
<1>6. CASE SetError /\ ~UNCHANGED vars
  BY <1>2, <1>6 DEF SetError, Latest
<1>7. CASE NextToken /\ ~UNCHANGED vars /\ tok # "error"
  <2>1. input # <<>> => tok = input[Len(input)]
    BY <1>7 DEF Latest
  <2>2. input' # <<>> /\ tok' = input'[Len(input')]
    BY <1>7, <2>1, ReadOn
  <2> QED BY <1>2, <1>7, <2>2 DEF Latest
<1> QED BY <1>1, <1>3, <1>4, <1>5, <1>6, <1>7

\* No node gets more or fewer parameters.
SameLens == \A n \in DOMAIN heap : n \in DOMAIN heap' /\ Len(heap'[n].params) = Len(heap[n].params)

\* How the calls change, as kinds: one ends, none does, one starts, one goes on.
LEMMA KindsMove ==
  ASSUME Control, Own(Pt, Live), SameLens
  PROVE  /\ stack # <<>> /\ stack' = Below =>
              Len(stack') = Len(stack) - 1 /\ \A k \in 1..(Len(stack) - 1) : Kinds'[k] = Kinds[k]
         /\ stack' = stack => \A k \in 1..Len(stack) : Kinds'[k] = Kinds[k]
         /\ \A f \in CallSet : stack' = Append(stack, f) =>
              /\ Len(stack') = Len(stack) + 1 /\ Kinds'[Len(stack) + 1] = Kind(f, heap')
              /\ \A k \in 1..Len(stack) : Kinds'[k] = Kinds[k]
         /\ \A f \in CallSet : \A step :
              stack # <<>> /\ Continue(f, step) /\ Kind(f, heap') = Kinds[Len(stack)] =>
                Len(stack') = Len(stack) /\ \A k \in 1..Len(stack) : Kinds'[k] = Kinds[k]
<1>0. DOMAIN stack = 1..Len(stack) /\ Len(stack) \in Nat
  BY DEF Control
<1>1. ASSUME NEW j \in DOMAIN stack PROVE Kind(stack[j], heap') = Kind(stack[j], heap)
  <2>1. stack[j] \in CallSet
    BY DEF Control
  <2>2. stack[j].fn = "base" => stack[j].ret \in DOMAIN heap
    BY <2>1, Held DEF CallSet, NIL, Live
  <2> QED BY <2>2 DEF Kind, SameLens
<1>2. ASSUME NEW j \in DOMAIN stack, j \in DOMAIN stack', stack'[j] = stack[j]
      PROVE  Kinds'[j] = Kinds[j]
  BY <1>1, <1>2 DEF Kinds
<1>3. ASSUME stack # <<>>, stack' = Below
      PROVE  Len(stack') = Len(stack) - 1 /\ \A k \in 1..(Len(stack) - 1) : Kinds'[k] = Kinds[k]
  <2>1. /\ stack' \in Seq(CallSet) /\ Len(stack') = Len(stack) - 1
        /\ \A k \in 1..(Len(stack) - 1) : stack'[k] = stack[k]
    BY <1>3, Pops
  <2>2. DOMAIN stack' = 1..(Len(stack) - 1)
    BY <2>1
  <2>3. \A n \in Nat : \A k \in 1..(n - 1) : k \in 1..n
    OBVIOUS
  <2> QED BY <1>0, <1>2, <2>1, <2>2, <2>3
<1>4. ASSUME stack' = stack PROVE \A k \in 1..Len(stack) : Kinds'[k] = Kinds[k]
  BY <1>0, <1>2, <1>4
<1>5. ASSUME NEW f \in CallSet, stack' = Append(stack, f)
      PROVE  /\ Len(stack') = Len(stack) + 1 /\ Kinds'[Len(stack) + 1] = Kind(f, heap')
             /\ \A k \in 1..Len(stack) : Kinds'[k] = Kinds[k]
  <2>1. /\ Len(stack') = Len(stack) + 1 /\ Len(stack) + 1 \in DOMAIN stack'
        /\ stack'[Len(stack) + 1] = f
        /\ \A j \in DOMAIN stack : j \in DOMAIN stack' /\ stack'[j] = stack[j]
    <3>1. Len(stack') = Len(stack) + 1 /\ Len(stack') \in DOMAIN stack' /\ stack'[Len(stack')] = f
      BY <1>5, Frames
    <3>2. \A j \in DOMAIN stack : j \in DOMAIN stack' /\ stack'[j] = stack[j]
      BY <1>5, Frames
    <3> QED BY <3>1, <3>2
  <2>2. Kinds'[Len(stack) + 1] = Kind(f, heap')
    BY <2>1 DEF Kinds
  <2> QED BY <1>0, <1>2, <2>1, <2>2
<1>6. ASSUME NEW f \in CallSet, NEW step, stack # <<>>, Continue(f, step),
             Kind(f, heap') = Kinds[Len(stack)]
      PROVE  Len(stack') = Len(stack) /\ \A k \in 1..Len(stack) : Kinds'[k] = Kinds[k]
  <2>1. /\ Len(stack') = Len(stack) /\ Len(stack) \in DOMAIN stack'
        /\ stack'[Len(stack)] = f
        /\ \A j \in DOMAIN stack : j < Len(stack) => j \in DOMAIN stack' /\ stack'[j] = stack[j]
    BY <1>6, Frames
  <2>2. Kinds'[Len(stack)] = Kinds[Len(stack)]
    BY <1>6, <2>1 DEF Kinds
  <2>3. \A n \in Nat : \A k \in 1..n : k = n \/ k < n
    OBVIOUS
  <2>4. ASSUME NEW k \in 1..Len(stack) PROVE Kinds'[k] = Kinds[k]
    <3>1. k = Len(stack) \/ k < Len(stack)
      BY <1>0, <2>3
    <3> QED BY <1>0, <1>2, <2>1, <2>2, <3>1
  <2> QED BY <2>1, <2>4
<1> QED BY <1>3, <1>4, <1>5, <1>6

\* The calls fit while none starts or ends ...
LEMMA FitsSame ==
  ASSUME NEW s, NEW t, NEW l \in Nat, \A k \in 1..l : t[k] = s[k],
         NEW o \in Int, NEW p \in Int, NEW n \in Int, Fits(s, l, o, n, p),
         NEW q \in Int, NEW r \in Int, NEW m \in Int, q - r >= o - p, m >= n
  PROVE  Fits(t, l, q, m, r)
<1>1. Deep(t, l) /\ Wides(t, l) = Wides(s, l) /\ Bases(t, l) = Bases(s, l)
  BY DeepSame DEF Fits
<1>2. Wides(s, l) \in Nat /\ Bases(s, l) \in Nat
  BY CountNat DEF Wides, Bases
<1>3. q >= Wides(s, l) + r /\ m >= Bases(s, l)
  BY <1>2 DEF Fits
<1> QED BY <1>1, <1>3 DEF Fits

\* ... when one ends, which takes its parenthesis with it ...
LEMMA FitsPop ==
  ASSUME NEW s, NEW t, NEW l \in Nat, l > 0, \A k \in 1..(l - 1) : t[k] = s[k],
         NEW o \in Int, NEW p \in Int, NEW n \in Int, Fits(s, l, o, n, p),
         NEW q \in Int, NEW r \in Int, NEW m \in Int, m >= n,
         q - r >= o - p - (IF s[l] \in {"paren", "wide"} THEN 1 ELSE 0)
  PROVE  Fits(t, l - 1, q, m, r)
<1>1. l - 1 \in Nat
  OBVIOUS
<1>2. /\ Deep(s, l - 1)
      /\ Wides(s, l) = Wides(s, l - 1) + IF s[l] \in {"paren", "wide"} THEN 1 ELSE 0
      /\ Bases(s, l) = Bases(s, l - 1) + IF s[l] \in {"base", "wide"} THEN 1 ELSE 0
      /\ Wides(s, l - 1) \in Nat /\ Bases(s, l - 1) \in Nat
  BY DeepPop DEF Fits
<1>3. Deep(t, l - 1) /\ Wides(t, l - 1) = Wides(s, l - 1) /\ Bases(t, l - 1) = Bases(s, l - 1)
  BY <1>1, <1>2, DeepSame
<1>4. q >= Wides(s, l - 1) + r /\ m >= Bases(s, l - 1)
  BY <1>2 DEF Fits
<1> QED BY <1>3, <1>4 DEF Fits

\* ... and when one starts, which "(" or a function must pay for.
LEMMA FitsPush ==
  ASSUME NEW s, NEW t, NEW l \in Nat, \A k \in 1..l : t[k] = s[k],
         NEW o \in Int, NEW p \in Int, NEW n \in Int, Fits(s, l, o, n, p),
         NEW q \in Int, NEW r \in Int, NEW m \in Int,
         t[l + 1] \in KindSet, l = 0 => t[l + 1] = "list",
         l > 0 => s[l] \in KindSet /\ \/ t[l + 1] = Inner(s[l])
                                      \/ s[l] = "power" /\ t[l + 1] \in {"base", "paren", "wide"},
         q - r >= o - p + (IF t[l + 1] \in {"paren", "wide"} THEN 1 ELSE 0),
         m >= n + (IF t[l + 1] \in {"base", "wide"} THEN 1 ELSE 0)
  PROVE  Fits(t, l + 1, q, m, r)
<1>1. Deep(t, l) /\ Wides(t, l) = Wides(s, l) /\ Bases(t, l) = Bases(s, l)
  BY DeepSame DEF Fits
<1>2. l > 0 => t[l] = s[l]
  OBVIOUS
<1>3. /\ Deep(t, l + 1)
      /\ Wides(t, l + 1) = Wides(t, l) + IF t[l + 1] \in {"paren", "wide"} THEN 1 ELSE 0
      /\ Bases(t, l + 1) = Bases(t, l) + IF t[l + 1] \in {"base", "wide"} THEN 1 ELSE 0
      /\ Wides(t, l) \in Nat /\ Bases(t, l) \in Nat
  BY <1>1, <1>2, DeepPush
<1>4. q >= Wides(t, l + 1) + r /\ m >= Bases(t, l + 1)
  BY <1>1, <1>3 DEF Fits
<1> QED BY <1>3, <1>4 DEF Fits

\* Arithmetic used below.
LEMMA Numbers ==
  /\ \A a, b \in Int : b >= a - 1 => b - 0 >= a - 0 - 1 /\ b - 0 >= a - 1 - 0 /\ b - 0 >= a - 1 - 1
  /\ \A a \in Int : a >= a
  OBVIOUS

\* A function with parameters, but not one, has at least two.
LEMMA Longer ==
  ASSUME NEW p \in Seq(Nat), Len(p) # 1
  PROVE  /\ p # <<>> => Len(p) >= 2
         /\ \A i \in Nat : i < Len(p) => Len(p) >= 2
<1>1. Len(p) \in Nat /\ (Len(p) = 0 => p = <<>>)
  OBVIOUS
<1>2. \A n \in Nat : n # 0 /\ n # 1 => n >= 2
  OBVIOUS
<1>3. \A i, n \in Nat : i < n => n # 0
  OBVIOUS
<1> QED BY <1>1, <1>2, <1>3

\* Every step keeps the calls within what was read.
LEMMA NestedStep ==
  ASSUME Control, Control', Own(Pt, Live), Filling, Reads, Latest, Latest', Calling,
         pc \notin {"idle", "done", "over"} => Nested, [Next]_vars
  PROVE  pc' \notin {"idle", "done", "over"} => Nested'
<1> DEFINE l == Len(stack)
<1>l. l \in Nat /\ (stack # <<>> <=> l > 0) /\ (stack # <<>> => Kinds[l] = Kind(Top, heap))
  <2>1. l \in Nat /\ DOMAIN stack = 1..l /\ (stack # <<>> <=> l > 0)
    BY DEF Control
  <2>2. l > 0 => l \in 1..l
    BY <2>1
  <2> QED BY <2>1, <2>2 DEF Kinds, Top
<1>d. l > 0 => Kinds[l] \in KindSet
  <2>1. stack # <<>> => Top \in CallSet
    BY Pops
  <2> QED BY <1>l, <2>1 DEF Kind, KindSet, CallSet, Chain
<1>p. /\ Pending \in Int /\ Pending' \in Int
      /\ pc \in {"call", "back", "loop"} => Pending = 0
      /\ pc' \in {"call", "back", "loop"} => Pending' = 0
  BY DEF Pending
<1>i. pc # "idle" => Opened \in Int /\ Named \in Int /\ Opened' \in Int /\ Named' \in Int
  <2>1. \A S : Cardinality(Before(input, S)) \in Nat
    BY BeforeFinite
  <2>2. ASSUME NEW S PROVE Cardinality(Before(input', S)) \in Nat
    <3>1. Len(input') \in Nat
      BY DEF Control
    <3>2. IsFiniteSet(1..(Len(input') - 1))
      BY <3>1, FS_Interval
    <3>3. Before(input', S) \subseteq 1..(Len(input') - 1)
      BY DEF Before
    <3> QED BY <3>2, <3>3, FS_Subset, FS_CardinalityType
  <2> QED BY <2>1, <2>2 DEF Opened, Named
<1>k. ASSUME pc # "idle", KeepToken \/ SetError PROVE Opened' = Opened /\ Named' = Named
  BY <1>k, Parsed
<1>x. ASSUME pc # "idle", NextToken, tok # "error"
      PROVE  /\ Opened' = Opened + (IF tok = "open" THEN 1 ELSE 0) - (IF tok = "close" THEN 1 ELSE 0)
             /\ Named' = Named + IF tok \in FunctionTokens THEN 1 ELSE 0
  BY <1>x, Parsed
<1>s. ~ArgAttached /\ ~CompileOk => SameLens
  BY Steady DEF SameParams, SameLens
<1>same. ASSUME pc \notin {"idle", "done", "over"}, SameLens,
                stack' = stack \/ \E f \in CallSet : \E step :
                  stack # <<>> /\ Continue(f, step) /\ Kind(f, heap') = Kinds[l],
                Opened' - Pending' >= Opened - Pending, Named' >= Named
         PROVE  Nested'
  <2>1. Len(stack') = l /\ \A k \in 1..l : Kinds'[k] = Kinds[k]
    BY <1>same, KindsMove
  <2>2. Fits(Kinds, l, Opened, Named, Pending)
    BY <1>same DEF Nested
  <2>3. pc # "idle"
    BY <1>same
  <2>4. Fits(Kinds', l, Opened', Named', Pending')
    BY <1>l, <1>p, <1>i, <1>same, <2>1, <2>2, <2>3, FitsSame
  <2> QED BY <2>1, <2>4 DEF Nested
<1>pop. ASSUME pc \notin {"idle", "done", "over"}, SameLens, stack # <<>>, stack' = Below,
               Opened' - Pending' >= Opened - Pending
                                       - (IF Kinds[l] \in {"paren", "wide"} THEN 1 ELSE 0),
               Named' >= Named
        PROVE  Nested'
  <2>1. Len(stack') = l - 1 /\ \A k \in 1..(l - 1) : Kinds'[k] = Kinds[k]
    BY <1>pop, KindsMove
  <2>2. Fits(Kinds, l, Opened, Named, Pending) /\ l > 0 /\ pc # "idle"
    BY <1>pop, <1>l DEF Nested
  <2>3. Fits(Kinds', l - 1, Opened', Named', Pending')
    BY <1>l, <1>p, <1>i, <1>pop, <2>1, <2>2, FitsPop
  <2> QED BY <2>1, <2>3 DEF Nested
<1>push. ASSUME pc \notin {"idle", "done", "over"}, SameLens, NEW f \in CallSet, stack' = Append(stack, f),
                NEW x \in KindSet, x = Kind(f, heap'),
                stack = <<>> => x = "list",
                stack # <<>> => \/ x = Inner(Kinds[l])
                                \/ Kinds[l] = "power" /\ x \in {"base", "paren", "wide"},
                Opened' - Pending' >= Opened - Pending + (IF x \in {"paren", "wide"} THEN 1 ELSE 0),
                Named' >= Named + (IF x \in {"base", "wide"} THEN 1 ELSE 0)
         PROVE  Nested'
  <2>1. Len(stack') = l + 1 /\ Kinds'[l + 1] = x /\ \A k \in 1..l : Kinds'[k] = Kinds[k]
    BY <1>push, KindsMove
  <2>2. Fits(Kinds, l, Opened, Named, Pending) /\ pc # "idle"
    BY <1>push DEF Nested
  <2>3. /\ Kinds'[l + 1] \in KindSet /\ (l = 0 => Kinds'[l + 1] = "list")
        /\ l > 0 => Kinds[l] \in KindSet /\ \/ Kinds'[l + 1] = Inner(Kinds[l])
                                            \/ Kinds[l] = "power" /\ Kinds'[l + 1] \in {"base", "paren", "wide"}
        /\ Opened' - Pending' >= Opened - Pending + (IF Kinds'[l + 1] \in {"paren", "wide"} THEN 1 ELSE 0)
        /\ Named' >= Named + (IF Kinds'[l + 1] \in {"base", "wide"} THEN 1 ELSE 0)
    BY <1>l, <1>d, <1>push, <2>1
  <2>4. /\ Opened \in Int /\ Named \in Int /\ Opened' \in Int /\ Named' \in Int
        /\ Pending \in Int /\ Pending' \in Int /\ l \in Nat
    BY <1>l, <1>p, <1>i, <2>2
  <2> HIDE <1>push
  <2>5. Fits(Kinds', l + 1, Opened', Named', Pending')
    BY <2>1, <2>2, <2>3, <2>4, FitsPush
  <2> QED BY <2>1, <2>5 DEF Nested
<1> HIDE DEF l
<1>1. CASE Compile
  <2>1. /\ stack' = <<>> /\ pc' = "call" /\ NextToken /\ input = <<>>
    BY <1>1 DEF Compile, Call, Latest
  <2>2. Before(input', {"open"}) = {} /\ Before(input', {"close"}) = {} /\ Before(input', FunctionTokens) = {}
    <3>1. Len(input') = 1
      BY <2>1 DEF NextToken
    <3> QED BY <3>1 DEF Before
  <2>3. Opened' = 0 /\ Named' = 0
    BY <2>2, FS_EmptySet DEF Opened, Named
  <2>4. Len(stack') = 0
    BY <2>1
  <2>5. Deep(Kinds', 0) /\ Wides(Kinds', 0) = 0 /\ Bases(Kinds', 0) = 0
    <3>1. 1..0 = {}
      OBVIOUS
    <3>2. \A S : {k \in 1..0 : Kinds'[k] \in S} = {}
      BY <3>1
    <3> QED BY <3>1, <3>2, FS_EmptySet DEF Deep, Wides, Bases, CountAt
  <2>6. Fits(Kinds', 0, Opened', Named', Pending')
    BY <1>p, <2>1, <2>3, <2>5 DEF Fits
  <2> QED BY <2>4, <2>6 DEF Nested
<1>2. CASE ChainFirst \/ ChainJoin \/ PowerSign
  <2>1. /\ pc \in {"back", "loop"} /\ pc' = "loop" /\ stack # <<>> /\ Top.fn \in Chain \cup {"power"}
        /\ \/ KeepToken
           \/ NextToken /\ tok \in {"add", "sub"}
    BY <1>2 DEF ChainFirst, ChainJoin, PowerSign, InFrame, Continue
  <2>2. \E f \in CallSet : f.fn = Top.fn /\ Continue(f, "loop")
    <3>0. Top \in CallSet
      BY <2>1, Pops
    <3>1. CASE ChainFirst \/ ChainJoin
      <4>1. New \in Nat /\ val \in Nat
        BY DEF Control, New
      <4>2. \A n \in Nat : Top.fn \in Chain => [Top EXCEPT !.ret = n] \in CallSet /\ [Top EXCEPT !.ret = n].fn = Top.fn
        BY <3>0 DEF CallSet, Chain
      <4> QED BY <3>1, <4>1, <4>2 DEF ChainFirst, ChainJoin, InFrame
    <3>2. CASE PowerSign
      <4>1. Top.fn = "power" /\ Continue([Top EXCEPT !.i = IF tok = "sub" THEN 1 - @ ELSE @], "loop")
        BY <3>2 DEF PowerSign, InFrame
      <4>2. [Top EXCEPT !.i = IF tok = "sub" THEN 1 - @ ELSE @] \in CallSet
            /\ [Top EXCEPT !.i = IF tok = "sub" THEN 1 - @ ELSE @].fn = Top.fn
        BY <3>0, <4>1 DEF CallSet, Chain
      <4> QED BY <4>1, <4>2
    <3> QED BY <1>2, <3>1, <3>2
  <2>3. PICK f \in CallSet : f.fn = Top.fn /\ Continue(f, "loop")
    BY <2>2
  <2>4. Kind(f, heap') = Kinds[l]
    BY <1>l, <2>1, <2>3 DEF Kind, Chain
  <2>5. Opened' = Opened /\ Named' = Named
    BY <1>k, <1>x, <1>i, <2>1 DEF FunctionTokens, Arity
  <2>6. SameLens
    BY <1>s, <2>1, <1>2 DEF ArgAttached, CompileOk, Returned, InFrame, Chain, ChainFirst, ChainJoin, PowerSign
  <2>7. pc \notin {"idle", "done", "over"} /\ Pending = 0 /\ Pending' = 0 /\ Opened \in Int /\ Named \in Int
    BY <1>p, <1>i, <2>1
  <2>8. Opened' - Pending' >= Opened - Pending /\ Named' >= Named
    BY <2>5, <2>7
  <2> HIDE <1>2
  <2> QED BY <1>same, <2>1, <2>3, <2>4, <2>6, <2>7, <2>8
<1>3. CASE ChainMore \/ PowerBase \/ BaseLeaf \/ BaseDefault \/ BaseFails
  <2>1. /\ pc \in {"call", "loop"} /\ pc' \in {"call", "back"} /\ stack' = stack
        /\ \/ KeepToken \/ SetError
           \/ NextToken /\ tok \in {"add", "sub", "mul", "pow", "sep", "num", "var"}
    <3>1. CASE ChainMore
      BY <3>1 DEF ChainMore, InFrame, Call, Chain, Ops
    <3>2. CASE PowerBase \/ BaseLeaf \/ BaseDefault \/ BaseFails
      BY <3>2 DEF PowerBase, BaseLeaf, BaseDefault, BaseFails, InFrame, InBase, Call, Return
    <3> QED BY <1>3, <3>1, <3>2
  <2>5. Opened' = Opened /\ Named' = Named
    BY <1>k, <1>x, <1>i, <2>1 DEF FunctionTokens, Arity
  <2>6. SameLens
    BY <1>s, <2>1 DEF ArgAttached, CompileOk, Returned, InFrame
  <2>7. pc \notin {"idle", "done", "over"} /\ Pending = 0 /\ Pending' = 0 /\ Opened \in Int /\ Named \in Int
    BY <1>p, <1>i, <2>1
  <2>8. Opened' - Pending' >= Opened - Pending /\ Named' >= Named
    BY <2>5, <2>7
  <2> HIDE <1>3
  <2> QED BY <1>same, <2>1, <2>6, <2>7, <2>8
<1>4. CASE ChainNull \/ ChainJoinFails \/ ChainDone \/ PowerPlain \/ PowerNegate \/ PowerNegateFails
           \/ ArgNull
  <2>1. /\ pc \in {"back", "loop"} /\ pc' = "back" /\ stack # <<>> /\ stack' = Below /\ KeepToken
    BY <1>4 DEF ChainNull, ChainJoinFails, ChainDone, PowerPlain, PowerNegate, PowerNegateFails,
       ArgNull, InFrame, Return
  <2>5. Opened' = Opened /\ Named' = Named
    BY <1>k, <2>1
  <2>6. SameLens
    BY <1>s, <1>4, <2>1 DEF ArgAttached, CompileOk, Returned, InFrame, ChainNull, ChainJoinFails, ChainDone,
       PowerPlain, PowerNegate, PowerNegateFails, ArgNull, Chain
  <2>7. pc \notin {"idle", "done", "over"} /\ Pending = 0 /\ Pending' = 0 /\ Opened \in Int /\ Named \in Int
    BY <1>p, <1>i, <2>1
  <2>8. /\ Opened' - Pending' >= Opened - Pending - (IF Kinds[l] \in {"paren", "wide"} THEN 1 ELSE 0)
        /\ Named' >= Named
    BY <2>5, <2>7
  <2> HIDE <1>4
  <2> QED BY <1>pop, <2>1, <2>6, <2>7, <2>8
<1>5. CASE ParenBack
  <2>1. /\ pc = "back" /\ pc' = "back" /\ stack # <<>> /\ stack' = Below /\ Top.fn = "paren"
        /\ (KeepToken \/ SetError \/ (NextToken /\ tok = "close"))
    BY <1>5 DEF ParenBack, InFrame, Return
  <2>4. Kinds[l] = "paren"
    BY <1>l, <2>1 DEF Kind
  <2>5. Opened' >= Opened - 1 /\ Named' = Named /\ Opened \in Int /\ Named \in Int /\ Opened' \in Int
    BY <1>k, <1>x, <1>i, <2>1 DEF FunctionTokens, Arity
  <2>6. SameLens
    BY <1>s, <2>1 DEF ArgAttached, CompileOk, Returned, InFrame
  <2>7. pc \notin {"idle", "done", "over"} /\ Pending = 0 /\ Pending' = 0
    BY <1>p, <2>1
  <2>8. /\ Opened' - Pending' >= Opened - Pending - (IF Kinds[l] \in {"paren", "wide"} THEN 1 ELSE 0)
        /\ Named' >= Named
    <3>1. Opened' - 0 >= Opened - 0 - 1 /\ Named' >= Named
      BY <2>5, Numbers, Zenon
    <3> QED BY <2>4, <2>7, <3>1
  <2> HIDE <1>5
  <2> QED BY <1>pop, <2>1, <2>6, <2>7, <2>8
<1>6. CASE EnterChain \/ EnterPower
  <2>1. /\ pc = "call" /\ pc' \in {"call", "loop"} /\ callee \in Chain \cup {"power"} /\ KeepToken
        /\ stack' = Append(stack, [fn |-> callee, ret |-> NIL, i |-> 0])
    BY <1>6 DEF EnterChain, EnterPower, Call
  <2> DEFINE f == [fn |-> callee, ret |-> NIL, i |-> 0]
  <2>2. f \in CallSet /\ f.fn = callee
    BY <2>1 DEF CallSet, Chain, NIL
  <2>3. stack' = Append(stack, f)
    BY <2>1
  <2> HIDE DEF f
  <2>4. Kind(f, heap') = callee /\ callee \in KindSet /\ callee \notin {"paren", "wide", "base"}
    BY <2>1, <2>2 DEF Kind, Chain, KindSet
  <2>5. Opened' = Opened /\ Named' = Named
    BY <1>k, <2>1
  <2>6. SameLens
    BY <1>s, <2>1 DEF ArgAttached, CompileOk, Returned, InFrame
  <2>7. pc \notin {"idle", "done", "over"} /\ Pending = 0 /\ Pending' = 0 /\ Opened \in Int /\ Named \in Int
    BY <1>p, <1>i, <2>1
  <2>8. /\ Opened' - Pending' >= Opened - Pending + (IF callee \in {"paren", "wide"} THEN 1 ELSE 0)
        /\ Named' >= Named + (IF callee \in {"base", "wide"} THEN 1 ELSE 0)
    BY <2>4, <2>5, <2>7
  <2>9. /\ stack = <<>> => callee = "list"
        /\ stack # <<>> => callee = Inner(Kinds[l])
    BY <2>1 DEF Calling, l
  <2> HIDE <1>6
  <2> QED BY <1>push, <2>2, <2>3, <2>4, <2>6, <2>7, <2>8, <2>9
<1>7. CASE BaseOpen
  <2>1. /\ pc = "call" /\ pc' = "call" /\ callee = "base" /\ NextToken /\ tok = "open"
        /\ stack' = Append(stack, [fn |-> "paren", ret |-> NIL, i |-> 0])
    BY <1>7 DEF BaseOpen, InBase, Call
  <2> DEFINE f == [fn |-> "paren", ret |-> NIL, i |-> 0]
  <2>2. f \in CallSet /\ f.fn = "paren"
    BY <2>1 DEF CallSet, Chain, NIL
  <2>3. stack' = Append(stack, f)
    BY <2>1
  <2> HIDE DEF f
  <2>4. Kind(f, heap') = "paren" /\ "paren" \in KindSet
    BY <2>2 DEF Kind, KindSet
  <2>6. SameLens
    BY <1>s, <2>1 DEF ArgAttached, CompileOk, Returned, InFrame
  <2>7. pc \notin {"idle", "done", "over"} /\ Pending = 0 /\ Pending' = 0 /\ Opened \in Int /\ Named \in Int
    BY <1>p, <1>i, <2>1
  <2>8. Opened' = Opened + 1 /\ Named' = Named
    BY <1>x, <2>1, <2>7 DEF FunctionTokens, Arity
  <2>9. /\ Opened' - Pending' >= Opened - Pending + (IF "paren" \in {"paren", "wide"} THEN 1 ELSE 0)
        /\ Named' >= Named + (IF "paren" \in {"base", "wide"} THEN 1 ELSE 0)
    BY <2>7, <2>8
  <2>10. stack # <<>> /\ Kinds[l] = "power"
    BY <1>l, <1>d, <2>1 DEF Calling, l, Inner, KindSet
  <2> HIDE <1>7
  <2> QED BY <1>push, <2>2, <2>3, <2>4, <2>6, <2>7, <2>9, <2>10
<1>8. CASE BaseFunction
  <2> DEFINE f == [fn |-> "base", ret |-> New, i |-> 0]
             x == Node("fun", tok \notin Impure, [k \in 1..Arity[tok] |-> NIL])
  <2>1. /\ pc = "call" /\ callee = "base" /\ NextToken /\ tok \in FunctionTokens
        /\ stack' = Append(stack, f) /\ Alloc(x)
        /\ pc' = IF Arity[tok] = 1 THEN "call" ELSE "args"
    BY <1>8 DEF BaseFunction, InBase, Call
  <2>n. New \in Nat /\ New # 0
    BY DEF New, Control
  <2>2. f \in CallSet /\ f.fn = "base" /\ f.ret = New /\ f.i = 0
    BY <2>n DEF CallSet, Chain, NIL
  <2>3. x.params = [k \in 1..Arity[tok] |-> NIL] /\ Arity[tok] \in {0, 1, 2}
    BY <2>1 DEF Node, FunctionTokens, Arity
  <2> HIDE DEF f, x
  <2>4. Len(heap'[New].params) = Arity[tok]
    <3>1. heap'[New] = x
      BY <2>1 DEF Alloc, New, Control
    <3>2. Len([k \in 1..Arity[tok] |-> NIL]) = Arity[tok]
      BY <2>3
    <3> QED BY <2>3, <3>1, <3>2
  <2>5. Kind(f, heap') = IF Arity[tok] = 2 THEN "wide" ELSE "base"
    BY <2>2, <2>3, <2>4 DEF Kind
  <2>6. SameLens
    BY <1>s, <2>1 DEF ArgAttached, CompileOk, Returned, InFrame
  <2>7. pc \notin {"idle", "done", "over"} /\ Pending = 0 /\ Opened \in Int /\ Named \in Int
    BY <1>p, <1>i, <2>1
  <2>8. Opened' = Opened /\ Named' = Named + 1
    BY <1>x, <2>1, <2>7 DEF FunctionTokens, Arity
  <2>9. stack # <<>> /\ Kinds[l] = "power"
    BY <1>l, <1>d, <2>1 DEF Calling, l, Inner, KindSet
  <2>10. Pending' = IF Arity[tok] = 2 THEN -1 ELSE 0
    <3>1. CASE Arity[tok] = 1
      BY <1>p, <2>1, <3>1
    <3>2. CASE Arity[tok] # 1
      <4>1. Top' = f /\ Kinds'[Len(stack')] = Kind(f, heap')
        <5>1. Len(stack') = Len(stack) + 1 /\ stack'[Len(stack')] = f
          BY <2>1, <2>2, Frames
        <5>2. Kinds'[Len(stack) + 1] = Kind(f, heap')
          BY <2>1, <2>2, <2>6, KindsMove
        <5> QED BY <5>1, <5>2 DEF Top
      <4> QED BY <2>1, <2>2, <2>3, <2>5, <3>2, <4>1 DEF Pending
    <3> QED BY <3>1, <3>2
  <2> HIDE <1>8
  <2>11. CASE Arity[tok] = 2
    <3>1. /\ Opened' - Pending' >= Opened - Pending + (IF "wide" \in {"paren", "wide"} THEN 1 ELSE 0)
          /\ Named' >= Named + (IF "wide" \in {"base", "wide"} THEN 1 ELSE 0)
          /\ "wide" \in KindSet /\ "wide" = Kind(f, heap')
      BY <2>5, <2>7, <2>8, <2>10, <2>11 DEF KindSet
    <3> QED BY <1>push, <2>1, <2>2, <2>6, <2>7, <2>9, <3>1
  <2>12. CASE Arity[tok] # 2
    <3>1. /\ Opened' - Pending' >= Opened - Pending + (IF "base" \in {"paren", "wide"} THEN 1 ELSE 0)
          /\ Named' >= Named + (IF "base" \in {"base", "wide"} THEN 1 ELSE 0)
          /\ "base" \in KindSet /\ "base" = Kind(f, heap')
      BY <2>5, <2>7, <2>8, <2>10, <2>12 DEF KindSet
    <3> QED BY <1>push, <2>1, <2>2, <2>6, <2>7, <2>9, <3>1
  <2> QED BY <2>11, <2>12
<1>9. CASE NoArgs
  <2>1. /\ pc = "args" /\ stack # <<>> /\ Top.fn = "base" /\ heap[Top.ret].params = <<>> /\ heap' = heap
        /\ \/ tok = "open" /\ NextToken /\ Continue(Top, "close")
           \/ KeepToken /\ Return(Below, Top.ret)
    BY <1>9 DEF NoArgs, InFrame, memory
  <2>2. Kinds[l] = "base" /\ Pending = 0 /\ pc \notin {"idle", "done", "over"}
        /\ Opened \in Int /\ Named \in Int /\ Kind(Top, heap') = Kinds[l] /\ Top \in CallSet
    BY <1>l, <1>i, <2>1, Pops DEF Kind, Pending, l
  <2>3. SameLens
    BY <1>s, <2>1 DEF ArgAttached, CompileOk, Returned, InFrame
  <2>4. CASE tok = "open" /\ NextToken /\ Continue(Top, "close")
    <3>1. pc' = "close" /\ Pending' = 1
      BY <2>4 DEF Continue, Pending
    <3>2. Opened' = Opened + 1 /\ Named' = Named
      BY <1>x, <2>2, <2>4 DEF FunctionTokens, Arity
    <3>3. Opened' - Pending' >= Opened - Pending /\ Named' >= Named
      BY <2>2, <3>1, <3>2
    <3> QED BY <1>same, <2>1, <2>2, <2>3, <2>4, <3>3
  <2>5. CASE KeepToken /\ Return(Below, Top.ret)
    <3>1. pc' = "back" /\ Pending' = 0 /\ stack' = Below
      BY <1>p, <2>5 DEF Return
    <3>2. Opened' = Opened /\ Named' = Named
      BY <1>k, <2>2, <2>5
    <3>3. /\ Opened' - Pending' >= Opened - Pending - (IF Kinds[l] \in {"paren", "wide"} THEN 1 ELSE 0)
          /\ Named' >= Named
      BY <2>2, <3>1, <3>2
    <3> QED BY <1>pop, <2>1, <2>2, <2>3, <3>1, <3>3
  <2> QED BY <2>1, <2>4, <2>5
<1>10. CASE NoArgsClose
  <2>1. /\ pc = "close" /\ stack # <<>> /\ pc' = "back" /\ stack' = Below
        /\ (SetError \/ (NextToken /\ tok = "close"))
    BY <1>10 DEF NoArgsClose, InFrame, Return
  <2>2. Pending = 1 /\ Pending' = 0 /\ pc \notin {"idle", "done", "over"} /\ Opened \in Int /\ Named \in Int
    BY <1>p, <1>i, <2>1 DEF Pending
  <2>3. SameLens
    BY <1>s, <2>1 DEF ArgAttached, CompileOk, Returned, InFrame
  <2>4. Opened' >= Opened - 1 /\ Named' = Named /\ Opened' \in Int
    BY <1>k, <1>x, <1>i, <2>1 DEF FunctionTokens, Arity
  <2>5. /\ Opened' - Pending' >= Opened - Pending - (IF Kinds[l] \in {"paren", "wide"} THEN 1 ELSE 0)
        /\ Named' >= Named
    <3>1. Opened' - 0 >= Opened - 1 - 0 /\ Named' >= Named /\ Opened' - 0 >= Opened - 1 - 1
      BY <2>2, <2>4, Numbers, Zenon
    <3> QED BY <2>2, <3>1
  <2> QED BY <1>pop, <2>1, <2>2, <2>3, <2>5
<1>11. CASE Args
  <2>1. /\ pc = "args" /\ stack # <<>> /\ Top.fn = "base" /\ heap[Top.ret].params # <<>> /\ heap' = heap
        /\ \/ KeepToken /\ Continue(Top, "arg")
           \/ SetError /\ Return(Below, Top.ret)
    BY <1>11 DEF Args, InFrame, memory
  <2>2. Kinds[l] = "wide" /\ Top.i = 0 /\ Top \in CallSet
    <3>1. Top \in CallSet /\ l \in DOMAIN stack /\ Top = stack[l]
      BY <1>l, <2>1, Pops DEF l, Top, Control
    <3>2. Top.i = 0
      BY <2>1, <3>1 DEF Filling, l
    <3>3. Top.ret # 0
      BY <2>1, <3>1 DEF CallSet, NIL
    <3>4. heap[Top.ret].params \in Seq(Nat)
      <4>1. Top.ret \in Live
        BY <3>1, <3>3, Held
      <4>2. heap[Top.ret] \in NodeSet
        BY <4>1 DEF Live, Control
      <4> QED BY <4>2 DEF NodeSet
    <3>5. Len(heap[Top.ret].params) >= 2
      <4>1. Len(heap[Top.ret].params) # 1
        BY <2>1 DEF Calling
      <4> QED BY <2>1, <3>4, <4>1, Longer
    <3> QED BY <1>l, <2>1, <3>1, <3>2, <3>5 DEF Kind
  <2>3. Pending = -1 /\ pc \notin {"idle", "done", "over"}
        /\ Opened \in Int /\ Named \in Int /\ Kind(Top, heap') = Kinds[l]
    BY <1>l, <1>i, <2>1, <2>2 DEF Pending, l
  <2>4. SameLens
    BY <1>s, <2>1 DEF ArgAttached, CompileOk, Returned, InFrame
  <2>5. Opened' = Opened /\ Named' = Named
    BY <1>k, <2>1, <2>3
  <2>6. CASE Continue(Top, "arg")
    <3>1. /\ Len(stack') = l /\ Top' = Top /\ Kinds'[l] = Kinds[l] /\ pc' = "arg"
      <4>1. Len(stack') = l /\ Top' = Top
        BY <2>1, <2>2, <2>6, Goes DEF l
      <4>2. \A k \in 1..l : Kinds'[k] = Kinds[k]
        BY <2>1, <2>2, <2>3, <2>4, <2>6, KindsMove DEF l
      <4>3. l \in 1..l
        BY <1>l, <2>1
      <4> QED BY <2>6, <4>1, <4>2, <4>3 DEF Continue
    <3>2. Pending' = -1
      BY <2>2, <3>1 DEF Pending
    <3>3. Opened' - Pending' >= Opened - Pending /\ Named' >= Named
      BY <2>3, <2>5, <3>2
    <3> QED BY <1>same, <2>1, <2>2, <2>3, <2>4, <2>6, <3>3
  <2>7. CASE Return(Below, Top.ret)
    <3>1. pc' = "back" /\ Pending' = 0 /\ stack' = Below
      BY <1>p, <2>7 DEF Return
    <3>2. /\ Opened' - Pending' >= Opened - Pending - (IF Kinds[l] \in {"paren", "wide"} THEN 1 ELSE 0)
          /\ Named' >= Named
      BY <2>2, <2>3, <2>5, <3>1
    <3> QED BY <1>pop, <2>1, <2>3, <2>4, <3>1, <3>2
  <2> QED BY <2>1, <2>6, <2>7
<1>12. CASE Arg
  <2>1. /\ pc = "arg" /\ stack # <<>> /\ stack' = stack /\ pc' = "call" /\ NextToken
        /\ Kinds[l] = "wide" /\ tok = IF Top.i = 0 THEN "open" ELSE "sep"
    BY <1>12 DEF Arg, InFrame, Call, Calling, l
  <2>2. SameLens
    BY <1>s, <2>1 DEF ArgAttached, CompileOk, Returned, InFrame
  <2>3. pc \notin {"idle", "done", "over"} /\ Pending' = 0 /\ Opened \in Int /\ Named \in Int
        /\ Pending = IF Top.i = 0 THEN -1 ELSE 0
    BY <1>p, <1>i, <2>1 DEF Pending, l
  <2>4. Opened' = Opened + (IF Top.i = 0 THEN 1 ELSE 0) /\ Named' = Named
    BY <1>x, <2>1, <2>3 DEF FunctionTokens, Arity
  <2>5. Opened' - Pending' >= Opened - Pending /\ Named' >= Named
    BY <2>3, <2>4
  <2> QED BY <1>same, <2>1, <2>2, <2>3, <2>5
<1>13. CASE ArgAttached
  <2>1. /\ pc = "back" /\ stack # <<>> /\ Top.fn = "base"
        /\ heap' = [heap EXCEPT ![Top.ret].params[Top.i + 1] = val]
        /\ \/ Len(heap[Top.ret].params) = 1 /\ KeepToken /\ Return(Below, Top.ret)
           \/ /\ Len(heap[Top.ret].params) # 1 /\ KeepToken
              /\ Continue([Top EXCEPT !.i = @ + 1], "arg")
           \/ /\ Len(heap[Top.ret].params) # 1 /\ Return(Below, Top.ret)
              /\ (SetError \/ (NextToken /\ tok = "close"))
    BY <1>13 DEF ArgAttached, InFrame
  <2>2. /\ Top \in CallSet /\ Top.ret \in DOMAIN heap /\ Top.i \in Nat
        /\ heap[Top.ret].params \in Seq(Nat) /\ Top.i < Len(heap[Top.ret].params)
    BY <2>1, Awaits DEF Live
  <2>3. SameLens
    <3>1. DOMAIN heap' = DOMAIN heap /\ \A n \in DOMAIN heap : heap[n] \in NodeSet
      BY <2>1 DEF Control
    <3>2. ASSUME NEW n \in DOMAIN heap PROVE Len(heap'[n].params) = Len(heap[n].params)
      <4>1. CASE n = Top.ret
        <5>1. heap'[n] = [heap[n] EXCEPT !.params[Top.i + 1] = val]
          BY <2>1, <4>1
        <5>2. heap'[n].params = [heap[n].params EXCEPT ![Top.i + 1] = val]
          BY <3>1, <5>1 DEF NodeSet
        <5>3. \A p \in Seq(Nat) : \A k, v \in Nat : Len([p EXCEPT ![k] = v]) = Len(p)
          OBVIOUS
        <5>4. Top.i + 1 \in Nat /\ val \in Nat
          <6>1. val \in Nat
            BY DEF Control
          <6>2. \A a \in Nat : a + 1 \in Nat
            OBVIOUS
          <6> QED BY <2>2, <6>1, <6>2
        <5> QED BY <2>2, <4>1, <5>2, <5>3, <5>4
      <4>2. CASE n # Top.ret
        BY <2>1, <4>2
      <4> QED BY <4>1, <4>2
    <3> QED BY <3>1, <3>2 DEF SameLens
  <2>4. pc \notin {"idle", "done", "over"} /\ Pending = 0 /\ Opened \in Int /\ Named \in Int /\ Opened' \in Int
        /\ Named' \in Int
    BY <1>p, <1>i, <2>1
  <2>5. Len(heap[Top.ret].params) # 1 => Kinds[l] = "wide"
    <3>1. Len(heap[Top.ret].params) # 1 => Len(heap[Top.ret].params) >= 2
      BY <2>2, Longer
    <3> QED BY <1>l, <2>1, <3>1 DEF Kind
  <2>6. CASE Len(heap[Top.ret].params) = 1 /\ KeepToken /\ Return(Below, Top.ret)
    <3>1. pc' = "back" /\ Pending' = 0 /\ stack' = Below
      BY <1>p, <2>6 DEF Return
    <3>2. Opened' = Opened /\ Named' = Named
      BY <1>k, <2>4, <2>6
    <3>3. /\ Opened' - Pending' >= Opened - Pending - (IF Kinds[l] \in {"paren", "wide"} THEN 1 ELSE 0)
          /\ Named' >= Named
      BY <2>4, <3>1, <3>2
    <3> QED BY <1>pop, <2>1, <2>3, <2>4, <3>1, <3>3
  <2>7. CASE /\ Len(heap[Top.ret].params) # 1 /\ KeepToken
             /\ Continue([Top EXCEPT !.i = @ + 1], "arg")
    <3> DEFINE f == [Top EXCEPT !.i = @ + 1]
    <3>1. f \in CallSet /\ f.fn = Top.fn /\ f.ret = Top.ret /\ f.i # 0
      BY <2>1, <2>2 DEF CallSet
    <3>2. Continue(f, "arg")
      BY <2>7
    <3> HIDE DEF f
    <3>3. Kind(f, heap') = Kinds[l]
      BY <1>l, <2>1, <2>2, <2>3, <3>1 DEF Kind, SameLens
    <3>4. Top' = f /\ pc' = "arg"
      BY <2>1, <3>1, <3>2, Goes DEF Continue
    <3>5. Pending' = 0
      BY <3>1, <3>4 DEF Pending
    <3>6. Opened' = Opened /\ Named' = Named
      BY <1>k, <2>4, <2>7
    <3>7. Opened' - Pending' >= Opened - Pending /\ Named' >= Named
      BY <2>4, <3>5, <3>6
    <3> HIDE <2>7, <1>13
    <3> QED BY <1>same, <2>1, <2>3, <2>4, <3>1, <3>2, <3>3, <3>7
  <2>8. CASE /\ Len(heap[Top.ret].params) # 1 /\ Return(Below, Top.ret)
             /\ (SetError \/ (NextToken /\ tok = "close"))
    <3>1. pc' = "back" /\ Pending' = 0 /\ stack' = Below
      BY <1>p, <2>8 DEF Return
    <3>2. Opened' >= Opened - 1 /\ Named' = Named
      BY <1>k, <1>x, <2>4, <2>8 DEF FunctionTokens, Arity
    <3>3. /\ Opened' - Pending' >= Opened - Pending - (IF Kinds[l] \in {"paren", "wide"} THEN 1 ELSE 0)
          /\ Named' >= Named
      <4>1. Opened' - 0 >= Opened - 0 - 1 /\ Named' >= Named
        BY <2>4, <3>2, Numbers, Zenon
      <4> QED BY <2>4, <2>5, <2>8, <3>1, <4>1
    <3> QED BY <1>pop, <2>1, <2>3, <2>4, <3>1, <3>3
  <2> QED BY <2>1, <2>6, <2>7, <2>8
<1>14. CASE CompileNull \/ CompileError \/ CompileOk \/ FreeExpr
  BY <1>14 DEF CompileNull, CompileError, CompileOk, FreeExpr
<1>15. CASE UNCHANGED vars
  BY <1>15 DEF vars, Nested, Kinds, Opened, Named, Pending, Top
<1> QED
  BY <1>1, <1>2, <1>3, <1>4, <1>5, <1>6, <1>7, <1>8, <1>9, <1>10, <1>11, <1>12, <1>13, <1>14,
     <1>15 DEF Next

\* Every step keeps Calling: a function of the parser calls the one below it in the
\* grammar, and base parses arguments in the order their number asks for.
LEMMA CallingStep ==
  ASSUME Control, Control', Own(Pt, Live), Filling, Calling, [Next]_vars
  PROVE  Calling'
<1> DEFINE l == Len(stack)
<1>l. l \in Nat /\ (stack # <<>> <=> l > 0) /\ (stack # <<>> => Kinds[l] = Kind(Top, heap) /\ l \in 1..l)
  <2>1. l \in Nat /\ DOMAIN stack = 1..l /\ (stack # <<>> <=> l > 0)
    BY DEF Control
  <2>2. l > 0 => l \in 1..l
    BY <2>1
  <2> QED BY <2>1, <2>2 DEF Kinds, Top
<1>s. ~ArgAttached /\ ~CompileOk => SameLens
  BY Steady DEF SameParams, SameLens
<1>f. \A f \in CallSet : stack' = Append(stack, f) /\ SameLens =>
        stack' # <<>> /\ Len(stack') = l + 1 /\ Kinds'[l + 1] = Kind(f, heap') /\ Top' = f
  <2> TAKE f \in CallSet
  <2> HAVE stack' = Append(stack, f) /\ SameLens
  <2>1. Len(stack') = l + 1 /\ stack'[Len(stack')] = f
    BY Frames
  <2>2. Kinds'[l + 1] = Kind(f, heap')
    BY KindsMove
  <2> QED BY <1>l, <2>1, <2>2, Starts DEF Top
<1>1. ASSUME pc' \notin {"call", "args", "close", "arg"} PROVE Calling'
  BY <1>1 DEF Calling
<1>2. CASE Compile
  BY <1>2 DEF Compile, Call, Calling
<1>3. CASE EnterChain
  <2> DEFINE f == [fn |-> callee, ret |-> NIL, i |-> 0]
  <2>1. stack' = Append(stack, f) /\ callee' = Sub[callee] /\ pc' = "call" /\ callee \in Chain /\ pc = "call"
    BY <1>3 DEF EnterChain, Call
  <2>2. f \in CallSet /\ f.fn = callee
    BY <2>1 DEF CallSet, Chain, NIL
  <2> HIDE DEF f
  <2>3. SameLens
    BY <1>s, <2>1 DEF ArgAttached, CompileOk, Returned, InFrame
  <2>4. stack' # <<>> /\ Kinds'[Len(stack')] = callee
    BY <1>f, <2>1, <2>2, <2>3 DEF Kind, Chain
  <2>5. callee' = Inner(callee)
    BY <2>1 DEF Sub, Inner, Chain
  <2> QED BY <2>1, <2>4, <2>5 DEF Calling
<1>4. CASE ChainMore \/ PowerBase \/ Arg
  <2>1. /\ stack' = stack /\ pc' = "call" /\ stack # <<>> /\ pc \in {"loop", "arg"}
        /\ \/ Top.fn \in Chain /\ callee' = Sub[Top.fn]
           \/ Top.fn = "power" /\ callee' = "base"
           \/ pc = "arg" /\ callee' = "expr"
    BY <1>4 DEF ChainMore, PowerBase, Arg, Call, InFrame
  <2>2. SameLens
    BY <1>s, <2>1 DEF ArgAttached, CompileOk, Returned, InFrame
  <2>3. Kinds'[l] = Kinds[l]
    BY <1>l, <2>1, <2>2, KindsMove
  <2>4. callee' = Inner(Kinds[l])
    <3>1. CASE Top.fn \in Chain /\ callee' = Sub[Top.fn]
      BY <1>l, <2>1, <3>1 DEF Kind, Chain, Sub, Inner
    <3>2. CASE Top.fn = "power" /\ callee' = "base"
      BY <1>l, <2>1, <3>2 DEF Kind, Inner
    <3>3. CASE pc = "arg" /\ callee' = "expr"
      BY <3>3 DEF Calling, Inner
    <3> QED BY <2>1, <3>1, <3>2, <3>3
  <2> QED BY <2>1, <2>3, <2>4 DEF Calling
<1>5. CASE BaseOpen
  <2> DEFINE f == [fn |-> "paren", ret |-> NIL, i |-> 0]
  <2>1. stack' = Append(stack, f) /\ callee' = "list" /\ pc' = "call" /\ pc = "call"
    BY <1>5 DEF BaseOpen, InBase, Call
  <2>2. f \in CallSet /\ f.fn = "paren"
    BY DEF CallSet, Chain, NIL
  <2> HIDE DEF f
  <2>3. SameLens
    BY <1>s, <2>1 DEF ArgAttached, CompileOk, Returned, InFrame
  <2>4. stack' # <<>> /\ Kinds'[Len(stack')] = "paren"
    BY <1>f, <2>1, <2>2, <2>3 DEF Kind
  <2> QED BY <2>1, <2>4 DEF Calling, Inner
<1>6. CASE BaseFunction
  <2> DEFINE f == [fn |-> "base", ret |-> New, i |-> 0]
             x == Node("fun", tok \notin Impure, [k \in 1..Arity[tok] |-> NIL])
  <2>1. /\ pc = "call" /\ tok \in FunctionTokens /\ stack' = Append(stack, f) /\ Alloc(x)
        /\ IF Arity[tok] = 1 THEN pc' = "call" /\ callee' = "power" ELSE pc' = "args"
    BY <1>6 DEF BaseFunction, InBase, Call
  <2>n. New \in Nat /\ New # 0
    BY DEF New, Control
  <2>2. f \in CallSet /\ f.fn = "base" /\ f.ret = New
    BY <2>n DEF CallSet, Chain, NIL
  <2>3. x.params = [k \in 1..Arity[tok] |-> NIL] /\ Arity[tok] \in {0, 1, 2}
    BY <2>1 DEF Node, FunctionTokens, Arity
  <2> HIDE DEF f, x
  <2>4. Len(heap'[New].params) = Arity[tok]
    <3>1. heap'[New] = x
      BY <2>1 DEF Alloc, New, Control
    <3>2. Len([k \in 1..Arity[tok] |-> NIL]) = Arity[tok]
      BY <2>3
    <3> QED BY <2>3, <3>1, <3>2
  <2>5. SameLens
    BY <1>s, <2>1 DEF ArgAttached, CompileOk, Returned, InFrame
  <2>6. stack' # <<>> /\ Kinds'[Len(stack')] = Kind(f, heap') /\ Top' = f
    BY <1>f, <2>1, <2>2, <2>5
  <2>7. CASE Arity[tok] = 1
    <3>1. Kind(f, heap') = "base"
      BY <2>2, <2>4, <2>7 DEF Kind
    <3> QED BY <2>1, <2>6, <2>7, <3>1 DEF Calling, Inner
  <2>8. CASE Arity[tok] # 1
    BY <2>1, <2>2, <2>4, <2>6, <2>8 DEF Calling
  <2> QED BY <2>7, <2>8
<1>7. CASE NoArgs \/ Args
  <2>1. CASE pc' = "back"
    BY <1>1, <2>1
  <2>2. CASE pc' # "back"
    <3>1. /\ pc = "args" /\ stack # <<>> /\ Top.fn = "base" /\ heap' = heap
          /\ \/ Continue(Top, "close")
             \/ Continue(Top, "arg") /\ KeepToken /\ tok = "open" /\ heap[Top.ret].params # <<>>
      BY <1>7, <2>2 DEF NoArgs, Args, InFrame, memory, Return
    <3>2. Top \in CallSet /\ stack' # <<>> /\ Top' = Top /\ Len(stack') = l
      BY <3>1, Pops, Goes
    <3>3. CASE Continue(Top, "close")
      BY <3>1, <3>2, <3>3 DEF Calling, Continue
    <3>4. CASE Continue(Top, "arg") /\ KeepToken /\ tok = "open" /\ heap[Top.ret].params # <<>>
      <4>1. Top.i = 0
        <5>1. l \in DOMAIN stack
          BY <1>l, <3>1 DEF Control
        <5> QED BY <3>1, <5>1 DEF Filling, Top
      <4>2. heap[Top.ret].params \in Seq(Nat)
        <5>1. Top.ret # 0 /\ l \in DOMAIN stack
          BY <1>l, <3>1, <3>2 DEF CallSet, NIL, Control
        <5>2. Top.ret \in Live
          BY <5>1, Held DEF Top
        <5>3. heap[Top.ret] \in NodeSet
          BY <5>2 DEF Live, Control
        <5> QED BY <5>3 DEF NodeSet
      <4>3. Len(heap[Top.ret].params) # 1
        BY <3>1 DEF Calling
      <4>4. Len(heap[Top.ret].params) >= 2
        BY <3>4, <4>2, <4>3, Longer
      <4>5. Kind(Top, heap') = "wide" /\ Kinds[l] = "wide"
        BY <1>l, <3>1, <4>4 DEF Kind
      <4>6. SameLens
        BY <3>1 DEF SameLens
      <4>7. Kinds'[l] = Kinds[l]
        BY <1>l, <3>1, <3>2, <3>4, <4>5, <4>6, KindsMove
      <4>8. pc' = "arg" /\ tok' = "open"
        BY <3>4 DEF Continue, KeepToken
      <4> QED BY <3>1, <3>2, <4>1, <4>5, <4>7, <4>8 DEF Calling
    <3> QED BY <3>1, <3>3, <3>4
  <2> QED BY <2>1, <2>2
<1>8. CASE ArgAttached
  <2>1. CASE pc' = "back"
    BY <1>1, <2>1
  <2>2. CASE pc' # "back"
    <3> DEFINE f == [Top EXCEPT !.i = @ + 1]
    <3>1. /\ pc = "back" /\ stack # <<>> /\ Top.fn = "base" /\ KeepToken /\ tok = "sep"
          /\ heap' = [heap EXCEPT ![Top.ret].params[Top.i + 1] = val]
          /\ Continue(f, "arg") /\ Len(heap[Top.ret].params) # 1
      BY <1>8, <2>2 DEF ArgAttached, InFrame, Return
    <3>2. /\ Top \in CallSet /\ Top.ret \in DOMAIN heap /\ Top.i \in Nat
          /\ heap[Top.ret].params \in Seq(Nat) /\ Top.i < Len(heap[Top.ret].params)
      BY <3>1, Awaits DEF Live
    <3>3. f \in CallSet /\ f.fn = "base" /\ f.ret = Top.ret /\ f.i # 0
      <4>1. f \in CallSet /\ f.fn = Top.fn /\ f.ret = Top.ret /\ f.i = Top.i + 1
        BY <3>1, <3>2 DEF CallSet
      <4>2. \A n \in Nat : n + 1 # 0
        OBVIOUS
      <4> QED BY <3>1, <3>2, <4>1, <4>2
    <3> HIDE DEF f
    <3>4. stack' # <<>> /\ Top' = f /\ pc' = "arg" /\ tok' = "sep"
      BY <3>1, <3>3, Goes DEF Continue, KeepToken
    <3>5. Len(heap[Top.ret].params) >= 2
      BY <3>1, <3>2, Longer
    <3>6. Len(heap'[Top.ret].params) = Len(heap[Top.ret].params)
      <4>1. heap'[Top.ret] = [heap[Top.ret] EXCEPT !.params[Top.i + 1] = val] /\ heap[Top.ret] \in NodeSet
        BY <3>1, <3>2 DEF Control
      <4>2. heap'[Top.ret].params = [heap[Top.ret].params EXCEPT ![Top.i + 1] = val]
        BY <4>1 DEF NodeSet
      <4>3. \A p \in Seq(Nat) : \A k, v \in Nat : Len([p EXCEPT ![k] = v]) = Len(p)
        OBVIOUS
      <4>4. Top.i + 1 \in Nat /\ val \in Nat
        <5>1. val \in Nat
          BY DEF Control
        <5>2. \A n \in Nat : n + 1 \in Nat
          OBVIOUS
        <5> QED BY <3>2, <5>1, <5>2
      <4> QED BY <3>2, <4>2, <4>3, <4>4
    <3>7. Kinds'[Len(stack')] = Kind(f, heap')
      <4>1. Len(stack') = l /\ l \in DOMAIN stack' /\ stack'[l] = f
        BY <3>1, <3>3, Frames
      <4> QED BY <4>1 DEF Kinds
    <3>8. Kind(f, heap') = "wide"
      BY <3>3, <3>5, <3>6 DEF Kind
    <3> QED BY <3>3, <3>4, <3>7, <3>8 DEF Calling
  <2> QED BY <2>1, <2>2
<1>9. CASE UNCHANGED vars
  BY <1>9 DEF vars, Calling, Kinds, Top
<1>10. CASE ChainNull \/ ChainFirst \/ ChainJoin \/ ChainJoinFails \/ ChainDone \/ EnterPower \/ PowerSign
            \/ PowerPlain \/ PowerNegate \/ PowerNegateFails \/ BaseLeaf \/ BaseDefault \/ BaseFails
            \/ NoArgsClose \/ ArgNull \/ ParenBack \/ CompileNull \/ CompileError \/ CompileOk \/ FreeExpr
  BY <1>1, <1>10 DEF ChainNull, ChainFirst, ChainJoin, ChainJoinFails, ChainDone, EnterPower, PowerSign,
     PowerPlain, PowerNegate, PowerNegateFails, BaseLeaf, BaseDefault, BaseFails, NoArgsClose, ArgNull,
     ParenBack, CompileNull, CompileError, CompileOk, FreeExpr, Return, Continue
<1> QED
  BY <1>2, <1>3, <1>4, <1>5, <1>6, <1>7, <1>8, <1>9, <1>10 DEF Next

\* The depth of the recursion follows the parentheses that are open and the functions,
\* for texts of any length: operators and signs are loops.
THEOREM DescentBoundCorrect == Spec => []DescentBound
<1> DEFINE Inv == /\ Latest /\ Calling
                  /\ pc \notin {"idle", "done", "over"} => Nested
<1>1. Init => Inv
  BY DEF Init, Latest, Calling
<1>2. HeapInv /\ HeapInv' /\ Inv /\ [Next]_vars => Inv'
  <2> SUFFICES ASSUME HeapInv, HeapInv', Inv, [Next]_vars PROVE Inv'
    OBVIOUS
  <2>1. Control /\ Control' /\ Own(Pt, Live) /\ Filling /\ Reads
    BY DEF HeapInv
  <2>2. Latest'
    BY <2>1, LatestStep
  <2>3. Calling'
    BY <2>1, CallingStep
  <2>4. (pc \notin {"idle", "done", "over"} => Nested)'
    BY <2>1, <2>2, NestedStep
  <2> QED BY <2>2, <2>3, <2>4
<1>3. ASSUME HeapInv, Inv PROVE DescentBound
  <2> SUFFICES ASSUME pc \notin {"idle", "done", "over"}
               PROVE  Len(stack) <= 5 + 6 * (Count(input, {"open"})
                                               - Count(SubSeq(input, 1, Len(input) - 1), {"close"}))
                                      + 2 * Count(input, FunctionTokens)
    BY DEF DescentBound
  <2> DEFINE l == Len(stack)
             w == Wides(Kinds, l)
             b == Bases(Kinds, l)
  <2>1. Control /\ Latest /\ Calling /\ Nested
    BY <1>3 DEF HeapInv
  <2>2. l \in Nat /\ w \in Nat /\ b \in Nat
    BY <2>1, CountNat DEF Wides, Bases, Control
  <2>3. Deep(Kinds, l) /\ Opened >= w + Pending /\ Named >= b
    BY <2>1 DEF Nested, Fits
  <2>4. Opened \in Int /\ Named \in Nat
    BY <2>1, Parsed
  <2>5. /\ Count(input, {"open"}) >= Cardinality(Before(input, {"open"}))
        /\ Count(input, FunctionTokens) >= Named
        /\ Count(SubSeq(input, 1, Len(input) - 1), {"close"}) = Cardinality(Before(input, {"close"}))
        /\ Count(input, {"open"}) \in Nat /\ Count(input, FunctionTokens) \in Nat
    <3>1. ASSUME NEW S PROVE Count(input, S) \in Nat /\ Count(input, S) >= Cardinality(Before(input, S))
      <4> DEFINE C == {k \in DOMAIN input : input[k] \in S}
      <4>1. DOMAIN input = 1..Len(input) /\ Len(input) \in Nat
        BY <2>1 DEF Control
      <4>2. \A n \in Nat : \A k \in 1..(n - 1) : k \in 1..n
        OBVIOUS
      <4>3. Before(input, S) \subseteq C
        BY <4>1, <4>2 DEF Before
      <4>4. IsFiniteSet(C)
        <5>1. IsFiniteSet(1..Len(input)) /\ C \subseteq 1..Len(input)
          BY <4>1, FS_Interval
        <5> HIDE DEF C
        <5> QED BY <5>1, FS_Subset
      <4> HIDE DEF C
      <4>5. Cardinality(Before(input, S)) <= Cardinality(C) /\ Cardinality(C) \in Nat
            /\ Cardinality(Before(input, S)) \in Nat
        BY <2>1, <4>3, <4>4, FS_Subset, FS_CardinalityType
      <4>6. Count(input, S) = Cardinality(C)
        BY DEF Count, C
      <4> QED BY <4>5, <4>6
    <3>2. Count(SubSeq(input, 1, Len(input) - 1), {"close"}) = Cardinality(Before(input, {"close"}))
      <4>1. CASE input = <<>>
        <5>1. Len(input) = 0 /\ SubSeq(input, 1, Len(input) - 1) = <<>>
          BY <4>1
        <5>2. Before(input, {"close"}) = {}
          BY <5>1 DEF Before
        <5>3. {k \in DOMAIN <<>> : <<>>[k] \in {"close"}} = {}
          OBVIOUS
        <5> QED BY <5>1, <5>2, <5>3 DEF Count
      <4>2. CASE input # <<>>
        <5> DEFINE read == SubSeq(input, 1, Len(input) - 1)
        <5>1. /\ read \in Seq(AllTokens \cup {"end"}) /\ Len(read) = Len(input) - 1
              /\ \A k \in 1..(Len(input) - 1) : read[k] = input[k]
          BY <2>1, <4>2, Pop DEF Control
        <5> HIDE DEF read
        <5>2. DOMAIN read = 1..(Len(input) - 1)
          BY <5>1
        <5>3. Count(read, {"close"}) = Cardinality(Before(input, {"close"}))
          BY <5>1, <5>2 DEF Count, Before
        <5> QED BY <5>3 DEF read
      <4> QED BY <4>1, <4>2
    <3> QED BY <3>1, <3>2 DEF Named
  <2>6. l <= 5 + 6 * Opened + 2 * Named
    <3>1. CASE stack = <<>>
      <4>1. pc \notin {"args", "arg", "close"} /\ l = 0
        BY <2>1, <3>1 DEF Calling
      <4>2. Pending = 0
        BY <4>1 DEF Pending
      <4> QED BY <2>2, <2>3, <2>4, <4>1, <4>2
    <3>2. CASE stack # <<>>
      <4>1. l > 0 /\ l \in 1..l
        BY <2>1, <2>2, <3>2 DEF Control
      <4>2. l + Slack(Kinds[l]) <= 5 + 6 * w + 2 * b
        BY <2>3, <4>1 DEF Deep
      <4>3. Kinds[l] \in KindSet
        <5>1. l \in DOMAIN stack
          BY <2>1, <4>1 DEF Control
        <5>2. stack[l] \in CallSet
          BY <2>1, <5>1 DEF Control
        <5> QED BY <5>1, <5>2 DEF Kinds, Kind, KindSet, CallSet, Chain
      <4>4. Slack(Kinds[l]) \in Nat /\ (Kinds[l] = "wide" => Slack(Kinds[l]) = 7)
        BY <4>3 DEF KindSet, Slack
      <4>5. Pending \in {0, 1} \/ (Pending = -1 /\ Kinds[l] = "wide")
        BY DEF Pending
      <4> HIDE DEF l, w, b
      <4>6. CASE Pending \in {0, 1}
        BY <2>2, <2>3, <2>4, <4>2, <4>4, <4>6
      <4>7. CASE Pending = -1 /\ Kinds[l] = "wide"
        BY <2>2, <2>3, <2>4, <4>2, <4>4, <4>7
      <4> QED BY <4>5, <4>6, <4>7
    <3> QED BY <3>1, <3>2
  <2>7. Cardinality(Before(input, {"open"})) \in Nat /\ Cardinality(Before(input, {"close"})) \in Nat
    BY <2>1, BeforeFinite
  <2>8. \A o, c, n, p, m, d \in Nat : d <= 5 + 6 * (o - c) + 2 * n /\ p >= o /\ m >= n
                                     => d <= 5 + 6 * (p - c) + 2 * m
    OBVIOUS
  <2> HIDE DEF l
  <2>9. l <= 5 + 6 * (Cardinality(Before(input, {"open"})) - Cardinality(Before(input, {"close"}))) + 2 * Named
    BY <2>6 DEF Opened
  <2>10. l <= 5 + 6 * (Count(input, {"open"}) - Cardinality(Before(input, {"close"})))
                + 2 * Count(input, FunctionTokens)
    BY <2>2, <2>4, <2>5, <2>7, <2>8, <2>9
  <2> QED BY <2>5, <2>10 DEF l
<1> HIDE DEF Inv
<1> QED BY <1>1, <1>2, <1>3, HeapInvariant, PTL DEF Spec

(***************************************************************************)
(* The walks over an expression                                            *)
(***************************************************************************)

\* The nodes that have parameters: only below them does a walk go a level deeper.
InnerIn(h) == {n \in DOMAIN h : h[n].params # <<>>}

\* The level below a level.
NextLevel(h, r) == UNION {Children(h, m) : m \in r}

\* The levels of the expression n.
AreLevels(L, h, n) ==
  /\ L[0] = {n} \ {NIL}
  /\ \A k \in Nat : k < Len(h) => L[k + 1] = NextLevel(h, L[k])
  /\ Depth(h, n) = Cardinality({k \in 0..Len(h) : L[k] # {}})

\* The recursive function that defines the levels exists.
LEMMA Levels ==
  ASSUME NEW h, Len(h) \in Nat, NEW n
  PROVE  \E L : AreLevels(L, h, n)
<1> DEFINE Good(R, N) == R = [k \in 0..N |-> IF k = 0 THEN {n} \ {NIL} ELSE NextLevel(h, R[k - 1])]
           S == {N \in Nat : \E R : Good(R, N)}
<1>1. 0 \in S
  <2>1. Good([k \in 0..0 |-> {n} \ {NIL}], 0)
    OBVIOUS
  <2> QED BY <2>1
<1>2. ASSUME NEW N \in Nat, N \in S PROVE N + 1 \in S
  <2>1. PICK R : Good(R, N)
    BY <1>2
  <2> DEFINE Q == [k \in 0..(N + 1) |-> IF k = N + 1 THEN NextLevel(h, R[N]) ELSE R[k]]
  <2>2. \A k \in 0..N : Q[k] = R[k]
    OBVIOUS
  <2>3. Q[N + 1] = NextLevel(h, R[N]) /\ N \in 0..N
    OBVIOUS
  <2>4. \A k \in 0..N : R[k] = IF k = 0 THEN {n} \ {NIL} ELSE NextLevel(h, R[k - 1])
    BY <2>1
  <2>5. Q = [k \in 0..(N + 1) |-> Q[k]]
    OBVIOUS
  <2> HIDE DEF Q
  <2>6. ASSUME NEW k \in 0..(N + 1)
        PROVE  Q[k] = IF k = 0 THEN {n} \ {NIL} ELSE NextLevel(h, Q[k - 1])
    <3>1. CASE k = N + 1
      <4>1. k # 0 /\ k - 1 = N
        BY <3>1
      <4> QED BY <3>1, <4>1, <2>2, <2>3
    <3>2. CASE k # N + 1
      <4>1. k \in 0..N /\ (k # 0 => k - 1 \in 0..N)
        BY <3>2
      <4> QED BY <4>1, <2>2, <2>4
    <3> QED BY <3>1, <3>2
  <2>7. Good(Q, N + 1)
    BY <2>5, <2>6
  <2> QED BY <2>7
<1>3. Len(h) \in S
  <2> HIDE DEF S
  <2> QED BY <1>1, <1>2, Climb
<1>4. \E R : Good(R, Len(h))
  BY <1>3
<1> DEFINE L == CHOOSE R : Good(R, Len(h))
<1>5. Good(L, Len(h))
  BY <1>4
<1>6. Depth(h, n) = Cardinality({k \in 0..Len(h) : L[k] # {}})
  BY DEF Depth, NextLevel
<1>7. \A k \in 0..Len(h) : L[k] = IF k = 0 THEN {n} \ {NIL} ELSE NextLevel(h, L[k - 1])
  <2> HIDE DEF L
  <2> QED BY <1>5
<1> HIDE DEF L
<1>8. L[0] = {n} \ {NIL}
  BY <1>7
<1>9. ASSUME NEW k \in Nat, k < Len(h) PROVE L[k + 1] = NextLevel(h, L[k])
  <2>1. k + 1 \in 0..Len(h) /\ k + 1 # 0 /\ k + 1 - 1 = k
    BY <1>9
  <2> QED BY <2>1, <1>7
<1>10. AreLevels(L, h, n)
  BY <1>6, <1>8, <1>9 DEF AreLevels
<1> QED BY <1>10

\* No node stands in two levels of an expression, as every node has one holder: each
\* level but the first hangs below an inner node of its own.
LEMMA DepthInner ==
  ASSUME Control, Own(Pt, Live), NEW n \in Expressions
  PROVE  Depth(heap, n) \in Nat /\ Depth(heap, n) <= 1 + Cardinality(InnerIn(heap))
<1> DEFINE l == Len(heap)
<1>1. l \in Nat /\ DOMAIN heap = 1..l /\ Live \subseteq 1..l
  BY LiveFinite DEF Control
<1>2. \E j \in Int : Pt[0][j] = n
  <2>1. n \in {stack[k].ret : k \in DOMAIN stack} \cup {val, root}
    BY DEF Expressions
  <2>2. Pt[0][0] = val /\ Pt[0][-1] = root /\ 0 \in Int /\ -1 \in Int
    BY CallSlots
  <2>3. ASSUME NEW k \in DOMAIN stack PROVE k \in Int /\ Pt[0][k] = stack[k].ret
    <3>1. k \in Int /\ k > 0
      BY DEF Control
    <3> QED BY <3>1, CallSlots DEF RetOf
  <2> QED BY <2>1, <2>2, <2>3
<1>3. n # 0 /\ n \in Live
  <2>1. n # 0
    BY DEF Expressions, NIL
  <2> QED BY <1>2, <2>1 DEF Own
<1>4. PICK L : AreLevels(L, heap, n)
  BY <1>1, Levels
<1>5. /\ L[0] = {n}
      /\ \A k \in Nat : k < l => L[k + 1] = NextLevel(heap, L[k])
      /\ Depth(heap, n) = Cardinality({k \in 0..l : L[k] # {}})
  BY <1>3, <1>4 DEF AreLevels, NIL
<1> HIDE DEF l
<1>6. \A m \in Live : Children(heap, m) \subseteq Live
  BY ChildrenAre DEF Own
<1>7. ASSUME NEW b \in 0..l PROVE L[b] \subseteq Live
  <2> DEFINE S == {k \in Nat : L[k] \subseteq Live}
  <2>1. 0 \in S
    BY <1>3, <1>5
  <2>2. ASSUME NEW k \in Nat, k < b, k \in S PROVE k + 1 \in S
    <3>1. L[k + 1] = NextLevel(heap, L[k]) /\ L[k] \subseteq Live
      BY <1>1, <1>5, <2>2
    <3> QED BY <1>6, <3>1 DEF NextLevel
  <2>3. b \in S
    <3> HIDE DEF S
    <3> QED BY <1>1, <2>1, <2>2, Climb
  <2> QED BY <2>3
<1>8. ASSUME NEW k \in 0..l, k # 0, NEW c \in L[k]
      PROVE  /\ k - 1 \in 0..l
             /\ \E m \in L[k - 1] : m \in Live /\ c # 0 /\ \E j \in Int : Pt[m][j] = c
  <2>1. k - 1 \in Nat /\ k - 1 < l /\ k - 1 + 1 = k /\ k - 1 \in 0..l
    BY <1>1, <1>8
  <2>2. L[k] = NextLevel(heap, L[k - 1])
    BY <1>5, <2>1
  <2>3. PICK m \in L[k - 1] : c \in Children(heap, m)
    BY <2>2 DEF NextLevel
  <2>4. m \in Live
    BY <1>7, <2>1, <2>3
  <2> QED BY <2>1, <2>3, <2>4, ChildrenAre
<1>9. \A i, j \in 0..l : i < j => L[i] \cap L[j] = {}
  <2> DEFINE T == {i \in 0..l : \E j \in 0..l : i < j /\ L[i] \cap L[j] # {}}
  <2> SUFFICES ASSUME T # {} PROVE FALSE
    OBVIOUS
  <2>1. PICK i \in T : \A k \in T : i <= k
    <3>1. T \subseteq Nat
      BY <1>1
    <3> HIDE DEF T
    <3> QED BY <3>1, Least
  <2>2. PICK j \in 0..l : i < j /\ L[i] \cap L[j] # {}
    OBVIOUS
  <2>3. PICK x : x \in L[i] /\ x \in L[j]
    BY <2>2
  <2>4. i \in 0..l /\ j # 0
    BY <1>1, <2>2
  <2>5. /\ j - 1 \in 0..l
        /\ \E m \in L[j - 1] : m \in Live /\ x # 0 /\ \E q \in Int : Pt[m][q] = x
    BY <1>8, <2>3, <2>4
  <2>6. PICK m \in L[j - 1] : m \in Live /\ x # 0 /\ \E q \in Int : Pt[m][q] = x
    BY <2>5
  <2>7. PICK q \in Int : Pt[m][q] = x
    BY <2>6
  <2>8. m \in Nat /\ m # 0
    BY <2>6 DEF Own
  <2>9. CASE i = 0
    <3>1. x = n
      BY <1>5, <2>3, <2>9
    <3>2. PICK p \in Int : Pt[0][p] = x
      BY <1>2, <3>1
    <3> QED BY <2>6, <2>7, <2>8, <3>2 DEF Own
  <2>10. CASE i # 0
    <3>1. /\ i - 1 \in 0..l
          /\ \E o \in L[i - 1] : o \in Live /\ x # 0 /\ \E p \in Int : Pt[o][p] = x
      BY <1>8, <2>3, <2>4, <2>10
    <3>2. PICK o \in L[i - 1] : o \in Live /\ \E p \in Int : Pt[o][p] = x
      BY <3>1
    <3>3. PICK p \in Int : Pt[o][p] = x
      BY <3>2
    <3>4. o \in Nat
      BY <3>2 DEF Own
    <3>5. o = m
      BY <2>6, <2>7, <2>8, <3>3, <3>4 DEF Own
    <3>6. i - 1 < j - 1 /\ ~(i <= i - 1)
      BY <1>1, <2>2, <2>4
    <3>7. i - 1 \in T
      BY <2>5, <2>6, <3>1, <3>2, <3>5, <3>6
    <3> QED BY <2>1, <3>6, <3>7
  <2> QED BY <2>9, <2>10
<1> DEFINE K == {k \in 0..l : L[k] # {}}
           J == K \ {0}
           I == InnerIn(heap)
           g == [k \in J |-> CHOOSE m \in L[k - 1] : m \in I]
<1>10. ASSUME NEW k \in J PROVE k - 1 \in 0..l /\ g[k] \in L[k - 1] /\ g[k] \in I
  <2>1. k \in 0..l /\ k # 0 /\ L[k] # {}
    OBVIOUS
  <2>2. PICK c : c \in L[k]
    BY <2>1
  <2>3. k - 1 \in 0..l /\ \E m \in L[k - 1] : m \in Live /\ c # 0 /\ \E j \in Int : Pt[m][j] = c
    BY <1>8, <2>1, <2>2
  <2>4. PICK m \in L[k - 1] : m \in Live /\ c # 0 /\ \E j \in Int : Pt[m][j] = c
    BY <2>3
  <2>5. m \in I
    <3>1. m \in DOMAIN heap /\ c \in Children(heap, m)
      BY <2>4, ChildrenAre
    <3> QED BY <3>1 DEF InnerIn, Children
  <2>6. g[k] = CHOOSE y \in L[k - 1] : y \in I
    OBVIOUS
  <2> HIDE DEF g, J, I
  <2> QED BY <2>3, <2>4, <2>5, <2>6
<1>11. IsFiniteSet(I) /\ Cardinality(I) \in Nat
  <2>1. IsFiniteSet(1..l) /\ I \subseteq 1..l
    BY <1>1, FS_Interval DEF InnerIn
  <2> HIDE DEF I
  <2> QED BY <2>1, FS_Subset, FS_CardinalityType
<1>12. g \in Injection(J, I)
  <2>1. g \in [J -> I]
    BY <1>10
  <2>2. ASSUME NEW a \in J, NEW b \in J, g[a] = g[b] PROVE a = b
    <3>1. a - 1 \in 0..l /\ g[a] \in L[a - 1] /\ b - 1 \in 0..l /\ g[b] \in L[b - 1]
      BY <1>10
    <3>2. ~(a - 1 < b - 1) /\ ~(b - 1 < a - 1)
      <4> HIDE DEF g
      <4> QED BY <1>9, <2>2, <3>1
    <3>3. a \in Int /\ b \in Int
      BY <1>1
    <3> HIDE DEF g, J
    <3> QED BY <3>2, <3>3
  <2> HIDE DEF g, J, I
  <2> QED BY <2>1, <2>2 DEF Injection, IsInjective
<1>13. IsFiniteSet(J) /\ Cardinality(J) <= Cardinality(I) /\ Cardinality(J) \in Nat
  <2> HIDE DEF g, J, I
  <2> QED BY <1>11, <1>12, FS_Injection, FS_CardinalityType
<1>14. K \subseteq J \cup {0} /\ 0 \notin J
  OBVIOUS
<1>15. Cardinality(J \cup {0}) = Cardinality(J) + 1 /\ IsFiniteSet(J \cup {0})
  <2> HIDE DEF J
  <2> QED BY <1>13, <1>14, FS_AddElement
<1>16. Cardinality(K) <= Cardinality(J \cup {0}) /\ Cardinality(K) \in Nat
  <2> HIDE DEF J, K
  <2> QED BY <1>14, <1>15, FS_Subset, FS_CardinalityType
<1> QED BY <1>5, <1>11, <1>13, <1>15, <1>16

\* A call that has read an operator or a minus sign for which there is no node yet.
Owes(f, looping) == \/ f.fn = "power" /\ f.i = 1
                    \/ f.fn \in Chain /\ f.ret # NIL /\ ~looping
Owing == {k \in DOMAIN stack : Owes(stack[k], k = Len(stack) /\ pc = "loop")}

\* Operators, signs and functions that have been parsed.
Spent == Cardinality(Before(input, InnerTokens))

\* Every inner node, and every one still to come, has its token in the text.
Paid == Cardinality(InnerIn(heap)) + Cardinality(Owing) <= Spent

\* Inner nodes and calls are finitely many.
LEMMA PaidFinite ==
  ASSUME Control
  PROVE  /\ IsFiniteSet(InnerIn(heap)) /\ Cardinality(InnerIn(heap)) \in Nat
         /\ IsFiniteSet(Owing) /\ Cardinality(Owing) \in Nat
<1>1. Len(heap) \in Nat /\ DOMAIN heap = 1..Len(heap) /\ Len(stack) \in Nat /\ DOMAIN stack = 1..Len(stack)
  BY DEF Control
<1>2. IsFiniteSet(1..Len(heap)) /\ IsFiniteSet(1..Len(stack))
  BY <1>1, FS_Interval
<1>3. InnerIn(heap) \subseteq 1..Len(heap) /\ Owing \subseteq 1..Len(stack)
  BY <1>1 DEF InnerIn, Owing
<1> QED BY <1>2, <1>3, FS_Subset, FS_CardinalityType

\* The ways in which a step keeps Paid: it takes on nothing; a token pays for a node or
\* for a debt; or a node pays a debt.
LEMMA Balance ==
  ASSUME NEW A, NEW B, NEW C, NEW D, IsFiniteSet(A), IsFiniteSet(C), NEW x, NEW y,
         NEW p \in Nat, NEW q \in Nat, Cardinality(A) + Cardinality(C) <= p,
         \/ B \subseteq A /\ D \subseteq C /\ q >= p
         \/ B \subseteq A \cup {x} /\ D \subseteq C /\ q >= p + 1
         \/ B \subseteq A /\ D \subseteq C \cup {y} /\ q >= p + 1
         \/ B \subseteq A \cup {x} /\ y \in C /\ D \subseteq C \ {y} /\ q >= p
  PROVE  Cardinality(B) + Cardinality(D) <= q
<1>1. ASSUME NEW X, IsFiniteSet(X)
      PROVE  /\ Cardinality(X) \in Nat
             /\ \A Y : Y \subseteq X => Cardinality(Y) \in Nat /\ Cardinality(Y) <= Cardinality(X)
             /\ \A Y, z : Y \subseteq X \cup {z} => Cardinality(Y) \in Nat /\ Cardinality(Y) <= Cardinality(X) + 1
  <2>1. \A Y : Y \subseteq X => Cardinality(Y) \in Nat /\ Cardinality(Y) <= Cardinality(X)
    BY <1>1, FS_Subset, FS_CardinalityType
  <2>2. ASSUME NEW Y, NEW z, Y \subseteq X \cup {z}
        PROVE  Cardinality(Y) \in Nat /\ Cardinality(Y) <= Cardinality(X) + 1
    <3>1. IsFiniteSet(X \cup {z}) /\ Cardinality(X) \in Nat
          /\ (z \in X => X \cup {z} = X) /\ (z \notin X => Cardinality(X \cup {z}) = Cardinality(X) + 1)
      BY <1>1, FS_AddElement, FS_CardinalityType
    <3>2. Cardinality(X \cup {z}) \in Nat /\ Cardinality(X \cup {z}) <= Cardinality(X) + 1
      BY <3>1
    <3>3. Cardinality(Y) \in Nat /\ Cardinality(Y) <= Cardinality(X \cup {z})
      BY <2>2, <3>1, FS_Subset, FS_CardinalityType
    <3> QED BY <3>1, <3>2, <3>3
  <2> QED BY <1>1, <2>1, <2>2, FS_CardinalityType
<1>2. Cardinality(A) \in Nat /\ Cardinality(C) \in Nat
  BY <1>1
<1>3. CASE B \subseteq A /\ D \subseteq C /\ q >= p
  <2>1. /\ Cardinality(B) \in Nat /\ Cardinality(B) <= Cardinality(A)
        /\ Cardinality(D) \in Nat /\ Cardinality(D) <= Cardinality(C)
    BY <1>1, <1>3
  <2> QED BY <1>2, <1>3, <2>1
<1>4. CASE B \subseteq A \cup {x} /\ D \subseteq C /\ q >= p + 1
  <2>1. /\ Cardinality(B) \in Nat /\ Cardinality(B) <= Cardinality(A) + 1
        /\ Cardinality(D) \in Nat /\ Cardinality(D) <= Cardinality(C)
    BY <1>1, <1>4
  <2> QED BY <1>2, <1>4, <2>1
<1>5. CASE B \subseteq A /\ D \subseteq C \cup {y} /\ q >= p + 1
  <2>1. /\ Cardinality(B) \in Nat /\ Cardinality(B) <= Cardinality(A)
        /\ Cardinality(D) \in Nat /\ Cardinality(D) <= Cardinality(C) + 1
    BY <1>1, <1>5
  <2> QED BY <1>2, <1>5, <2>1
<1>6. CASE B \subseteq A \cup {x} /\ y \in C /\ D \subseteq C \ {y} /\ q >= p
  <2>1. /\ Cardinality(B) \in Nat /\ Cardinality(B) <= Cardinality(A) + 1
    BY <1>1, <1>6
  <2>2. IsFiniteSet(C \ {y}) /\ Cardinality(C \ {y}) = Cardinality(C) - 1
    BY <1>6, FS_RemoveElement
  <2>3. Cardinality(D) \in Nat /\ Cardinality(D) <= Cardinality(C) - 1
    BY <1>1, <1>6, <2>2
  <2> QED BY <1>2, <1>6, <2>1, <2>3
<1> QED BY <1>3, <1>4, <1>5, <1>6

\* What a step that reads a token pays.
LEMMA SpentStep ==
  ASSUME Control, Reads, Latest, [Next]_vars, pc # "idle"
  PROVE  /\ Spent \in Nat /\ Spent' \in Nat /\ Spent' >= Spent
         /\ NextToken /\ tok \in InnerTokens => Spent' >= Spent + 1
<1>1. UNCHANGED <<tok, input>> \/ SetError \/ NextToken
  BY DEF Next, vars, Compile, EnterChain, ChainNull, ChainFirst, ChainJoin, ChainJoinFails,
     ChainMore, ChainDone, EnterPower, PowerSign, PowerBase, PowerPlain, PowerNegate,
     PowerNegateFails, BaseLeaf, BaseFunction, BaseOpen, BaseDefault, BaseFails, NoArgs,
     NoArgsClose, Args, Arg, ArgNull, ArgAttached, ParenBack, CompileNull, CompileError,
     CompileOk, FreeExpr, KeepToken
<1>2. Spent \in Nat
  BY BeforeFinite DEF Spent
<1>3. input' = input => Spent' = Spent
  BY DEF Spent
<1>4. ASSUME NextToken
      PROVE  Spent' = Spent + IF tok \in InnerTokens THEN 1 ELSE 0
  <2>1. input' # input
    <3>1. input \in Seq(AllTokens \cup {"end"}) /\ tok' \in AllTokens \cup {"end"} /\ input' = Append(input, tok')
      BY <1>4, TokenRead DEF Control, NextToken
    <3>2. Len(input') = Len(input) + 1 /\ Len(input) \in Nat
      BY <3>1
    <3> QED BY <3>2
  <2>2. tok # "error"
    BY <2>1, StickyStep
  <2>3. input # <<>> /\ tok = input[Len(input)]
    BY <2>2 DEF Latest
  <2> QED BY <1>4, <2>3, ReadOn DEF Spent
<1> QED BY <1>1, <1>2, <1>3, <1>4 DEF SetError

\* What the calls owe after a step.
LEMMA OwingMove ==
  ASSUME Control
  PROVE  /\ stack # <<>> /\ stack' = Below => Owing' \subseteq Owing \ {Len(stack)}
         /\ stack' = stack => /\ Owing' \subseteq Owing \cup {Len(stack)}
                              /\ pc # "loop" \/ Top.fn \notin Chain => Owing' \subseteq Owing
         /\ \A f \in CallSet : stack' = Append(stack, f) /\ pc # "loop" /\ ~Owes(f, FALSE) =>
              Owing' \subseteq Owing
         /\ \A f \in CallSet : \A step : stack # <<>> /\ Continue(f, step) =>
              /\ Owing' \subseteq Owing \cup {Len(stack)}
              /\ ~Owes(f, step = "loop") => Owing' \subseteq Owing \ {Len(stack)}
<1>0. \A f, b : Owes(f, b) => Owes(f, FALSE)
  BY DEF Owes
<1>1. ASSUME stack # <<>>, stack' = Below PROVE Owing' \subseteq Owing \ {Len(stack)}
  <2>1. \A j \in DOMAIN stack' : j \in DOMAIN stack /\ stack'[j] = stack[j] /\ j < Len(stack)
    BY <1>1, Frames
  <2>2. ASSUME NEW j \in Owing' PROVE j \in Owing \ {Len(stack)}
    <3>1. j \in DOMAIN stack /\ stack'[j] = stack[j] /\ j < Len(stack) /\ j # Len(stack)
      BY <2>1 DEF Owing, Control
    <3>2. Owes(stack[j], FALSE)
      BY <1>0, <3>1 DEF Owing
    <3>3. Owes(stack[j], j = Len(stack) /\ pc = "loop")
      BY <3>1, <3>2 DEF Owes
    <3> QED BY <3>1, <3>3 DEF Owing
  <2> QED BY <2>2
<1>2. ASSUME stack' = stack
      PROVE  /\ Owing' \subseteq Owing \cup {Len(stack)}
             /\ pc # "loop" \/ Top.fn \notin Chain => Owing' \subseteq Owing
  <2>1. ASSUME NEW j \in Owing', j # Len(stack) \/ pc # "loop" \/ Top.fn \notin Chain
        PROVE  j \in Owing
    <3>1. j \in DOMAIN stack /\ Owes(stack[j], FALSE)
      BY <1>0, <1>2 DEF Owing
    <3>2. Owes(stack[j], j = Len(stack) /\ pc = "loop")
      BY <2>1, <3>1 DEF Owes, Top
    <3> QED BY <3>1, <3>2 DEF Owing
  <2> QED BY <2>1
<1>3. ASSUME NEW f \in CallSet, stack' = Append(stack, f), pc # "loop", ~Owes(f, FALSE)
      PROVE  Owing' \subseteq Owing
  <2>1. \A j \in DOMAIN stack' : \/ j \in DOMAIN stack /\ stack'[j] = stack[j]
                                 \/ j = Len(stack) + 1 /\ stack'[j] = f
    BY <1>3, Frames
  <2>2. ASSUME NEW j \in Owing' PROVE j \in Owing
    <3>1. j \in DOMAIN stack' /\ Owes(stack'[j], FALSE)
      BY <1>0 DEF Owing
    <3>2. j \in DOMAIN stack /\ stack'[j] = stack[j]
      BY <1>3, <2>1, <3>1
    <3>3. Owes(stack[j], j = Len(stack) /\ pc = "loop")
      BY <1>3, <3>1, <3>2 DEF Owes
    <3> QED BY <3>2, <3>3 DEF Owing
  <2> QED BY <2>2
<1>4. ASSUME NEW f \in CallSet, NEW step, stack # <<>>, Continue(f, step)
      PROVE  /\ Owing' \subseteq Owing \cup {Len(stack)}
             /\ ~Owes(f, step = "loop") => Owing' \subseteq Owing \ {Len(stack)}
  <2>1. /\ \A j \in DOMAIN stack' : \/ j \in DOMAIN stack /\ stack'[j] = stack[j] /\ j < Len(stack)
                                    \/ j = Len(stack) /\ stack'[j] = f
        /\ Len(stack') = Len(stack) /\ pc' = step
    BY <1>4, Frames DEF Continue
  <2>2. ASSUME NEW j \in Owing', j # Len(stack) PROVE j \in Owing
    <3>1. j \in DOMAIN stack /\ stack'[j] = stack[j] /\ j < Len(stack)
      BY <2>1, <2>2 DEF Owing
    <3>2. Owes(stack[j], FALSE)
      BY <1>0, <3>1 DEF Owing
    <3>3. Owes(stack[j], j = Len(stack) /\ pc = "loop")
      BY <2>2, <3>2 DEF Owes
    <3> QED BY <3>1, <3>3 DEF Owing
  <2>3. ASSUME Len(stack) \in Owing' PROVE Owes(f, step = "loop")
    <3>1. Len(stack) \in DOMAIN stack' /\ stack'[Len(stack)] = f
      BY <2>1, <2>3 DEF Owing, Control
    <3>2. Owes(f, Len(stack) = Len(stack') /\ pc' = "loop")
      BY <2>3, <3>1 DEF Owing
    <3> QED BY <2>1, <3>2 DEF Owes
  <2> QED BY <2>2, <2>3
<1> QED BY <1>1, <1>2, <1>3, <1>4

\* The inner nodes after a step.
LEMMA InnerMove ==
  ASSUME Control
  PROVE  /\ heap' = heap => InnerIn(heap') \subseteq InnerIn(heap)
         /\ \A roots : Release(roots) => InnerIn(heap') \subseteq InnerIn(heap)
         /\ \A x \in NodeSet : Alloc(x) =>
              /\ InnerIn(heap') \subseteq InnerIn(heap) \cup {New}
              /\ x.params = <<>> => InnerIn(heap') \subseteq InnerIn(heap)
         /\ \A n : Optimize(n) => InnerIn(heap') \subseteq InnerIn(heap)
<1>1. ASSUME NEW roots, Release(roots) PROVE InnerIn(heap') \subseteq InnerIn(heap)
  <2>1. heap' = [n \in DOMAIN heap |-> [heap[n] EXCEPT !.live = @ /\ n \notin Walks(roots)]]
    BY <1>1 DEF Release, Walks
  <2>2. DOMAIN heap' = DOMAIN heap /\ \A n \in DOMAIN heap : heap'[n].params = heap[n].params
    BY <2>1, ParamFree
  <2> QED BY <2>2 DEF InnerIn
<1>2. ASSUME NEW x \in NodeSet, Alloc(x)
      PROVE  /\ InnerIn(heap') \subseteq InnerIn(heap) \cup {New}
             /\ x.params = <<>> => InnerIn(heap') \subseteq InnerIn(heap)
  <2>1. heap \in Seq(NodeSet) /\ heap' = Append(heap, x)
    BY <1>2 DEF Alloc, Control
  <2>2. /\ Len(heap) \in Nat /\ heap' \in Seq(NodeSet) /\ Len(heap') = Len(heap) + 1
        /\ heap'[New] = x /\ \A n \in 1..Len(heap) : heap'[n] = heap[n]
    BY <2>1, Push DEF New
  <2>3. DOMAIN heap = 1..Len(heap) /\ DOMAIN heap' = 1..(Len(heap) + 1)
    BY <2>1, <2>2
  <2>4. \A n \in 1..(Len(heap) + 1) : n \in 1..Len(heap) \/ n = New
    BY <2>2 DEF New
  <2> QED BY <2>2, <2>3, <2>4 DEF InnerIn
<1>3. ASSUME NEW n, Optimize(n) PROVE InnerIn(heap') \subseteq InnerIn(heap)
  <2>1. DOMAIN heap' = DOMAIN heap
    BY <1>3 DEF Optimize
  <2>2. ASSUME NEW m \in DOMAIN heap PROVE heap'[m].params = heap[m].params \/ heap'[m].params = <<>>
    <3>1. heap[m] \in NodeSet
      BY DEF Control
    <3>2. \A y \in NodeSet : [y EXCEPT !.live = FALSE].params = y.params
      BY DEF NodeSet
    <3>3. Node("const", FALSE, <<>>).params = <<>>
      BY DEF Node
    <3>4. \/ heap'[m] = [heap[m] EXCEPT !.live = FALSE]
          \/ heap'[m] = Node("const", FALSE, <<>>)
          \/ heap'[m] = heap[m]
      BY <1>3 DEF Optimize
    <3> QED BY <3>1, <3>2, <3>3, <3>4
  <2> QED BY <2>1, <2>2 DEF InnerIn
<1> QED BY <1>1, <1>2, <1>3

\* Every step keeps Paid.
LEMMA PaidStep ==
  ASSUME Control, Control', Own(Pt, Live), Filling, Reads, Latest, pc # "idle", Paid, [Next]_vars
  PROVE  Paid'
<1> DEFINE l == Len(stack)
<1>1. /\ Spent \in Nat /\ Spent' \in Nat /\ Spent' >= Spent
      /\ NextToken /\ tok \in InnerTokens => Spent' >= Spent + 1
  BY SpentStep
<1>2. SUFFICES \/ InnerIn(heap') \subseteq InnerIn(heap) /\ Owing' \subseteq Owing
               \/ /\ InnerIn(heap') \subseteq InnerIn(heap) \cup {New} /\ Owing' \subseteq Owing
                  /\ NextToken /\ tok \in InnerTokens
               \/ /\ InnerIn(heap') \subseteq InnerIn(heap) /\ Owing' \subseteq Owing \cup {l}
                  /\ NextToken /\ tok \in InnerTokens
               \/ /\ InnerIn(heap') \subseteq InnerIn(heap) \cup {New}
                  /\ l \in Owing /\ Owing' \subseteq Owing \ {l}
  <2>1. /\ IsFiniteSet(InnerIn(heap)) /\ IsFiniteSet(Owing)
        /\ Cardinality(InnerIn(heap)) + Cardinality(Owing) <= Spent
    BY PaidFinite DEF Paid
  <2>2. Cardinality(InnerIn(heap')) + Cardinality(Owing') <= Spent'
    BY <1>1, <1>2, <2>1, Balance
  <2> QED BY <2>2 DEF Paid
<1>3. /\ Top.fn \in Chain => Top.fn \notin {"power", "base", "paren"}
      /\ stack # <<>> => Top \in CallSet /\ l \in DOMAIN stack
  BY Pops DEF Chain, Control
<1>4. CASE EnterChain \/ EnterPower \/ BaseOpen
  <2>1. PICK f \in CallSet : stack' = Append(stack, f) /\ ~Owes(f, FALSE)
    <3>1. \A fn \in Chain \cup {"power", "paren"} :
            LET f == [fn |-> fn, ret |-> NIL, i |-> 0] IN f \in CallSet /\ ~Owes(f, FALSE)
      BY DEF CallSet, Owes, Chain, NIL
    <3> QED BY <1>4, <3>1 DEF EnterChain, EnterPower, BaseOpen, Call
  <2>2. pc # "loop" /\ heap' = heap
    BY <1>4 DEF EnterChain, EnterPower, BaseOpen, InBase, memory
  <2> QED BY <2>1, <2>2, OwingMove, InnerMove
<1>5. CASE ChainNull \/ ChainJoinFails \/ PowerNegateFails \/ ArgNull
  <2>1. stack # <<>> /\ stack' = Below
    BY <1>5 DEF ChainNull, ChainJoinFails, PowerNegateFails, ArgNull, InFrame, Return
  <2>2. Release({Top.ret}) \/ Release({val, Top.ret}) \/ Release({val})
    BY <1>5, Zenon DEF ChainNull, ChainJoinFails, PowerNegateFails, ArgNull, Free, AllocFails
  <2>3. InnerIn(heap') \subseteq InnerIn(heap)
    BY <2>2, InnerMove
  <2>4. Owing' \subseteq Owing
    BY <2>1, OwingMove
  <2> QED BY <2>3, <2>4
<1>6. CASE ChainDone \/ PowerPlain \/ NoArgsClose \/ ParenBack
  <2>1. stack # <<>> /\ stack' = Below /\ heap' = heap
    BY <1>6 DEF ChainDone, PowerPlain, NoArgsClose, ParenBack, InFrame, Return, memory
  <2> QED BY <2>1, OwingMove, InnerMove
<1>7. CASE ChainFirst
  <2>1. /\ stack # <<>> /\ Continue([Top EXCEPT !.ret = val], "loop") /\ heap' = heap
        /\ Top.fn \in Chain
    BY <1>7 DEF ChainFirst, InFrame, memory
  <2>2. [Top EXCEPT !.ret = val] \in CallSet /\ ~Owes([Top EXCEPT !.ret = val], "loop" = "loop")
    BY <1>3, <2>1 DEF CallSet, Owes, Control
  <2>3. Owing' \subseteq Owing \ {l}
    BY <2>1, <2>2, OwingMove
  <2> QED BY <2>1, <2>3, InnerMove
<1>8. CASE ChainJoin
  <2>1. /\ stack # <<>> /\ Continue([Top EXCEPT !.ret = New], "loop")
        /\ Top.fn \in Chain /\ Top.ret # NIL /\ pc = "back" /\ val \in Nat
        /\ Alloc(Node("fun", TRUE, <<Top.ret, val>>))
    BY <1>8 DEF ChainJoin, InFrame, Control
  <2>2. New \in Nat
    BY DEF New, Control
  <2>3. [Top EXCEPT !.ret = New] \in CallSet /\ ~Owes([Top EXCEPT !.ret = New], "loop" = "loop")
    BY <1>3, <2>1, <2>2 DEF CallSet, Owes
  <2>4. Owing' \subseteq Owing \ {l}
    BY <2>1, <2>3, OwingMove
  <2>5. l \in Owing
    BY <1>3, <2>1 DEF Owing, Owes, Top
  <2>6. Node("fun", TRUE, <<Top.ret, val>>) \in NodeSet
    <3>1. Top.ret \in Nat
      BY <1>3, <2>1 DEF CallSet
    <3>2. <<Top.ret, val>> \in Seq(Nat)
      BY <2>1, <3>1
    <3> QED BY <3>2 DEF Node, NodeSet
  <2>7. InnerIn(heap') \subseteq InnerIn(heap) \cup {New}
    BY <2>1, <2>6, InnerMove
  <2> QED BY <2>4, <2>5, <2>7
<1>9. CASE ChainMore
  <2>1. stack' = stack /\ heap' = heap /\ NextToken /\ tok \in InnerTokens
    BY <1>9 DEF ChainMore, InFrame, Call, memory, InnerTokens
  <2> QED BY <2>1, OwingMove, InnerMove
<1>10. CASE PowerSign
  <2>1. /\ stack # <<>> /\ heap' = heap /\ NextToken /\ tok \in {"add", "sub"} /\ Top.fn = "power"
        /\ Continue([Top EXCEPT !.i = IF tok = "sub" THEN 1 - @ ELSE @], "loop")
    BY <1>10 DEF PowerSign, InFrame, memory
  <2>2. PICK f \in CallSet : Continue(f, "loop")
    <3>1. Top.i \in {0, 1} /\ Top \in CallSet
      BY <1>3, <2>1 DEF CallSet
    <3>2. [Top EXCEPT !.i = IF tok = "sub" THEN 1 - @ ELSE @] \in CallSet
      BY <2>1, <3>1 DEF CallSet
    <3> QED BY <2>1, <3>2
  <2>3. Owing' \subseteq Owing \cup {l}
    BY <2>1, <2>2, OwingMove
  <2>4. tok \in InnerTokens
    BY <2>1 DEF InnerTokens, Ops, Chain
  <2> QED BY <2>1, <2>3, <2>4, InnerMove
<1>11. CASE PowerBase \/ Arg
  <2>1. stack' = stack /\ heap' = heap /\ (pc # "loop" \/ Top.fn \notin Chain)
    BY <1>11 DEF PowerBase, Arg, InFrame, Call, memory, Chain
  <2> QED BY <2>1, OwingMove, InnerMove
<1>12. CASE PowerNegate
  <2>1. /\ stack # <<>> /\ stack' = Below /\ Top.fn = "power" /\ Top.i = 1
        /\ Alloc(Node("fun", TRUE, <<val>>)) /\ val \in Nat
    BY <1>12 DEF PowerNegate, InFrame, Return, Control
  <2>2. l \in Owing
    BY <1>3, <2>1 DEF Owing, Owes, Top
  <2>3. Node("fun", TRUE, <<val>>) \in NodeSet
    <3>1. <<val>> \in Seq(Nat)
      BY <2>1
    <3> QED BY <3>1 DEF Node, NodeSet
  <2> QED BY <2>1, <2>2, <2>3, OwingMove, InnerMove
<1>13. CASE BaseLeaf \/ BaseDefault
  <2>1. PICK x \in NodeSet : Alloc(x) /\ x.params = <<>>
    <3>1. \A t \in {"const", "var"} : Node(t, FALSE, <<>>) \in NodeSet /\ Node(t, FALSE, <<>>).params = <<>>
      BY DEF Node, NodeSet
    <3> QED BY <1>13, <3>1 DEF BaseLeaf, BaseDefault
  <2>2. stack' = stack /\ pc # "loop"
    BY <1>13 DEF BaseLeaf, BaseDefault, InBase, Return
  <2> QED BY <2>1, <2>2, OwingMove, InnerMove
<1>14. CASE BaseFails
  <2>1. stack' = stack /\ pc # "loop" /\ Release({})
    BY <1>14 DEF BaseFails, InBase, Return, AllocFails
  <2> QED BY <2>1, OwingMove, InnerMove
<1>15. CASE BaseFunction
  <2> DEFINE x == Node("fun", tok \notin Impure, [k \in 1..Arity[tok] |-> NIL])
             f == [fn |-> "base", ret |-> New, i |-> 0]
  <2>1. Alloc(x) /\ NextToken /\ pc = "call" /\ tok \in FunctionTokens /\ stack' = Append(stack, f)
    BY <1>15 DEF BaseFunction, InBase, Call
  <2>2. x \in NodeSet /\ (Arity[tok] = 0 => x.params = <<>>) /\ (Arity[tok] = 0 \/ Arity[tok] > 0)
    <3>1. Arity[tok] \in Nat
      BY <2>1 DEF FunctionTokens, Arity
    <3>2. [k \in 1..Arity[tok] |-> NIL] \in Seq(Nat)
      BY <3>1 DEF NIL
    <3>3. Arity[tok] = 0 => [k \in 1..Arity[tok] |-> NIL] = <<>>
      OBVIOUS
    <3> QED BY <3>1, <3>2, <3>3 DEF Node, NodeSet
  <2>3. f \in CallSet /\ ~Owes(f, FALSE)
    <3>1. New \in Nat /\ New # 0
      BY DEF New, Control
    <3> QED BY <3>1 DEF CallSet, Owes, Chain, NIL
  <2> HIDE DEF x, f
  <2>4. Owing' \subseteq Owing
    BY <2>1, <2>3, OwingMove
  <2>5. /\ InnerIn(heap') \subseteq InnerIn(heap) \cup {New}
        /\ Arity[tok] = 0 => InnerIn(heap') \subseteq InnerIn(heap)
    BY <2>1, <2>2, InnerMove
  <2>6. ASSUME Arity[tok] > 0 PROVE tok \in InnerTokens
    <3>1. tok \in {g \in FunctionTokens : Arity[g] > 0}
      BY <2>1, <2>6
    <3> QED BY <3>1, Zenon DEF InnerTokens
  <2> QED BY <2>1, <2>2, <2>4, <2>5, <2>6
<1>16. CASE NoArgs \/ Args
  <2>1. /\ stack # <<>> /\ heap' = heap /\ Top \in CallSet /\ pc = "args"
        /\ stack' = Below \/ Continue(Top, "close") \/ Continue(Top, "arg")
    BY <1>3, <1>16 DEF NoArgs, Args, InFrame, Return, memory
  <2>2. ~Owes(Top, "close" = "loop") /\ ~Owes(Top, "arg" = "loop")
    BY <1>16 DEF NoArgs, Args, InFrame, Owes, Chain
  <2>3. Owing' \subseteq Owing \ {l}
    BY <2>1, <2>2, OwingMove
  <2> QED BY <2>1, <2>3, InnerMove
<1>17. CASE ArgAttached
  <2>1. /\ stack # <<>> /\ Top.fn = "base" /\ pc = "back"
        /\ heap' = [heap EXCEPT ![Top.ret].params[Top.i + 1] = val]
        /\ stack' = Below \/ Continue([Top EXCEPT !.i = @ + 1], "arg")
    BY <1>17 DEF ArgAttached, InFrame, Return
  <2>2. /\ Top.ret \in Live /\ Top.i \in Nat /\ Top.i < Len(heap[Top.ret].params)
        /\ heap[Top.ret].params \in Seq(Nat)
    BY <2>1, Awaits
  <2>3. [Top EXCEPT !.i = @ + 1] \in CallSet /\ ~Owes([Top EXCEPT !.i = @ + 1], "arg" = "loop")
    <3>1. Top \in CallSet /\ Top.i + 1 \in Nat
      BY <1>3, <2>1, <2>2
    <3>2. Top.fn \notin Chain
      BY <2>1 DEF Chain
    <3> QED BY <2>1, <3>1, <3>2 DEF CallSet, Owes
  <2>4. Owing' \subseteq Owing \ {l}
    BY <2>1, <2>3, OwingMove
  <2>5. InnerIn(heap') \subseteq InnerIn(heap)
    <3>1. DOMAIN heap' = DOMAIN heap /\ \A n \in DOMAIN heap : n # Top.ret => heap'[n] = heap[n]
      BY <2>1
    <3>2. heap[Top.ret].params # <<>>
      BY <2>2
    <3>3. Top.ret \in DOMAIN heap
      BY <2>2 DEF Live
    <3> QED BY <3>1, <3>2, <3>3 DEF InnerIn
  <2> QED BY <2>4, <2>5
<1>18. CASE CompileNull \/ CompileError \/ CompileOk \/ FreeExpr
  <2>1. stack' = stack /\ pc # "loop"
    BY <1>18 DEF CompileNull, CompileError, CompileOk, FreeExpr, Returned
  <2>2. heap' = heap \/ Release({val}) \/ Release({root}) \/ Optimize(val)
    BY <1>18, Zenon DEF CompileNull, CompileError, CompileOk, FreeExpr, Free, memory
  <2>3. InnerIn(heap') \subseteq InnerIn(heap)
    BY <2>2, InnerMove
  <2> QED BY <2>1, <2>3, OwingMove
<1>19. CASE UNCHANGED vars
  BY <1>19 DEF vars, Owing, InnerIn
<1>20. CASE Compile
  BY <1>20 DEF Compile
<1> QED
  BY <1>4, <1>5, <1>6, <1>7, <1>8, <1>9, <1>10, <1>11, <1>12, <1>13, <1>14, <1>15, <1>16, <1>17,
     <1>18, <1>19, <1>20 DEF Next

\* te_free, optimize and te_eval recurse into no expression deeper than the operators,
\* signs and functions of the text, for texts of any length and also in what is left when
\* a malloc fails.
THEOREM WalkBoundCorrect == Spec => []WalkBound
<1> DEFINE Inv == /\ Latest /\ (pc # "idle" => Paid)
                  /\ pc = "idle" => heap = <<>> /\ stack = <<>>
<1>1. Init => Inv
  BY DEF Init, Latest
<1>2. HeapInv /\ HeapInv' /\ Inv /\ [Next]_vars => Inv'
  <2> SUFFICES ASSUME HeapInv, HeapInv', Inv, [Next]_vars PROVE Inv'
    OBVIOUS
  <2>1. Control /\ Control' /\ Own(Pt, Live) /\ Filling /\ Reads
    BY DEF HeapInv
  <2>2. Latest'
    BY <2>1, LatestStep
  <2>3. CASE pc # "idle"
    <3>1. Paid'
      BY <2>1, <2>3, PaidStep
    <3>2. pc' # "idle"
      BY <2>3 DEF Next, vars, Compile, EnterChain, ChainNull, ChainFirst, ChainJoin, ChainJoinFails,
         ChainMore, ChainDone, EnterPower, PowerSign, PowerBase, PowerPlain, PowerNegate,
         PowerNegateFails, BaseLeaf, BaseFunction, BaseOpen, BaseDefault, BaseFails, NoArgs,
         NoArgsClose, Args, Arg, ArgNull, ArgAttached, ParenBack, CompileNull, CompileError,
         CompileOk, FreeExpr, Call, Continue, Return
    <3> QED BY <2>2, <3>1, <3>2
  <2>4. CASE pc = "idle"
    <3>1. CASE UNCHANGED vars
      BY <2>2, <2>4, <3>1 DEF vars
    <3>2. CASE Compile
      <4>1. heap' = <<>> /\ stack' = <<>> /\ pc' = "call"
        BY <2>4, <3>2 DEF Compile, Call, memory
      <4>2. InnerIn(heap') = {} /\ Owing' = {}
        BY <4>1 DEF InnerIn, Owing
      <4>3. Spent' \in Nat
        <5>1. Len(input') \in Nat
          BY <2>1 DEF Control
        <5>2. IsFiniteSet(1..(Len(input') - 1))
          BY <5>1, FS_Interval
        <5>3. Before(input', InnerTokens) \subseteq 1..(Len(input') - 1)
          BY DEF Before
        <5>4. Cardinality(Before(input', InnerTokens)) \in Nat
          BY <5>2, <5>3, FS_Subset, FS_CardinalityType
        <5> QED BY <5>4 DEF Spent
      <4>4. Cardinality({}) = 0
        BY FS_EmptySet
      <4>5. Paid'
        BY <4>2, <4>3, <4>4 DEF Paid
      <4> QED BY <2>2, <4>1, <4>5
    <3>3. UNCHANGED vars \/ Compile
      BY <2>4 DEF Next, EnterChain, ChainNull, ChainFirst, ChainJoin, ChainJoinFails,
         ChainMore, ChainDone, EnterPower, PowerSign, PowerBase, PowerPlain, PowerNegate,
         PowerNegateFails, BaseLeaf, BaseFunction, BaseOpen, BaseDefault, BaseFails, NoArgs,
         NoArgsClose, Args, Arg, ArgNull, ArgAttached, ParenBack, CompileNull, CompileError,
         CompileOk, FreeExpr, InFrame, InBase, Returned
    <3> QED BY <3>1, <3>2, <3>3
  <2> QED BY <2>3, <2>4
<1>3. ASSUME HeapInv, Inv PROVE WalkBound
  <2> SUFFICES ASSUME NEW n \in Expressions PROVE Depth(heap, n) <= 1 + Count(input, InnerTokens)
    BY DEF WalkBound
  <2>1. Control /\ Own(Pt, Live)
    BY <1>3 DEF HeapInv
  <2>2. Depth(heap, n) \in Nat /\ Depth(heap, n) <= 1 + Cardinality(InnerIn(heap))
    BY <2>1, DepthInner
  <2>3. pc # "idle"
    <3> SUFFICES ASSUME pc = "idle" PROVE FALSE
      OBVIOUS
    <3>1. stack = <<>> /\ val = NIL /\ root = NIL
      BY <2>1 DEF Control
    <3> QED BY <3>1 DEF Expressions
  <2>4. Paid
    BY <1>3, <2>3
  <2>5. /\ Cardinality(InnerIn(heap)) \in Nat /\ Cardinality(Owing) \in Nat
        /\ Cardinality(InnerIn(heap)) + Cardinality(Owing) <= Spent
    BY <2>1, <2>4, PaidFinite DEF Paid
  <2> DEFINE C == {k \in DOMAIN input : input[k] \in InnerTokens}
  <2>6. Spent \in Nat /\ Cardinality(C) \in Nat /\ Spent <= Cardinality(C)
    <3>1. DOMAIN input = 1..Len(input) /\ Len(input) \in Nat
      BY <2>1 DEF Control
    <3>2. \A m \in Nat : \A k \in 1..(m - 1) : k \in 1..m
      OBVIOUS
    <3>3. Before(input, InnerTokens) \subseteq C
      BY <3>1, <3>2 DEF Before
    <3>4. IsFiniteSet(1..Len(input)) /\ C \subseteq 1..Len(input)
      BY <3>1, FS_Interval
    <3> HIDE DEF C
    <3> QED BY <3>3, <3>4, FS_Subset, FS_CardinalityType DEF Spent
  <2>7. Count(input, InnerTokens) = Cardinality(C)
    BY DEF Count
  <2> HIDE DEF C
  <2> QED BY <2>2, <2>5, <2>6, <2>7
<1> HIDE DEF Inv
<1> QED BY <1>1, <1>2, <1>3, HeapInvariant, PTL DEF Spec

(***************************************************************************)
(* The grammar                                                             *)
(***************************************************************************)

Nonterminals == Chain \cup {"power", "base"}

\* One round of the table of texts: those of n tokens are added.
WithLevel(W, n) == [k \in 0..n |-> IF k = n THEN Level(W, n) ELSE W[k]]

NoWords == [k \in {0} |-> [fn \in Chain \cup {"power", "base"} |-> {}]]

\* The bound on texts.
LEMMA TextBound == MaxText \in Nat /\ MaxTokens <= MaxText /\ MaxCore <= MaxText
  BY TokenAssumption DEF MaxText

\* The recursive function that defines the table exists.
LEMMA WordsDef ==
  /\ Words[0] = NoWords
  /\ \A n \in 1..MaxText : Words[n] = WithLevel(Words[n - 1], n)
<1> DEFINE Good(R, N) == R = [n \in 0..N |-> IF n = 0 THEN NoWords ELSE WithLevel(R[n - 1], n)]
           S == {N \in Nat : \E R : Good(R, N)}
<1>0. MaxText \in Nat
  BY TextBound
<1>1. 0 \in S
  <2>1. Good([n \in 0..0 |-> NoWords], 0)
    OBVIOUS
  <2> QED BY <2>1
<1>2. ASSUME NEW N \in Nat, N \in S PROVE N + 1 \in S
  <2>1. PICK R : Good(R, N)
    BY <1>2
  <2> DEFINE Q == [n \in 0..(N + 1) |-> IF n = N + 1 THEN WithLevel(R[N], N + 1) ELSE R[n]]
  <2>2. \A n \in 0..N : Q[n] = R[n]
    OBVIOUS
  <2>3. Q[N + 1] = WithLevel(R[N], N + 1) /\ N \in 0..N
    OBVIOUS
  <2>4. \A n \in 0..N : R[n] = IF n = 0 THEN NoWords ELSE WithLevel(R[n - 1], n)
    BY <2>1
  <2>5. Q = [n \in 0..(N + 1) |-> Q[n]]
    OBVIOUS
  <2> HIDE DEF Q
  <2>6. ASSUME NEW n \in 0..(N + 1)
        PROVE  Q[n] = IF n = 0 THEN NoWords ELSE WithLevel(Q[n - 1], n)
    <3>1. CASE n = N + 1
      <4>1. n # 0 /\ n - 1 = N
        BY <3>1
      <4> QED BY <3>1, <4>1, <2>2, <2>3
    <3>2. CASE n # N + 1
      <4>1. n \in 0..N /\ (n # 0 => n - 1 \in 0..N)
        BY <3>2
      <4> QED BY <4>1, <2>2, <2>4
    <3> QED BY <3>1, <3>2
  <2>7. Good(Q, N + 1)
    BY <2>5, <2>6
  <2> QED BY <2>7
<1>3. MaxText \in S
  <2> HIDE DEF S
  <2> QED BY <1>0, <1>1, <1>2, Climb
<1>4. \E R : Good(R, MaxText)
  BY <1>3
<1>5. Good(Words, MaxText)
  <2>1. Words = CHOOSE R : Good(R, MaxText)
    BY DEF Words, NoWords, WithLevel
  <2> QED BY <1>4, <2>1
<1>6. \A n \in 0..MaxText : Words[n] = IF n = 0 THEN NoWords ELSE WithLevel(Words[n - 1], n)
  BY <1>5
<1>7. 0 \in 0..MaxText /\ \A n \in 1..MaxText : n \in 0..MaxText /\ n # 0
  BY <1>0
<1> QED BY <1>6, <1>7

\* The texts of n tokens, for each function of the parser.
Texts(n, fn) == Words[MaxText][n][fn]

\* The table keeps what it has.
LEMMA WordsKept ==
  ASSUME NEW n \in 0..MaxText, NEW k \in 0..n
  PROVE  Words[n][k] = Words[MaxText][k]
<1>0. MaxText \in Nat /\ n \in Nat /\ k \in Nat
  BY TextBound
<1> DEFINE S == {d \in Nat : n + d <= MaxText => Words[n + d][k] = Words[n][k]}
<1>1. 0 \in S
  BY <1>0
<1>2. ASSUME NEW d \in Nat, d < MaxText - n, d \in S PROVE d + 1 \in S
  <2>1. n + (d + 1) \in 1..MaxText /\ n + (d + 1) - 1 = n + d /\ k \in 0..(n + (d + 1)) /\ k # n + (d + 1)
    BY <1>0, <1>2
  <2>2. Words[n + (d + 1)] = WithLevel(Words[n + d], n + (d + 1))
    BY <2>1, WordsDef
  <2>3. Words[n + (d + 1)][k] = Words[n + d][k]
    BY <2>1, <2>2 DEF WithLevel
  <2> QED BY <1>0, <1>2, <2>3
<1>3. MaxText - n \in S
  <2>1. MaxText - n \in Nat
    BY <1>0
  <2> HIDE DEF S
  <2> QED BY <1>1, <1>2, <2>1, Climb
<1>4. n + (MaxText - n) = MaxText
  BY <1>0
<1> QED BY <1>0, <1>3, <1>4

\* The productions, as equations between sets of texts.
LEMMA Productions ==
  /\ \A fn \in Nonterminals : Texts(0, fn) = {}
  /\ \A n \in 1..MaxText :
       \E W : /\ \A k \in 0..(n - 1) : W[k] = Words[MaxText][k]
              /\ Texts(n, "base") = BaseWords(W, n)
              /\ Texts(n, "power") = PowerWords(W, n)
              /\ \A fn \in Chain : Texts(n, fn) = ChainWords(fn, Texts(n, Sub[fn]), W, n)
<1>0. MaxText \in Nat
  BY TextBound
<1>1. ASSUME NEW fn \in Nonterminals PROVE Texts(0, fn) = {}
  <2>1. Words[0][0] = Words[MaxText][0]
    BY <1>0, WordsKept
  <2> QED BY <2>1, WordsDef DEF NoWords, Texts, Nonterminals
<1>2. ASSUME NEW n \in 1..MaxText
      PROVE  \E W : /\ \A k \in 0..(n - 1) : W[k] = Words[MaxText][k]
                    /\ Texts(n, "base") = BaseWords(W, n)
                    /\ Texts(n, "power") = PowerWords(W, n)
                    /\ \A fn \in Chain : Texts(n, fn) = ChainWords(fn, Texts(n, Sub[fn]), W, n)
  <2> DEFINE W == Words[n - 1]
  <2>1. n - 1 \in 0..MaxText /\ n \in 0..MaxText /\ n \in 0..n
    BY <1>0
  <2>2. \A k \in 0..(n - 1) : W[k] = Words[MaxText][k]
    BY <2>1, WordsKept
  <2>3. Words[MaxText][n] = Level(W, n)
    <3>1. Words[n] = WithLevel(W, n)
      BY WordsDef
    <3>2. Words[n][n] = Words[MaxText][n]
      BY <2>1, WordsKept
    <3> QED BY <2>1, <3>1, <3>2 DEF WithLevel
  <2> HIDE DEF W
  <2>4. /\ Texts(n, "base") = BaseWords(W, n)
        /\ Texts(n, "power") = PowerWords(W, n)
        /\ Texts(n, "factor") = ChainWords("factor", Texts(n, "power"), W, n)
        /\ Texts(n, "term") = ChainWords("term", Texts(n, "factor"), W, n)
        /\ Texts(n, "expr") = ChainWords("expr", Texts(n, "term"), W, n)
        /\ Texts(n, "list") = ChainWords("list", Texts(n, "expr"), W, n)
    BY <2>3 DEF Texts, Level
  <2>5. \A fn \in Chain : Texts(n, fn) = ChainWords(fn, Texts(n, Sub[fn]), W, n)
    BY <2>4 DEF Chain, Sub
  <2> QED BY <2>2, <2>4, <2>5
<1> QED BY <1>1, <1>2


(***************************************************************************)
(* Texts of a given length                                                 *)
(***************************************************************************)

\* A text of n tokens; a set of these.
Shaped(v, n) == v \in Seq(AllTokens) /\ Len(v) = n
AllOf(A, n) == \A v \in A : Shaped(v, n)

\* Membership in the concatenation of two languages.
LEMMA CatMember ==
  ASSUME NEW A, NEW B, NEW v
  PROVE  v \in Cat(A, B) <=> \E x \in A, y \in B : v = x \o y
  BY DEF Cat

\* The texts of a concatenation are as long as its parts together.
LEMMA CatShape ==
  ASSUME NEW A, NEW B, NEW i \in Nat, NEW j \in Nat, AllOf(A, i), AllOf(B, j)
  PROVE  AllOf(Cat(A, B), i + j)
<1> SUFFICES ASSUME NEW v \in Cat(A, B) PROVE Shaped(v, i + j)
  BY DEF AllOf
<1>1. PICK x \in A, y \in B : v = x \o y
  BY CatMember
<1>2. Shaped(x, i) /\ Shaped(y, j)
  BY DEF AllOf
<1> QED BY <1>1, <1>2, ConcatProperties DEF Shaped

\* Texts of one token.
LEMMA LettersShape ==
  ASSUME NEW S \in SUBSET AllTokens
  PROVE  AllOf(Letters(S), 1)
<1> SUFFICES ASSUME NEW t \in S PROVE Shaped(<<t>>, 1)
  BY DEF AllOf, Letters
<1>1. t \in AllTokens
  OBVIOUS
<1>2. <<t>> \in Seq(AllTokens) /\ Len(<<t>>) = 1
  BY <1>1
<1> QED BY <1>2 DEF Shaped

\* The tokens the productions mention.
LEMMA GrammarTokens ==
  /\ {"num", "var", "add", "sub", "mul", "pow", "sep", "open", "close"} \subseteq AllTokens
  /\ \A k \in Nat : Functions(k) \subseteq AllTokens
  /\ \A fn \in Chain : Ops[fn] \subseteq AllTokens /\ Sub[fn] \in Nonterminals /\ fn \in Nonterminals
  BY DEF AllTokens, Functions, FunctionTokens, Chain, Ops, Sub, Nonterminals

\* A list in parentheses, and two expressions.
LEMMA ParensShape ==
  ASSUME NEW A, NEW i \in Nat, AllOf(A, i)
  PROVE  AllOf(Parens(A), i + 2)
<1>1. AllOf(Letters({"open"}), 1) /\ AllOf(Letters({"close"}), 1)
  BY LettersShape, GrammarTokens
<1>2. AllOf(Cat(A, Letters({"close"})), i + 1)
  BY <1>1, CatShape
<1>3. AllOf(Parens(A), 1 + (i + 1))
  BY <1>1, <1>2, CatShape DEF Parens
<1> QED BY <1>3

\* Two expressions with a separator between them, in parentheses.
LEMMA PairShape ==
  ASSUME NEW A, NEW B, NEW i \in Nat, NEW j \in Nat, AllOf(A, i), AllOf(B, j)
  PROVE  /\ AllOf(Cat(Letters({"sep"}), B), j + 1)
         /\ AllOf(Cat(A, Cat(Letters({"sep"}), B)), i + j + 1)
         /\ AllOf(Pair(A, B), i + j + 3)
<1>1. AllOf(Letters({"sep"}), 1)
  BY LettersShape, GrammarTokens
<1>2. AllOf(Cat(Letters({"sep"}), B), 1 + j)
  BY <1>1, CatShape
<1>3. 1 + j = j + 1 /\ j + 1 \in Nat /\ i + (j + 1) = i + j + 1 /\ i + j + 1 \in Nat /\ i + j + 1 + 2 = i + j + 3
  OBVIOUS
<1>4. AllOf(Cat(A, Cat(Letters({"sep"}), B)), i + (j + 1))
  BY <1>2, <1>3, CatShape
<1>5. AllOf(Pair(A, B), i + j + 1 + 2)
  BY <1>3, <1>4, ParensShape DEF Pair
<1> QED BY <1>2, <1>3, <1>4, <1>5

\* The table holds, under n, texts of n tokens.
LEMMA TextShape ==
  \A n \in 0..MaxText : \A fn \in Nonterminals : AllOf(Texts(n, fn), n)
<1>0. MaxText \in Nat
  BY TextBound
<1> DEFINE Good(n) == \A fn \in Nonterminals : AllOf(Texts(n, fn), n)
           S == {n \in Nat : n <= MaxText => \A k \in 0..n : Good(k)}
<1>1. Good(0)
  BY Productions DEF AllOf
<1>2. ASSUME NEW n \in 1..MaxText, \A k \in 0..(n - 1) : Good(k) PROVE Good(n)
  <2>1. PICK W : /\ \A k \in 0..(n - 1) : W[k] = Words[MaxText][k]
                 /\ Texts(n, "base") = BaseWords(W, n)
                 /\ Texts(n, "power") = PowerWords(W, n)
                 /\ \A fn \in Chain : Texts(n, fn) = ChainWords(fn, Texts(n, Sub[fn]), W, n)
    BY Productions
  <2>2. \A k \in 0..(n - 1) : \A fn \in Nonterminals : AllOf(W[k][fn], k)
    BY <1>2, <2>1 DEF Texts
  <2>3. \A k \in 0..(n - 1) : /\ AllOf(W[k].power, k)
                              /\ AllOf(W[k].list, k)
                              /\ AllOf(W[k].expr, k)
    BY <2>2 DEF Nonterminals, Chain
  <2>4. n - 1 \in 0..(n - 1) /\ n \in Nat /\ n - 1 \in Nat /\ 1 + (n - 1) = n
    BY <1>0
  <2>5. AllOf(BaseWords(W, n), n)
    <3> SUFFICES ASSUME NEW v \in BaseWords(W, n) PROVE Shaped(v, n)
      BY DEF AllOf
    <3> DEFINE B1 == {x \in Letters({"num", "var"} \cup Functions(0)) : n = 1}
               B2 == {x \in Cat(Letters(Functions(0)), Cat(Letters({"open"}), Letters({"close"}))) : n = 3}
               B3 == Cat(Letters(Functions(1)), W[n - 1].power)
               B4 == UNION {Parens(W[k].list) : k \in {n - 2} \cap Nat}
               B5 == UNION {Cat(Letters(Functions(2)), Pair(W[k].expr, W[n - 4 - k].expr)) :
                            k \in 1..(n - 5)}
    <3>1. CASE v \in B1
      <4>1. AllOf(Letters({"num", "var"} \cup Functions(0)), 1)
        BY LettersShape, GrammarTokens
      <4> QED BY <3>1, <4>1 DEF AllOf
    <3>2. CASE v \in B2
      <4>1. AllOf(Letters(Functions(0)), 1) /\ AllOf(Letters({"open"}), 1) /\ AllOf(Letters({"close"}), 1)
        BY LettersShape, GrammarTokens
      <4>2. AllOf(Cat(Letters({"open"}), Letters({"close"})), 1 + 1)
        BY <4>1, CatShape
      <4>3. AllOf(Cat(Letters(Functions(0)), Cat(Letters({"open"}), Letters({"close"}))), 1 + (1 + 1))
        BY <4>1, <4>2, CatShape
      <4> QED BY <3>2, <4>3 DEF AllOf
    <3>3. CASE v \in B3
      <4>1. AllOf(Letters(Functions(1)), 1) /\ AllOf(W[n - 1].power, n - 1)
        BY <2>3, <2>4, LettersShape, GrammarTokens
      <4>2. AllOf(Cat(Letters(Functions(1)), W[n - 1].power), 1 + (n - 1))
        BY <2>4, <4>1, CatShape
      <4> QED BY <2>4, <3>3, <4>2 DEF AllOf
    <3>4. CASE v \in B4
      <4>1. PICK k \in {n - 2} \cap Nat : v \in Parens(W[k].list)
        BY <3>4
      <4>2. k \in 0..(n - 1) /\ k \in Nat /\ k + 2 = n
        BY <2>4
      <4>3. AllOf(Parens(W[k].list), k + 2)
        BY <2>3, <4>2, ParensShape
      <4> QED BY <4>1, <4>2, <4>3 DEF AllOf
    <3>5. CASE v \in B5
      <4>1. PICK k \in 1..(n - 5) : v \in Cat(Letters(Functions(2)), Pair(W[k].expr, W[n - 4 - k].expr))
        BY <3>5
      <4>2. /\ k \in 0..(n - 1) /\ k \in Nat /\ n - 4 - k \in 0..(n - 1) /\ n - 4 - k \in Nat
            /\ k + (n - 4 - k) + 3 \in Nat /\ 1 + (k + (n - 4 - k) + 3) = n
        BY <2>4
      <4>3. AllOf(Letters(Functions(2)), 1)
        BY LettersShape, GrammarTokens
      <4>4. AllOf(Pair(W[k].expr, W[n - 4 - k].expr), k + (n - 4 - k) + 3)
        BY <2>3, <4>2, PairShape
      <4>5. AllOf(Cat(Letters(Functions(2)), Pair(W[k].expr, W[n - 4 - k].expr)), 1 + (k + (n - 4 - k) + 3))
        BY <4>2, <4>3, <4>4, CatShape
      <4> QED BY <4>1, <4>2, <4>5 DEF AllOf
    <3>6. v \in B1 \cup B2 \cup B3 \cup B4 \cup B5
      BY Zenon DEF BaseWords
    <3> HIDE DEF B1, B2, B3, B4, B5
    <3> QED BY <3>1, <3>2, <3>3, <3>4, <3>5, <3>6
  <2>6. AllOf(PowerWords(W, n), n)
    <3>1. AllOf(Letters({"add", "sub"}), 1) /\ AllOf(W[n - 1].power, n - 1)
      BY <2>3, <2>4, LettersShape, GrammarTokens
    <3>2. AllOf(Cat(Letters({"add", "sub"}), W[n - 1].power), 1 + (n - 1))
      BY <2>4, <3>1, CatShape
    <3> QED BY <2>4, <2>5, <3>2 DEF PowerWords, AllOf
  <2>7. ASSUME NEW fn \in Chain, AllOf(Texts(n, Sub[fn]), n)
        PROVE  AllOf(Texts(n, fn), n)
    <3> SUFFICES ASSUME NEW v \in ChainWords(fn, Texts(n, Sub[fn]), W, n) PROVE Shaped(v, n)
      BY <2>1 DEF AllOf
    <3>1. CASE v \in UNION {Cat(W[k][Sub[fn]], Cat(Letters(Ops[fn]), W[n - 1 - k][fn])) : k \in 1..(n - 2)}
      <4>1. PICK k \in 1..(n - 2) : v \in Cat(W[k][Sub[fn]], Cat(Letters(Ops[fn]), W[n - 1 - k][fn]))
        BY <3>1
      <4>2. /\ k \in 0..(n - 1) /\ k \in Nat /\ n - 1 - k \in 0..(n - 1) /\ n - 1 - k \in Nat
            /\ k + (1 + (n - 1 - k)) = n /\ 1 + (n - 1 - k) \in Nat
        BY <2>4
      <4>3. AllOf(Letters(Ops[fn]), 1) /\ AllOf(W[k][Sub[fn]], k) /\ AllOf(W[n - 1 - k][fn], n - 1 - k)
        BY <2>2, <4>2, LettersShape, GrammarTokens
      <4>4. AllOf(Cat(Letters(Ops[fn]), W[n - 1 - k][fn]), 1 + (n - 1 - k))
        BY <4>2, <4>3, CatShape
      <4>5. AllOf(Cat(W[k][Sub[fn]], Cat(Letters(Ops[fn]), W[n - 1 - k][fn])), k + (1 + (n - 1 - k)))
        BY <4>2, <4>3, <4>4, CatShape
      <4> QED BY <4>1, <4>2, <4>5 DEF AllOf
    <3>2. CASE v \in Texts(n, Sub[fn])
      BY <2>7, <3>2 DEF AllOf
    <3> QED BY <3>1, <3>2 DEF ChainWords
  <2>8. AllOf(Texts(n, "base"), n) /\ AllOf(Texts(n, "power"), n)
    BY <2>1, <2>5, <2>6
  <2>9. AllOf(Texts(n, "factor"), n)
    BY <2>7, <2>8 DEF Chain, Sub
  <2>10. AllOf(Texts(n, "term"), n)
    BY <2>7, <2>9 DEF Chain, Sub
  <2>11. AllOf(Texts(n, "expr"), n)
    BY <2>7, <2>10 DEF Chain, Sub
  <2>12. AllOf(Texts(n, "list"), n)
    BY <2>7, <2>11 DEF Chain, Sub
  <2> QED BY <2>8, <2>9, <2>10, <2>11, <2>12 DEF Nonterminals, Chain
<1> HIDE DEF Good
<1>3. 0 \in S
  BY <1>1
<1>4. ASSUME NEW n \in Nat, n < MaxText, n \in S PROVE n + 1 \in S
  <2>1. n <= MaxText /\ n + 1 \in 1..MaxText /\ (n + 1) - 1 = n
    BY <1>0, <1>4
  <2>2. \A k \in 0..n : Good(k)
    BY <1>4, <2>1
  <2>3. Good(n + 1)
    BY <2>1, <2>2, <1>2
  <2>4. \A k \in 0..(n + 1) : k \in 0..n \/ k = n + 1
    OBVIOUS
  <2>5. \A k \in 0..(n + 1) : Good(k)
    BY <2>2, <2>3, <2>4
  <2> QED BY <2>5
<1>5. MaxText \in S
  <2> HIDE DEF S
  <2> QED BY <1>0, <1>3, <1>4, Climb
<1>6. \A n \in 0..MaxText : Good(n)
  BY <1>0, <1>5
<1> QED BY <1>6 DEF Good

(***************************************************************************)
(* Parts of a text                                                         *)
(***************************************************************************)

\* The texts that the bound allows, and the part of a text from s up to e.
Inputs == {w \in Seq(AllTokens) : Len(w) <= MaxText}
Span(w, s, e) == SubSeq(w, s, e - 1)

\* The tokens from s up to e are what the function fn is to read.
Der(w, fn, s, e) == s <= e /\ Span(w, s, e) \in Texts(e - s, fn)

\* The tokens of a part.
LEMMA SpanShape ==
  ASSUME NEW w \in Seq(AllTokens), NEW s \in Int, NEW e \in Int, 1 <= s, s <= e, e <= Len(w) + 1
  PROVE  /\ Shaped(Span(w, s, e), e - s)
         /\ \A i \in 1..(e - s) : Span(w, s, e)[i] = w[s + i - 1]
<1>1. Len(w) \in Nat /\ \A i \in s..(e - 1) : w[i] \in AllTokens
  BY ElementOfSeq
<1>2. e - 1 \in Int /\ (e - 1) - s + 1 = e - s /\ (~(s <= e - 1) => e - s = 0)
  OBVIOUS
<1>3. /\ SubSeq(w, s, e - 1) \in Seq(AllTokens)
      /\ Len(SubSeq(w, s, e - 1)) = IF s <= e - 1 THEN (e - 1) - s + 1 ELSE 0
      /\ \A i \in 1..((e - 1) - s + 1) : SubSeq(w, s, e - 1)[i] = w[s + i - 1]
  BY <1>1, <1>2, SubSeqProperties
<1> QED BY <1>2, <1>3 DEF Span, Shaped

\* A part is made of two where it can be cut.
LEMMA SpanCat ==
  ASSUME NEW w \in Seq(AllTokens), NEW s \in Nat, NEW i \in Nat, NEW j \in Nat,
         1 <= s, s + i + j <= Len(w) + 1,
         NEW A, NEW B, AllOf(A, i), AllOf(B, j)
  PROVE  Span(w, s, s + i + j) \in Cat(A, B)
           <=> Span(w, s, s + i) \in A /\ Span(w, s + i, s + i + j) \in B
<1> DEFINE x == Span(w, s, s + i)
           y == Span(w, s + i, s + i + j)
           z == Span(w, s, s + i + j)
<1>0. Len(w) \in Nat /\ s + i \in Nat /\ s + i + j \in Nat
  OBVIOUS
<1>1. Shaped(x, i) /\ \A k \in 1..i : x[k] = w[s + k - 1]
  <2>1. (s + i) - s = i /\ s + i <= Len(w) + 1 /\ s <= s + i
    BY <1>0
  <2> QED BY <1>0, <2>1, SpanShape
<1>2. Shaped(y, j) /\ \A k \in 1..j : y[k] = w[s + i + k - 1]
  <2>1. (s + i + j) - (s + i) = j /\ 1 <= s + i /\ s + i <= s + i + j
    BY <1>0
  <2> QED BY <1>0, <2>1, SpanShape
<1>3. Shaped(z, i + j) /\ \A k \in 1..(i + j) : z[k] = w[s + k - 1]
  <2>1. (s + i + j) - s = i + j /\ s <= s + i + j
    BY <1>0
  <2> QED BY <1>0, <2>1, SpanShape
<1> HIDE DEF x, y, z
<1>4. z = x \o y
  <2>1. /\ x \o y \in Seq(AllTokens) /\ Len(x \o y) = i + j
        /\ \A k \in 1..(i + j) : (x \o y)[k] = IF k <= i THEN x[k] ELSE y[k - i]
    BY <1>1, <1>2, ConcatProperties DEF Shaped
  <2>2. ASSUME NEW k \in 1..(i + j) PROVE z[k] = (x \o y)[k]
    <3>1. CASE k <= i
      BY <1>1, <1>3, <2>1, <3>1
    <3>2. CASE ~(k <= i)
      <4>1. k - i \in 1..j /\ s + i + (k - i) - 1 = s + k - 1
        BY <3>2
      <4> QED BY <1>2, <1>3, <2>1, <3>2, <4>1
    <3> QED BY <3>1, <3>2
  <2> QED BY <1>3, <2>1, <2>2, SeqEqual DEF Shaped
<1>5. ASSUME NEW u \in A, NEW v \in B, z = u \o v PROVE x = u /\ y = v
  <2>1. Shaped(u, i) /\ Shaped(v, j)
    BY DEF AllOf
  <2>2. \A k \in 1..(i + j) : (u \o v)[k] = IF k <= i THEN u[k] ELSE v[k - i]
    BY <2>1, ConcatProperties DEF Shaped
  <2>3. ASSUME NEW k \in 1..i PROVE x[k] = u[k]
    <3>1. k \in 1..(i + j) /\ k <= i
      OBVIOUS
    <3> QED BY <1>1, <1>3, <1>5, <2>2, <3>1
  <2>4. ASSUME NEW k \in 1..j PROVE y[k] = v[k]
    <3>1. k + i \in 1..(i + j) /\ ~(k + i <= i) /\ (k + i) - i = k /\ s + (k + i) - 1 = s + i + k - 1
      BY <1>0
    <3>2. z[k + i] = v[k]
      BY <1>5, <2>2, <3>1
    <3>3. z[k + i] = y[k]
      BY <1>2, <1>3, <3>1
    <3> QED BY <3>2, <3>3
  <2>5. x = u
    BY <1>1, <2>1, <2>3, SeqEqual DEF Shaped
  <2>6. y = v
    BY <1>2, <2>1, <2>4, SeqEqual DEF Shaped
  <2> QED BY <2>5, <2>6
<1>6. x \in A /\ y \in B => z \in Cat(A, B)
  BY <1>4, CatMember
<1>7. ASSUME z \in Cat(A, B) PROVE x \in A /\ y \in B
  <2>1. PICK u \in A, v \in B : z = u \o v
    BY <1>7, CatMember
  <2> QED BY <1>5, <2>1
<1> QED BY <1>6, <1>7 DEF x, y, z

\* A part of one token.
LEMMA SpanLetter ==
  ASSUME NEW w \in Seq(AllTokens), NEW s \in 1..Len(w), NEW S
  PROVE  Span(w, s, s + 1) \in Letters(S) <=> w[s] \in S
<1>0. Len(w) \in Nat /\ (s + 1) - s = 1 /\ s + 1 - 1 = s
  OBVIOUS
<1>1. Shaped(Span(w, s, s + 1), 1) /\ \A i \in 1..1 : Span(w, s, s + 1)[i] = w[s + i - 1]
  BY <1>0, SpanShape
<1>2. Span(w, s, s + 1)[1] = w[s]
  BY <1>0, <1>1
<1>3. Span(w, s, s + 1) = <<w[s]>>
  BY <1>1, <1>2 DEF Shaped
<1> QED BY <1>3 DEF Letters

\* A part in parentheses.
LEMMA SpanParens ==
  ASSUME NEW w \in Seq(AllTokens), NEW s \in Nat, NEW i \in Nat, 1 <= s, s + i + 1 <= Len(w),
         NEW A, AllOf(A, i)
  PROVE  Span(w, s, s + i + 2) \in Parens(A)
           <=> w[s] = "open" /\ Span(w, s + 1, s + i + 1) \in A /\ w[s + i + 1] = "close"
<1>0. /\ Len(w) \in Nat /\ s + 1 \in Nat /\ 1 <= s + 1 /\ s + 1 + i \in Nat /\ i + 1 \in Nat
      /\ s + 1 + (i + 1) = s + i + 2 /\ s + 1 + i + 1 = s + i + 2 /\ s + 1 + i = s + i + 1
      /\ s + i + 2 <= Len(w) + 1 /\ s \in 1..Len(w) /\ s + i + 1 \in 1..Len(w)
  OBVIOUS
<1>1. AllOf(Letters({"open"}), 1) /\ AllOf(Letters({"close"}), 1)
  BY LettersShape, GrammarTokens
<1>2. AllOf(Cat(A, Letters({"close"})), i + 1)
  BY <1>1, CatShape
<1>3. Span(w, s, s + 1 + (i + 1)) \in Parens(A)
        <=> Span(w, s, s + 1) \in Letters({"open"})
            /\ Span(w, s + 1, s + 1 + (i + 1)) \in Cat(A, Letters({"close"}))
  <2> DEFINE C == Cat(A, Letters({"close"}))
             O == Letters({"open"})
  <2>1. 1 \in Nat /\ s + 1 + (i + 1) <= Len(w) + 1 /\ AllOf(C, i + 1) /\ AllOf(O, 1)
    BY <1>0, <1>1, <1>2
  <2> HIDE DEF C, O
  <2>2. Span(w, s, s + 1 + (i + 1)) \in Cat(O, C)
          <=> Span(w, s, s + 1) \in O /\ Span(w, s + 1, s + 1 + (i + 1)) \in C
    BY <1>0, <2>1, SpanCat
  <2> QED BY <2>2 DEF C, O, Parens
<1>4. Span(w, s + 1, s + 1 + i + 1) \in Cat(A, Letters({"close"}))
        <=> Span(w, s + 1, s + 1 + i) \in A /\ Span(w, s + 1 + i, s + 1 + i + 1) \in Letters({"close"})
  BY <1>0, <1>1, SpanCat
<1>5. Span(w, s, s + 1) \in Letters({"open"}) <=> w[s] = "open"
  BY <1>0, SpanLetter
<1>6. Span(w, s + i + 1, s + i + 1 + 1) \in Letters({"close"}) <=> w[s + i + 1] = "close"
  BY <1>0, SpanLetter
<1> QED BY <1>0, <1>3, <1>4, <1>5, <1>6

\* Two parts in parentheses.
LEMMA SpanPair ==
  ASSUME NEW w \in Seq(AllTokens), NEW s \in Nat, NEW i \in Nat, NEW j \in Nat,
         1 <= s, s + i + j + 2 <= Len(w),
         NEW A, NEW B, AllOf(A, i), AllOf(B, j)
  PROVE  Span(w, s, s + i + j + 3) \in Pair(A, B)
           <=> /\ w[s] = "open" /\ Span(w, s + 1, s + i + 1) \in A /\ w[s + i + 1] = "sep"
               /\ Span(w, s + i + 2, s + i + j + 2) \in B /\ w[s + i + j + 2] = "close"
<1> DEFINE C == Cat(Letters({"sep"}), B)
           m == s + 1 + i
<1>0. /\ Len(w) \in Nat /\ m \in Nat /\ 1 <= s + 1 /\ s + 1 \in Nat /\ j + 1 \in Nat /\ i + j + 1 \in Nat
      /\ s + (i + j + 1) + 2 = s + i + j + 3 /\ s + (i + j + 1) + 1 = s + i + j + 2
      /\ s + 1 + i + (j + 1) = s + i + j + 2 /\ m = s + i + 1 /\ m + 1 + j = s + i + j + 2
      /\ m + 1 = s + i + 2 /\ m \in 1..Len(w) /\ 1 <= m
  OBVIOUS
<1>1. AllOf(Letters({"sep"}), 1) /\ AllOf(C, j + 1) /\ AllOf(Cat(A, C), i + j + 1)
  BY LettersShape, GrammarTokens, PairShape
<1>2. Span(w, s, s + (i + j + 1) + 2) \in Pair(A, B)
        <=> w[s] = "open" /\ Span(w, s + 1, s + (i + j + 1) + 1) \in Cat(A, C)
            /\ w[s + (i + j + 1) + 1] = "close"
  BY <1>0, <1>1, SpanParens DEF Pair
<1>3. Span(w, s + 1, s + 1 + i + (j + 1)) \in Cat(A, C)
        <=> Span(w, s + 1, m) \in A /\ Span(w, m, s + 1 + i + (j + 1)) \in C
  <2>1. s + 1 + i + (j + 1) <= Len(w) + 1
    BY <1>0
  <2> HIDE DEF C
  <2> QED BY <1>0, <1>1, <2>1, SpanCat
<1>4. Span(w, m, m + 1 + j) \in C
        <=> Span(w, m, m + 1) \in Letters({"sep"}) /\ Span(w, m + 1, m + 1 + j) \in B
  <2>1. m + 1 + j <= Len(w) + 1 /\ 1 \in Nat
    BY <1>0
  <2> HIDE DEF m
  <2> QED BY <1>0, <1>1, <2>1, SpanCat DEF C
<1>5. Span(w, m, m + 1) \in Letters({"sep"}) <=> w[m] = "sep"
  <2> HIDE DEF m
  <2> QED BY <1>0, SpanLetter
<1> HIDE DEF m, C
<1> QED BY <1>0, <1>2, <1>3, <1>4, <1>5

\* A text of the grammar has a token at least.
LEMMA DerLonger ==
  ASSUME NEW w \in Inputs, NEW fn \in Nonterminals, NEW s \in Nat, NEW e \in Nat, Der(w, fn, s, e)
  PROVE  s < e
<1>1. CASE s = e
  <2>1. e - s = 0
    BY <1>1
  <2> QED BY <2>1, Productions DEF Der
<1> QED BY <1>1 DEF Der

\* What <base> is, token by token.
LEMMA BaseSpan ==
  ASSUME NEW w \in Inputs, NEW s \in Nat, NEW e \in Nat, 1 <= s, s <= e, e <= Len(w) + 1
  PROVE  Der(w, "base", s, e)
           <=> \/ e = s + 1 /\ w[s] \in {"num", "var"} \cup Functions(0)
               \/ e = s + 3 /\ w[s] \in Functions(0) /\ w[s + 1] = "open" /\ w[s + 2] = "close"
               \/ s < e /\ w[s] \in Functions(1) /\ Der(w, "power", s + 1, e)
               \/ s + 2 <= e /\ w[s] = "open" /\ Der(w, "list", s + 1, e - 1) /\ w[e - 1] = "close"
               \/ \E m \in (s + 2)..(e - 2) :
                    /\ w[s] \in Functions(2) /\ w[s + 1] = "open" /\ Der(w, "expr", s + 2, m)
                    /\ w[m] = "sep" /\ Der(w, "expr", m + 1, e - 1) /\ w[e - 1] = "close"
<1>0. w \in Seq(AllTokens) /\ Len(w) \in Nat /\ Len(w) <= MaxText /\ MaxText \in Nat
  BY TextBound DEF Inputs
<1>1. CASE s = e
  <2>1. ~ Der(w, "base", s, e)
    BY <1>1, DerLonger DEF Nonterminals
  <2> QED BY <1>1, <2>1
<1>2. CASE s < e
  <2> DEFINE n == e - s
             z == Span(w, s, e)
  <2>0. n \in 1..MaxText /\ n \in Nat /\ e = s + n /\ s \in 1..Len(w)
    BY <1>0, <1>2
  <2> HIDE DEF n
  <2>1. PICK W : /\ \A k \in 0..(n - 1) : W[k] = Words[MaxText][k]
                 /\ Texts(n, "base") = BaseWords(W, n)
    BY <2>0, Productions
  <2>2. \A k \in 0..(n - 1) : /\ W[k].power = Texts(k, "power") /\ W[k].list = Texts(k, "list")
                              /\ W[k].expr = Texts(k, "expr")
    BY <2>1 DEF Texts
  <2>3. \A k \in 0..(n - 1) : /\ AllOf(Texts(k, "power"), k) /\ AllOf(Texts(k, "list"), k)
                              /\ AllOf(Texts(k, "expr"), k)
    BY <1>0, <2>0, TextShape DEF Nonterminals, Chain
  <2> DEFINE B1 == {x \in Letters({"num", "var"} \cup Functions(0)) : n = 1}
             B2 == {x \in Cat(Letters(Functions(0)), Cat(Letters({"open"}), Letters({"close"}))) : n = 3}
             B3 == Cat(Letters(Functions(1)), W[n - 1].power)
             B4 == UNION {Parens(W[k].list) : k \in {n - 2} \cap Nat}
             B5 == UNION {Cat(Letters(Functions(2)), Pair(W[k].expr, W[n - 4 - k].expr)) :
                          k \in 1..(n - 5)}
  <2>4. Der(w, "base", s, e) <=> z \in B1 \/ z \in B2 \/ z \in B3 \/ z \in B4 \/ z \in B5
    <3>1. z \in BaseWords(W, n) <=> z \in B1 \cup B2 \cup B3 \cup B4 \cup B5
      BY Zenon DEF BaseWords
    <3>2. Der(w, "base", s, e) <=> z \in BaseWords(W, n)
      BY <1>2, <2>1 DEF Der, n
    <3> HIDE DEF B1, B2, B3, B4, B5, z
    <3> QED BY <3>1, <3>2
  <2>5. z \in B1 <=> e = s + 1 /\ w[s] \in {"num", "var"} \cup Functions(0)
    <3>1. CASE n = 1
      <4>1. e = s + 1
        BY <2>0, <3>1
      <4>2. z \in Letters({"num", "var"} \cup Functions(0)) <=> w[s] \in {"num", "var"} \cup Functions(0)
        BY <1>0, <2>0, <4>1, SpanLetter
      <4> QED BY <3>1, <4>1, <4>2
    <3>2. CASE n # 1
      BY <2>0, <3>2
    <3> QED BY <3>1, <3>2
  <2>6. z \in B2 <=> e = s + 3 /\ w[s] \in Functions(0) /\ w[s + 1] = "open" /\ w[s + 2] = "close"
    <3>1. CASE n = 3
      <4>1. e = s + 3 /\ e = s + 1 + (1 + 1) /\ e = s + 1 + 1 + 1 /\ s + 1 \in 1..Len(w) /\ s + 2 \in 1..Len(w)
            /\ s + 1 + 1 = s + 2 /\ 1 \in Nat /\ 1 + 1 \in Nat /\ s + 1 \in Nat /\ 1 <= s + 1
        BY <1>0, <2>0, <3>1
      <4> DEFINE F == Letters(Functions(0))
                 O == Letters({"open"})
                 C == Letters({"close"})
      <4>2. AllOf(F, 1) /\ AllOf(O, 1) /\ AllOf(C, 1)
        BY LettersShape, GrammarTokens
      <4>3. (Span(w, s, s + 1) \in F <=> w[s] \in Functions(0))
            /\ (Span(w, s + 1, s + 1 + 1) \in O <=> w[s + 1] = "open")
            /\ (Span(w, s + 2, s + 2 + 1) \in C <=> w[s + 2] = "close")
        BY <1>0, <2>0, <4>1, SpanLetter
      <4> HIDE DEF F, O, C
      <4>4. AllOf(Cat(O, C), 1 + 1)
        BY <4>2, CatShape
      <4>5. Span(w, s, s + 1 + (1 + 1)) \in Cat(F, Cat(O, C))
              <=> Span(w, s, s + 1) \in F /\ Span(w, s + 1, s + 1 + (1 + 1)) \in Cat(O, C)
        <5>1. s + 1 + (1 + 1) <= Len(w) + 1
          BY <4>1
        <5> QED BY <1>0, <4>1, <4>2, <4>4, <5>1, SpanCat
      <4>6. Span(w, s + 1, s + 1 + 1 + 1) \in Cat(O, C)
              <=> Span(w, s + 1, s + 1 + 1) \in O /\ Span(w, s + 1 + 1, s + 1 + 1 + 1) \in C
        <5>1. s + 1 + 1 + 1 <= Len(w) + 1
          BY <4>1
        <5> QED BY <1>0, <4>1, <4>2, <5>1, SpanCat
      <4>7. s + 1 + 1 = s + 2 /\ s + 1 + (1 + 1) = e /\ s + 1 + 1 + 1 = e /\ s + 2 + 1 = e
        BY <4>1
      <4>8. z \in Cat(F, Cat(O, C)) <=> w[s] \in Functions(0) /\ w[s + 1] = "open" /\ w[s + 2] = "close"
        BY <4>3, <4>5, <4>6, <4>7
      <4> QED BY <3>1, <4>1, <4>8 DEF F, O, C
    <3>2. CASE n # 3
      BY <2>0, <3>2
    <3> QED BY <3>1, <3>2
  <2>7. z \in B3 <=> w[s] \in Functions(1) /\ Der(w, "power", s + 1, e)
    <3> DEFINE F == Letters(Functions(1))
               P == Texts(n - 1, "power")
    <3>1. AllOf(F, 1) /\ (Span(w, s, s + 1) \in F <=> w[s] \in Functions(1))
      BY <1>0, <2>0, LettersShape, GrammarTokens, SpanLetter
    <3>2. n - 1 \in 0..(n - 1) /\ n - 1 \in Nat /\ s + 1 + (n - 1) = e /\ e - (s + 1) = n - 1 /\ s + 1 <= e
          /\ s + 1 + (n - 1) <= Len(w) + 1 /\ 1 \in Nat
      BY <2>0, <1>2
    <3>3. AllOf(P, n - 1) /\ W[n - 1].power = P
      BY <2>2, <2>3, <3>2
    <3>4. Der(w, "power", s + 1, e) <=> Span(w, s + 1, e) \in P
      BY <3>2 DEF Der
    <3>5. B3 = Cat(F, P)
      BY <3>3
    <3> HIDE DEF F, P, B3
    <3>6. Span(w, s, s + 1 + (n - 1)) \in Cat(F, P)
            <=> Span(w, s, s + 1) \in F /\ Span(w, s + 1, s + 1 + (n - 1)) \in P
      BY <1>0, <3>1, <3>2, <3>3, SpanCat
    <3> QED BY <3>1, <3>2, <3>4, <3>5, <3>6
  <2>8. z \in B4 <=> s + 2 <= e /\ w[s] = "open" /\ Der(w, "list", s + 1, e - 1) /\ w[e - 1] = "close"
    <3>1. CASE n < 2
      <4>1. B4 = {}
        BY <2>0, <3>1
      <4> QED BY <2>0, <3>1, <4>1
    <3>2. CASE n >= 2
      <4> DEFINE k == n - 2
                 L == Texts(k, "list")
      <4>1. k \in Nat /\ k \in 0..(n - 1) /\ s + k + 2 = e /\ s + k + 1 = e - 1 /\ e - 1 - (s + 1) = k
            /\ s + 1 <= e - 1 /\ s + k + 1 <= Len(w) /\ s + 2 <= e
        BY <1>0, <2>0, <3>2
      <4>2. B4 = Parens(L)
        <5>1. {n - 2} \cap Nat = {k}
          BY <4>1
        <5>2. W[k].list = L
          BY <2>2, <4>1
        <5> HIDE DEF k, L
        <5>3. B4 = UNION {Parens(W[j].list) : j \in {k}}
          BY <5>1
        <5>4. UNION {Parens(W[j].list) : j \in {k}} = Parens(W[k].list)
          OBVIOUS
        <5> QED BY <5>2, <5>3, <5>4
      <4>3. AllOf(L, k)
        BY <2>3, <4>1
      <4>4. Der(w, "list", s + 1, e - 1) <=> Span(w, s + 1, e - 1) \in L
        BY <4>1 DEF Der
      <4> HIDE DEF k, L, B4
      <4>5. Span(w, s, s + k + 2) \in Parens(L)
              <=> w[s] = "open" /\ Span(w, s + 1, s + k + 1) \in L /\ w[s + k + 1] = "close"
        BY <1>0, <4>1, <4>3, SpanParens
      <4> QED BY <4>1, <4>2, <4>4, <4>5
    <3> QED BY <2>0, <3>1, <3>2
  <2>9. z \in B5 <=> \E m \in (s + 2)..(e - 2) :
                       /\ w[s] \in Functions(2) /\ w[s + 1] = "open" /\ Der(w, "expr", s + 2, m)
                       /\ w[m] = "sep" /\ Der(w, "expr", m + 1, e - 1) /\ w[e - 1] = "close"
    <3> DEFINE F == Letters(Functions(2))
               Part(m) == /\ w[s] \in Functions(2) /\ w[s + 1] = "open" /\ Der(w, "expr", s + 2, m)
                          /\ w[m] = "sep" /\ Der(w, "expr", m + 1, e - 1) /\ w[e - 1] = "close"
    <3>1. ASSUME NEW k \in 1..(n - 5)
          PROVE  z \in Cat(F, Pair(W[k].expr, W[n - 4 - k].expr)) <=> Part(s + 2 + k)
      <4> DEFINE j == n - 4 - k
                 A == Texts(k, "expr")
                 B == Texts(j, "expr")
                 m == s + 2 + k
                 t == s + 1
      <4>1. /\ k \in Nat /\ j \in Nat /\ k \in 0..(n - 1) /\ j \in 0..(n - 1) /\ k + j + 3 \in Nat /\ 1 \in Nat
            /\ s + 1 + (k + j + 3) = e /\ t \in Nat /\ 1 <= t /\ t + k + j + 3 = e /\ t + k + j + 2 <= Len(w)
            /\ t + 1 = s + 2 /\ t + k + 1 = m /\ t + k + 2 = m + 1 /\ t + k + j + 2 = e - 1
            /\ m - (s + 2) = k /\ (e - 1) - (m + 1) = j /\ s + 2 <= m /\ m + 1 <= e - 1
            /\ s + 1 + (k + j + 3) <= Len(w) + 1
        BY <1>0, <2>0
      <4>2. AllOf(A, k) /\ AllOf(B, j) /\ W[k].expr = A /\ W[n - 4 - k].expr = B
        BY <2>2, <2>3, <4>1
      <4>3. AllOf(F, 1) /\ (Span(w, s, s + 1) \in F <=> w[s] \in Functions(2))
        BY <1>0, <2>0, LettersShape, GrammarTokens, SpanLetter
      <4>4. (Der(w, "expr", s + 2, m) <=> Span(w, s + 2, m) \in A)
            /\ (Der(w, "expr", m + 1, e - 1) <=> Span(w, m + 1, e - 1) \in B)
        BY <4>1 DEF Der
      <4> HIDE DEF F, A, B, j, m
      <4>5. AllOf(Pair(A, B), k + j + 3)
        BY <4>1, <4>2, PairShape
      <4>6. Span(w, s, s + 1 + (k + j + 3)) \in Cat(F, Pair(A, B))
              <=> Span(w, s, s + 1) \in F /\ Span(w, s + 1, s + 1 + (k + j + 3)) \in Pair(A, B)
        BY <1>0, <4>1, <4>3, <4>5, SpanCat
      <4>7. Span(w, t, t + k + j + 3) \in Pair(A, B)
              <=> /\ w[t] = "open" /\ Span(w, t + 1, t + k + 1) \in A /\ w[t + k + 1] = "sep"
                  /\ Span(w, t + k + 2, t + k + j + 2) \in B /\ w[t + k + j + 2] = "close"
        <5> HIDE DEF t
        <5> QED BY <1>0, <4>1, <4>2, SpanPair
      <4>8. z \in Cat(F, Pair(A, B)) <=> Part(m)
        BY <4>1, <4>3, <4>4, <4>6, <4>7
      <4> QED BY <4>2, <4>8 DEF m
    <3>2. ASSUME NEW m \in (s + 2)..(e - 2), Part(m)
          PROVE  \E k \in 1..(n - 5) : m = s + 2 + k
      <4>1. s + 2 < m
        BY <1>0, <3>2, DerLonger DEF Nonterminals, Chain
      <4>2. m + 1 < e - 1
        BY <1>0, <3>2, DerLonger DEF Nonterminals, Chain
      <4>3. m - s - 2 \in 1..(n - 5) /\ m = s + 2 + (m - s - 2)
        BY <4>1, <4>2, <2>0
      <4> QED BY <4>3
    <3>3. \A k \in 1..(n - 5) : s + 2 + k \in (s + 2)..(e - 2)
      BY <2>0
    <3>4. z \in B5 <=> \E k \in 1..(n - 5) : z \in Cat(F, Pair(W[k].expr, W[n - 4 - k].expr))
      <4> HIDE DEF F, z
      <4> QED BY DEF F
    <3>5. z \in B5 <=> \E k \in 1..(n - 5) : Part(s + 2 + k)
      <4> HIDE DEF Part, z, B5, F
      <4> QED BY <3>1, <3>4
    <3> HIDE DEF z, B5
    <3>6. z \in B5 <=> \E m \in (s + 2)..(e - 2) : Part(m)
      <4> HIDE DEF Part
      <4> QED BY <3>2, <3>3, <3>5
    <3> QED BY <3>6
  <2> HIDE DEF B1, B2, B3, B4, B5, z
  <2> QED BY <1>2, <2>4, <2>5, <2>6, <2>7, <2>8, <2>9
<1> QED BY <1>1, <1>2

\* What <power> is.
LEMMA PowerSpan ==
  ASSUME NEW w \in Inputs, NEW s \in Nat, NEW e \in Nat, 1 <= s, s <= e, e <= Len(w) + 1
  PROVE  Der(w, "power", s, e)
           <=> \/ Der(w, "base", s, e)
               \/ s < e /\ w[s] \in {"add", "sub"} /\ Der(w, "power", s + 1, e)
<1>0. w \in Seq(AllTokens) /\ Len(w) \in Nat /\ Len(w) <= MaxText /\ MaxText \in Nat
  BY TextBound DEF Inputs
<1>1. CASE s = e
  <2>1. ~ Der(w, "base", s, e)
    BY <1>1, DerLonger DEF Nonterminals
  <2>2. ~ Der(w, "power", s, e)
    BY <1>1, DerLonger DEF Nonterminals
  <2> QED BY <1>1, <2>1, <2>2
<1>2. CASE s < e
  <2> DEFINE n == e - s
             z == Span(w, s, e)
             F == Letters({"add", "sub"})
             P == Texts(n - 1, "power")
  <2>0. n \in 1..MaxText /\ n \in Nat /\ e = s + n /\ s \in 1..Len(w) /\ n - 1 \in 0..(n - 1) /\ n - 1 \in 0..MaxText
        /\ n - 1 \in Nat /\ s + 1 + (n - 1) = e /\ e - (s + 1) = n - 1 /\ s + 1 <= e
        /\ s + 1 + (n - 1) <= Len(w) + 1 /\ 1 \in Nat
    BY <1>0, <1>2
  <2> HIDE DEF n
  <2>1. PICK W : /\ \A k \in 0..(n - 1) : W[k] = Words[MaxText][k]
                 /\ Texts(n, "base") = BaseWords(W, n)
                 /\ Texts(n, "power") = PowerWords(W, n)
    BY <2>0, Productions
  <2>2. Texts(n, "power") = Texts(n, "base") \cup Cat(F, P)
    BY <2>0, <2>1 DEF PowerWords, Texts
  <2>3. AllOf(P, n - 1) /\ AllOf(F, 1) /\ (Span(w, s, s + 1) \in F <=> w[s] \in {"add", "sub"})
    BY <1>0, <2>0, TextShape, LettersShape, GrammarTokens, SpanLetter DEF Nonterminals
  <2>4. (Der(w, "power", s, e) <=> z \in Texts(n, "power")) /\ (Der(w, "base", s, e) <=> z \in Texts(n, "base"))
    BY <1>2 DEF Der, n
  <2>5. Der(w, "power", s + 1, e) <=> Span(w, s + 1, e) \in P
    BY <2>0 DEF Der
  <2> HIDE DEF F, P
  <2>6. Span(w, s, s + 1 + (n - 1)) \in Cat(F, P)
          <=> Span(w, s, s + 1) \in F /\ Span(w, s + 1, s + 1 + (n - 1)) \in P
    BY <1>0, <2>0, <2>3, SpanCat
  <2> QED BY <1>2, <2>0, <2>2, <2>3, <2>4, <2>5, <2>6
<1> QED BY <1>1, <1>2

\* The rest of a chain: nothing, or an operator and the same again.
Iter(w, fn, s, e) == s = e \/ (s < e /\ w[s] \in Ops[fn] /\ Der(w, fn, s + 1, e))

\* What <factor>, <term>, <expr> and <list> are.
LEMMA ChainSpan ==
  ASSUME NEW w \in Inputs, NEW s \in Nat, NEW e \in Nat, 1 <= s, s <= e, e <= Len(w) + 1,
         NEW fn \in Chain
  PROVE  Der(w, fn, s, e) <=> \E m \in s..e : Der(w, Sub[fn], s, m) /\ Iter(w, fn, m, e)
<1>0. /\ w \in Seq(AllTokens) /\ Len(w) \in Nat /\ Len(w) <= MaxText /\ MaxText \in Nat
      /\ fn \in Nonterminals /\ Sub[fn] \in Nonterminals /\ Ops[fn] \subseteq AllTokens
  BY TextBound, GrammarTokens DEF Inputs
<1>1. CASE s = e
  <2>1. ~ Der(w, fn, s, e)
    BY <1>0, <1>1, DerLonger
  <2>2. ASSUME NEW m \in s..e PROVE ~ Der(w, Sub[fn], s, m)
    <3>1. m \in Nat /\ ~(s < m)
      BY <1>1
    <3> QED BY <1>0, <3>1, DerLonger
  <2> QED BY <2>1, <2>2
<1>2. CASE s < e
  <2> DEFINE n == e - s
             z == Span(w, s, e)
             F == Letters(Ops[fn])
  <2>0. n \in 1..MaxText /\ n \in Nat /\ e = s + n
    BY <1>0, <1>2
  <2> HIDE DEF n
  <2>1. PICK W : /\ \A k \in 0..(n - 1) : W[k] = Words[MaxText][k]
                 /\ Texts(n, fn) = ChainWords(fn, Texts(n, Sub[fn]), W, n)
    BY <2>0, Productions
  <2> DEFINE T(k) == Cat(W[k][Sub[fn]], Cat(Letters(Ops[fn]), W[n - 1 - k][fn]))
             Part(m) == Der(w, Sub[fn], s, m) /\ w[m] \in Ops[fn] /\ Der(w, fn, m + 1, e)
  <2>2. Der(w, fn, s, e) <=> Der(w, Sub[fn], s, e) \/ \E k \in 1..(n - 2) : z \in T(k)
    <3>1. Der(w, fn, s, e) <=> z \in ChainWords(fn, Texts(n, Sub[fn]), W, n)
      BY <1>2, <2>1 DEF Der, n
    <3>2. Der(w, Sub[fn], s, e) <=> z \in Texts(n, Sub[fn])
      BY <1>2 DEF Der, n
    <3>3. ChainWords(fn, Texts(n, Sub[fn]), W, n) = Texts(n, Sub[fn]) \cup UNION {T(k) : k \in 1..(n - 2)}
      BY DEF ChainWords
    <3> HIDE DEF T, z
    <3> QED BY <3>1, <3>2, <3>3
  <2>3. ASSUME NEW k \in 1..(n - 2) PROVE z \in T(k) <=> Part(s + k)
    <3> DEFINE j == n - 1 - k
               A == Texts(k, Sub[fn])
               B == Texts(j, fn)
               m == s + k
    <3>1. /\ k \in Nat /\ j \in Nat /\ k \in 0..(n - 1) /\ j \in 0..(n - 1) /\ 1 \in Nat /\ 1 + j \in Nat
          /\ k \in 0..MaxText /\ j \in 0..MaxText
          /\ s + k + (1 + j) = e /\ m + 1 + j = e /\ m \in Nat /\ 1 <= m /\ m \in 1..Len(w)
          /\ s + k + (1 + j) <= Len(w) + 1 /\ m + 1 + j <= Len(w) + 1
          /\ m - s = k /\ e - (m + 1) = j /\ s <= m /\ m + 1 <= e
      BY <1>0, <2>0
    <3>2. AllOf(A, k) /\ AllOf(B, j)
      BY <1>0, <3>1, TextShape
    <3>3. W[k][Sub[fn]] = A /\ W[n - 1 - k][fn] = B
      BY <2>1, <3>1 DEF Texts
    <3>4. AllOf(F, 1) /\ (Span(w, m, m + 1) \in F <=> w[m] \in Ops[fn])
      BY <1>0, <3>1, LettersShape, SpanLetter
    <3>5. (Der(w, Sub[fn], s, m) <=> Span(w, s, m) \in A) /\ (Der(w, fn, m + 1, e) <=> Span(w, m + 1, e) \in B)
      BY <3>1 DEF Der
    <3> HIDE DEF F, A, B, j
    <3>6. AllOf(Cat(F, B), 1 + j)
      BY <3>1, <3>2, <3>4, CatShape
    <3>7. Span(w, s, s + k + (1 + j)) \in Cat(A, Cat(F, B))
            <=> Span(w, s, s + k) \in A /\ Span(w, s + k, s + k + (1 + j)) \in Cat(F, B)
      BY <1>0, <3>1, <3>2, <3>6, SpanCat
    <3>8. Span(w, m, m + 1 + j) \in Cat(F, B) <=> Span(w, m, m + 1) \in F /\ Span(w, m + 1, m + 1 + j) \in B
      <4> HIDE DEF m
      <4> QED BY <1>0, <3>1, <3>2, <3>4, SpanCat
    <3>9. z \in Cat(A, Cat(F, B)) <=> Part(m)
      BY <3>1, <3>4, <3>5, <3>7, <3>8
    <3>10. T(k) = Cat(A, Cat(F, B))
      BY <3>3 DEF F
    <3> QED BY <3>9, <3>10
  <2>4. ASSUME NEW m \in s..e, Der(w, Sub[fn], s, m), Iter(w, fn, m, e), m # e
        PROVE  \E k \in 1..(n - 2) : m = s + k /\ Part(s + k)
    <3>1. m \in Nat /\ m < e /\ Part(m) /\ m + 1 \in Nat
      BY <2>4 DEF Iter
    <3>2. s < m /\ m + 1 < e
      BY <1>0, <2>4, <3>1, DerLonger
    <3>3. m - s \in 1..(n - 2) /\ m = s + (m - s)
      BY <2>0, <3>1, <3>2
    <3> QED BY <3>1, <3>3
  <2>5. ASSUME NEW k \in 1..(n - 2), Part(s + k)
        PROVE  s + k \in s..e /\ Der(w, Sub[fn], s, s + k) /\ Iter(w, fn, s + k, e)
    <3>1. s + k \in s..e /\ s + k < e
      BY <2>0
    <3> QED BY <2>5, <3>1 DEF Iter
  <2>6. Iter(w, fn, e, e) /\ e \in s..e
    BY <1>2 DEF Iter
  <2> HIDE DEF T, Part, z
  <2>7. (\E k \in 1..(n - 2) : z \in T(k)) <=> \E k \in 1..(n - 2) : Part(s + k)
    BY <2>3
  <2> QED BY <2>2, <2>4, <2>5, <2>6, <2>7
<1> QED BY <1>1, <1>2

(***************************************************************************)
(* What the calls of the parser have still to read                         *)
(***************************************************************************)

\* A text with its end, and the positions in it.
Text(w) == Append(w, "end")
Pos(w) == 1..(Len(w) + 1)

\* A token that is not the end of the text.
LEMMA TextAt ==
  ASSUME NEW w \in Inputs
  PROVE  /\ Len(w) \in Nat /\ Len(w) + 1 \in Pos(w) /\ Text(w)[Len(w) + 1] = "end"
         /\ w \in Seq(AllTokens)
         /\ \A q \in 1..Len(w) : q \in Pos(w) /\ q + 1 \in Pos(w) /\ Text(w)[q] = w[q] /\ w[q] \in AllTokens
         /\ \A q \in Pos(w) : q \in Nat /\ 1 <= q /\ q <= Len(w) + 1
         /\ \A q \in Pos(w) : Text(w)[q] # "end" => q \in 1..Len(w)
<1>1. w \in Seq(AllTokens) /\ Len(w) \in Nat
  BY DEF Inputs
<1>2. /\ Append(w, "end")[Len(w) + 1] = "end"
      /\ \A q \in 1..Len(w) : Append(w, "end")[q] = w[q]
  BY <1>1
<1>3. \A q \in 1..Len(w) : w[q] \in AllTokens
  BY <1>1
<1>4. /\ Len(w) + 1 \in 1..(Len(w) + 1)
      /\ \A q \in 1..Len(w) : q \in 1..(Len(w) + 1) /\ q + 1 \in 1..(Len(w) + 1)
      /\ \A q \in 1..(Len(w) + 1) : q \in Nat /\ 1 <= q /\ q <= Len(w) + 1 /\ (q = Len(w) + 1 \/ q \in 1..Len(w))
  BY <1>1
<1> QED BY <1>1, <1>2, <1>3, <1>4 DEF Text, Pos

\* The tokens that may follow what a function of the parser reads.
Follow(x) ==
  CASE x = "list" -> {"close", "end"}
    [] x = "expr" -> {"close", "end", "sep"}
    [] x = "term" -> {"close", "end", "sep", "add", "sub"}
    [] x = "factor" -> {"close", "end", "sep", "add", "sub", "mul"}
    [] OTHER -> {"close", "end", "sep", "add", "sub", "mul", "pow"}

\* One of these stands at each of some positions.
Follows(w, F, x) == \A q \in F : Text(w)[q] \in Follow(x)

\* What a call waits for: an operand, <list> in parentheses, or the first or the last
\* argument of a function of two.
Awaited == Chain \cup {"power", "base", "paren", "first", "last"}

\* Where what it waits for may end, if the call itself may end at F.
Ahead(w, x, F) ==
  CASE x \in Chain -> {q \in Pos(w) : \E e \in F : q <= e /\ Iter(w, x, q, e)}
    [] x \in {"power", "base"} -> F
    [] x \in {"paren", "last"} -> {q \in Pos(w) : Text(w)[q] = "close" /\ q + 1 \in F}
    [] x = "first" -> {q \in Pos(w) : /\ Text(w)[q] = "sep"
                                      /\ \E m \in Pos(w) : /\ Der(w, "expr", q + 1, m)
                                                           /\ Text(w)[m] = "close" /\ m + 1 \in F}

\* What the innermost call has to read from p on, so that it gets to F: a text of a
\* nonterminal, nothing, "(" and the first argument, "()" or nothing, ")", or the
\* argument after the token at p.
Left(w, x, F, p) ==
  CASE x \in Nonterminals -> \E q \in F : Der(w, x, p, q)
    [] x = "return" -> p \in F
    [] x = "args" -> Text(w)[p] = "open" /\ \E q \in F : Der(w, "expr", p + 1, q)
    [] x = "none" -> p \in F \/ (p + 2 \in F /\ Text(w)[p] = "open" /\ Text(w)[p + 1] = "close")
    [] x = "shut" -> Text(w)[p] = "close" /\ p + 1 \in F
    [] x = "arg" -> \E q \in F : Der(w, "expr", p + 1, q)

Tasks == Nonterminals \cup {"return", "args", "none", "shut", "arg"}

\* The cases of these definitions.
LEMMA AheadChain ==
  ASSUME NEW w, NEW F, NEW x \in Chain, NEW q
  PROVE  q \in Ahead(w, x, F) <=> q \in Pos(w) /\ \E e \in F : q <= e /\ Iter(w, x, q, e)
<1>1. x \in Chain /\ x \notin {"power", "base"} /\ x \notin {"paren", "last"} /\ x # "first"
  BY DEF Chain
<1>2. Ahead(w, x, F) = {r \in Pos(w) : \E e \in F : r <= e /\ Iter(w, x, r, e)}
  BY <1>1 DEF Ahead
<1> QED BY <1>2

\* A call of power waits for nothing after its <base>, and base for nothing after <power>.
LEMMA AheadPower ==
  ASSUME NEW w, NEW F, NEW x \in {"power", "base"}
  PROVE  Ahead(w, x, F) = F
<1>1. x \notin Chain
  BY DEF Chain
<1> QED BY <1>1 DEF Ahead

\* Parentheses and last arguments end at ")".
LEMMA AheadClose ==
  ASSUME NEW w, NEW F, NEW x \in {"paren", "last"}, NEW q
  PROVE  q \in Ahead(w, x, F) <=> q \in Pos(w) /\ Text(w)[q] = "close" /\ q + 1 \in F
<1>1. x \notin Chain /\ x \notin {"power", "base"}
  BY DEF Chain
<1> QED BY <1>1 DEF Ahead

\* The first argument ends at a separator with an argument and ")" after it.
LEMMA AheadFirst ==
  ASSUME NEW w, NEW F, NEW q
  PROVE  q \in Ahead(w, "first", F)
           <=> /\ q \in Pos(w) /\ Text(w)[q] = "sep"
               /\ \E m \in Pos(w) : Der(w, "expr", q + 1, m) /\ Text(w)[m] = "close" /\ m + 1 \in F
<1>1. "first" \notin Chain
  BY DEF Chain
<1> QED BY <1>1 DEF Ahead

\* What is left where a function of the parser is called ...
LEMMA LeftText ==
  ASSUME NEW w, NEW F, NEW p, NEW x \in Nonterminals
  PROVE  Left(w, x, F, p) <=> \E q \in F : Der(w, x, p, q)
<1>1. x \notin {"return", "args", "none", "shut", "arg"}
  BY DEF Nonterminals, Chain
<1> QED BY <1>1 DEF Left

\* ... and where one goes on.
LEMMA LeftCases ==
  ASSUME NEW w, NEW F, NEW p
  PROVE  /\ Left(w, "return", F, p) <=> p \in F
         /\ Left(w, "args", F, p) <=> Text(w)[p] = "open" /\ \E q \in F : Der(w, "expr", p + 1, q)
         /\ Left(w, "none", F, p) <=> p \in F \/ (p + 2 \in F /\ Text(w)[p] = "open" /\ Text(w)[p + 1] = "close")
         /\ Left(w, "shut", F, p) <=> Text(w)[p] = "close" /\ p + 1 \in F
         /\ Left(w, "arg", F, p) <=> \E q \in F : Der(w, "expr", p + 1, q)
<1>1. {"return", "args", "none", "shut", "arg"} \cap Nonterminals = {}
  BY DEF Nonterminals, Chain
<1> QED BY <1>1 DEF Left

\* The position a call waits to get to is one of the text.
LEMMA AheadPos ==
  ASSUME NEW w, NEW F \in SUBSET Pos(w), NEW x \in Awaited
  PROVE  Ahead(w, x, F) \in SUBSET Pos(w)
<1>1. ASSUME NEW q \in Ahead(w, x, F) PROVE q \in Pos(w)
  BY AheadChain, AheadPower, AheadClose, AheadFirst DEF Awaited
<1> QED BY <1>1

\* What follows an operand, an argument or a list is what its reader stops at.
LEMMA AheadFollows ==
  ASSUME NEW w \in Inputs, NEW F \in SUBSET Pos(w)
  PROVE  /\ \A fn \in Chain : Follows(w, F, fn) => Follows(w, Ahead(w, fn, F), Sub[fn])
         /\ \A x \in {"power", "base"}, y \in {"power", "base"} : Follows(w, F, x) => Follows(w, Ahead(w, x, F), y)
         /\ Follows(w, Ahead(w, "paren", F), "list")
         /\ Follows(w, Ahead(w, "first", F), "expr") /\ Follows(w, Ahead(w, "last", F), "expr")
<1>1. ASSUME NEW fn \in Chain, Follows(w, F, fn), NEW q \in Ahead(w, fn, F)
      PROVE  Text(w)[q] \in Follow(Sub[fn])
  <2>0. q \in Pos(w) /\ \E e \in F : q <= e /\ Iter(w, fn, q, e)
    BY AheadChain
  <2>1. PICK e \in F : q <= e /\ Iter(w, fn, q, e)
    BY <2>0
  <2>2. Follow(fn) \subseteq Follow(Sub[fn]) /\ Ops[fn] \subseteq Follow(Sub[fn])
    BY DEF Follow, Chain, Sub, Ops
  <2>3. CASE q = e
    BY <1>1, <2>2, <2>3 DEF Follows
  <2>4. CASE q < e /\ w[q] \in Ops[fn]
    <3>1. q \in Pos(w) /\ e \in Pos(w)
      BY <2>0
    <3>2. q \in 1..Len(w)
      BY <2>4, <3>1, TextAt
    <3> QED BY <2>2, <2>4, <3>2, TextAt
  <2> QED BY <2>1, <2>3, <2>4 DEF Iter
<1>2. ASSUME NEW x \in {"power", "base"}, NEW y \in {"power", "base"}, Follows(w, F, x)
      PROVE  Follows(w, Ahead(w, x, F), y)
  <2>1. Follow(x) = Follow(y)
    BY DEF Follow
  <2>2. \A q \in Ahead(w, x, F) : q \in F
    BY AheadPower
  <2> QED BY <1>2, <2>1, <2>2 DEF Follows
<1>3. ASSUME NEW q, q \in Ahead(w, "paren", F) \/ q \in Ahead(w, "last", F)
      PROVE  Text(w)[q] = "close"
  BY <1>3, AheadClose
<1>4. ASSUME NEW q \in Ahead(w, "first", F) PROVE Text(w)[q] = "sep"
  BY AheadFirst
<1>5. \A fn \in Chain : Follows(w, F, fn) => Follows(w, Ahead(w, fn, F), Sub[fn])
  BY <1>1 DEF Follows
<1>6. Follows(w, Ahead(w, "paren", F), "list")
  BY <1>3 DEF Follows, Follow
<1>7. Follows(w, Ahead(w, "first", F), "expr") /\ Follows(w, Ahead(w, "last", F), "expr")
  BY <1>3, <1>4 DEF Follows, Follow
<1> QED BY <1>2, <1>5, <1>6, <1>7

\* The functions by their number of parameters.
LEMMA FunctionClasses ==
  /\ Functions(0) = {"f0"} /\ Functions(1) = {"f1", "g1"} /\ Functions(2) = {"f2"}
  /\ FunctionTokens = {"f0", "f1", "f2", "g1"}
  /\ \A t \in FunctionTokens : Arity[t] \in {0, 1, 2} /\ t \in Functions(Arity[t])
  BY DEF Functions, FunctionTokens, Arity

\* How a text of <base> goes on, by its first token.
LEMMA BaseOn ==
  ASSUME NEW w \in Inputs, NEW p \in Pos(w), NEW q \in Pos(w)
  PROVE  /\ Text(w)[p] \in {"num", "var"} => (Der(w, "base", p, q) <=> q = p + 1)
         /\ Text(w)[p] \in Functions(0)
              => (Der(w, "base", p, q)
                    <=> \/ q = p + 1
                        \/ q = p + 3 /\ Text(w)[p + 1] = "open" /\ Text(w)[p + 2] = "close")
         /\ Text(w)[p] \in Functions(1) => (Der(w, "base", p, q) <=> Der(w, "power", p + 1, q))
         /\ Text(w)[p] = "open"
              => (Der(w, "base", p, q)
                    <=> \E m \in Pos(w) : Der(w, "list", p + 1, m) /\ Text(w)[m] = "close" /\ m + 1 = q)
         /\ Text(w)[p] \in Functions(2)
              => (Der(w, "base", p, q)
                    <=> /\ Text(w)[p + 1] = "open"
                        /\ \E k \in Pos(w) :
                             /\ Der(w, "expr", p + 1 + 1, k) /\ Text(w)[k] = "sep"
                             /\ \E m \in Pos(w) : /\ Der(w, "expr", k + 1, m) /\ Text(w)[m] = "close"
                                                  /\ m + 1 = q)
         /\ Text(w)[p] \notin {"num", "var", "open"} \cup FunctionTokens => ~Der(w, "base", p, q)
<1> DEFINE A1 == q = p + 1 /\ w[p] \in {"num", "var"} \cup Functions(0)
           A2 == q = p + 3 /\ w[p] \in Functions(0) /\ w[p + 1] = "open" /\ w[p + 2] = "close"
           A3 == p < q /\ w[p] \in Functions(1) /\ Der(w, "power", p + 1, q)
           A4 == p + 2 <= q /\ w[p] = "open" /\ Der(w, "list", p + 1, q - 1) /\ w[q - 1] = "close"
           A5 == \E m \in (p + 2)..(q - 2) :
                    /\ w[p] \in Functions(2) /\ w[p + 1] = "open" /\ Der(w, "expr", p + 2, m)
                    /\ w[m] = "sep" /\ Der(w, "expr", m + 1, q - 1) /\ w[q - 1] = "close"
<1>0. /\ Len(w) \in Nat /\ p \in Nat /\ q \in Nat /\ 1 <= p /\ 1 <= q /\ p <= Len(w) + 1 /\ q <= Len(w) + 1
      /\ \A r \in Pos(w) : r \in Nat /\ 1 <= r /\ r <= Len(w) + 1
      /\ \A r \in Nat : 1 <= r /\ r <= Len(w) + 1 => r \in Pos(w)
  BY TextAt DEF Pos
<1>t. /\ \A r \in Nat : 1 <= r /\ r <= Len(w) => Text(w)[r] = w[r]
      /\ \A r \in Pos(w) : Text(w)[r] # "end" => r \in 1..Len(w) /\ r <= Len(w) /\ Text(w)[r] = w[r]
  <2>1. \A r \in Nat : 1 <= r /\ r <= Len(w) => r \in 1..Len(w)
    BY <1>0
  <2>2. \A r \in 1..Len(w) : r <= Len(w)
    BY <1>0
  <2> QED BY <2>1, <2>2, TextAt
<1>1. p <= q => (Der(w, "base", p, q) <=> A1 \/ A2 \/ A3 \/ A4 \/ A5)
  BY <1>0, BaseSpan
<1>2. ~(p <= q) => ~Der(w, "base", p, q)
  BY DEF Der
<1>3. \A fn, r : ~(r <= q) => ~Der(w, fn, r, q)
  BY DEF Der
<1>c. /\ Functions(0) = {"f0"} /\ Functions(1) = {"f1", "g1"} /\ Functions(2) = {"f2"}
      /\ FunctionTokens = {"f0", "f1", "f2", "g1"}
  BY FunctionClasses
<1>a. \A fn, r, s : Der(w, fn, r, s) => r <= s
  BY DEF Der
<1>4. ASSUME Text(w)[p] \in {"num", "var"} PROVE Der(w, "base", p, q) <=> q = p + 1
  <2>1. w[p] \in {"num", "var"} /\ p <= Len(w)
    BY <1>4, <1>t
  <2>2. p <= q => (Der(w, "base", p, q) <=> q = p + 1)
    BY <1>1, <1>c, <2>1
  <2> QED BY <1>0, <1>2, <2>2
<1>5. ASSUME Text(w)[p] \in Functions(0)
      PROVE  Der(w, "base", p, q)
               <=> \/ q = p + 1
                   \/ q = p + 3 /\ Text(w)[p + 1] = "open" /\ Text(w)[p + 2] = "close"
  <2>1. w[p] = "f0" /\ p <= Len(w)
    BY <1>5, <1>c, <1>t
  <2>2. q = p + 3 => Text(w)[p + 1] = w[p + 1] /\ Text(w)[p + 2] = w[p + 2]
    BY <1>0, <1>t
  <2>3. p <= q => (Der(w, "base", p, q) <=> q = p + 1 \/ A2)
    BY <1>1, <1>c, <2>1
  <2>4. ~(p <= q) => q # p + 1 /\ q # p + 3
    BY <1>0
  <2> QED BY <1>2, <1>c, <2>1, <2>2, <2>3, <2>4
<1>6. ASSUME Text(w)[p] \in Functions(1) PROVE Der(w, "base", p, q) <=> Der(w, "power", p + 1, q)
  <2>1. w[p] \in {"f1", "g1"} /\ p <= Len(w)
    BY <1>6, <1>c, <1>t
  <2>2. p <= q => (Der(w, "base", p, q) <=> A3)
    BY <1>1, <1>c, <2>1
  <2>3. Der(w, "power", p + 1, q) => p < q /\ p <= q
    BY <1>0, <1>a
  <2> QED BY <1>2, <1>c, <2>1, <2>2, <2>3
<1>7. ASSUME Text(w)[p] = "open"
      PROVE  Der(w, "base", p, q)
               <=> \E m \in Pos(w) : Der(w, "list", p + 1, m) /\ Text(w)[m] = "close" /\ m + 1 = q
  <2>1. w[p] = "open" /\ p <= Len(w)
    BY <1>7, <1>t
  <2>2. p <= q => (Der(w, "base", p, q) <=> A4)
    BY <1>1, <1>c, <2>1
  <2>3. ASSUME NEW m \in Pos(w), Der(w, "list", p + 1, m), Text(w)[m] = "close", m + 1 = q PROVE p <= q /\ A4
    <3>1. m \in Nat /\ p + 1 <= m /\ q - 1 = m /\ w[m] = "close"
      BY <1>0, <1>a, <1>t, <2>3
    <3>2. p <= q /\ p + 2 <= q
      BY <1>0, <2>3, <3>1
    <3> QED BY <2>1, <2>3, <3>1, <3>2
  <2>4. ASSUME A4 PROVE \E m \in Pos(w) : Der(w, "list", p + 1, m) /\ Text(w)[m] = "close" /\ m + 1 = q
    <3>1. q - 1 \in Pos(w) /\ q - 1 + 1 = q /\ Text(w)[q - 1] = w[q - 1]
      BY <1>0, <1>t, <2>4
    <3> QED BY <2>4, <3>1
  <2> HIDE DEF A1, A2, A3, A4, A5
  <2> QED BY <1>2, <2>2, <2>3, <2>4
<1>8. ASSUME Text(w)[p] \in Functions(2)
      PROVE  Der(w, "base", p, q)
               <=> /\ Text(w)[p + 1] = "open"
                   /\ \E k \in Pos(w) :
                        /\ Der(w, "expr", p + 1 + 1, k) /\ Text(w)[k] = "sep"
                        /\ \E m \in Pos(w) : /\ Der(w, "expr", k + 1, m) /\ Text(w)[m] = "close"
                                             /\ m + 1 = q
  <2>1. w[p] = "f2" /\ p <= Len(w) /\ p + 1 \in Pos(w) /\ p + 1 + 1 = p + 2
    BY <1>0, <1>8, <1>c, <1>t
  <2>2. p <= q => (Der(w, "base", p, q) <=> A5)
    BY <1>1, <1>c, <2>1
  <2>3. ASSUME Text(w)[p + 1] = "open", NEW k \in Pos(w), Der(w, "expr", p + 1 + 1, k), Text(w)[k] = "sep",
               NEW m \in Pos(w), Der(w, "expr", k + 1, m), Text(w)[m] = "close", m + 1 = q
        PROVE  p <= q /\ A5
    <3>1. m \in Nat /\ k \in Nat /\ p + 2 <= k /\ k + 1 <= m /\ q - 1 = m /\ w[m] = "close" /\ w[k] = "sep"
          /\ w[p + 1] = "open"
      BY <1>0, <1>a, <1>t, <2>1, <2>3
    <3>2. p <= q /\ k \in (p + 2)..(q - 2)
      BY <1>0, <2>3, <3>1
    <3> QED BY <1>c, <2>1, <2>3, <3>1, <3>2
  <2>4. ASSUME A5
        PROVE  /\ Text(w)[p + 1] = "open"
               /\ \E k \in Pos(w) :
                        /\ Der(w, "expr", p + 1 + 1, k) /\ Text(w)[k] = "sep"
                        /\ \E m \in Pos(w) : /\ Der(w, "expr", k + 1, m) /\ Text(w)[m] = "close"
                                             /\ m + 1 = q
    <3>1. PICK k \in (p + 2)..(q - 2) :
                    /\ w[p] \in Functions(2) /\ w[p + 1] = "open" /\ Der(w, "expr", p + 2, k)
                    /\ w[k] = "sep" /\ Der(w, "expr", k + 1, q - 1) /\ w[q - 1] = "close"
      BY <2>4
    <3>2. k \in Pos(w) /\ q - 1 \in Pos(w) /\ q - 1 + 1 = q /\ Text(w)[q - 1] = w[q - 1] /\ Text(w)[k] = w[k]
          /\ Text(w)[p + 1] = w[p + 1]
      BY <1>0, <1>t
    <3> QED BY <2>1, <3>1, <3>2
  <2> HIDE DEF A1, A2, A3, A4, A5
  <2>5. ASSUME Text(w)[p + 1] = "open",
               \E k \in Pos(w) :
                        /\ Der(w, "expr", p + 1 + 1, k) /\ Text(w)[k] = "sep"
                        /\ \E m \in Pos(w) : /\ Der(w, "expr", k + 1, m) /\ Text(w)[m] = "close"
                                             /\ m + 1 = q
        PROVE  p <= q /\ A5
    BY <2>3, <2>5
  <2> QED BY <1>2, <2>2, <2>4, <2>5
<1>9. ASSUME Text(w)[p] \notin {"num", "var", "open"} \cup FunctionTokens PROVE ~Der(w, "base", p, q)
  <2>1. CASE p <= Len(w)
    <3>1. w[p] \notin {"num", "var", "open", "f0", "f1", "f2", "g1"}
      BY <1>0, <1>9, <1>c, <1>t, <2>1
    <3>2. ~A1 /\ ~A2 /\ ~A3 /\ ~A4 /\ ~A5
      BY <1>c, <3>1
    <3> HIDE DEF A1, A2, A3, A4, A5
    <3> QED BY <1>1, <1>2, <3>2
  <2>2. CASE ~(p <= Len(w))
    <3>1. SUFFICES ASSUME Der(w, "base", p, q) PROVE FALSE
      OBVIOUS
    <3>2. p < q
      BY <1>0, <3>1, DerLonger DEF Nonterminals
    <3> QED BY <1>0, <2>2, <3>2
  <2> QED BY <2>1, <2>2
<1> HIDE DEF A1, A2, A3, A4, A5
<1> QED BY <1>4, <1>5, <1>6, <1>7, <1>8, <1>9

(***************************************************************************)
(* What each step of the parser does to what is left                       *)
(***************************************************************************)

\* <factor>, <term>, <expr> or <list> starts with an operand.
LEMMA ChainOpens ==
  ASSUME NEW w \in Inputs, NEW p \in Pos(w), NEW F \in SUBSET Pos(w), NEW fn \in Chain
  PROVE  (\E q \in F : Der(w, fn, p, q)) <=> \E m \in Ahead(w, fn, F) : Der(w, Sub[fn], p, m)
<1>0. \A q \in Pos(w) : q \in Nat /\ 1 <= q /\ q <= Len(w) + 1
  BY TextAt
<1>1. ASSUME NEW q \in F, Der(w, fn, p, q) PROVE \E m \in Ahead(w, fn, F) : Der(w, Sub[fn], p, m)
  <2>1. p <= q /\ q \in Pos(w)
    BY <1>1 DEF Der
  <2>2. PICK m \in p..q : Der(w, Sub[fn], p, m) /\ Iter(w, fn, m, q)
    BY <1>0, <1>1, <2>1, ChainSpan
  <2>3. m <= q /\ m \in Pos(w)
    BY <1>0, <2>1 DEF Pos
  <2>4. m \in Ahead(w, fn, F)
    BY <2>2, <2>3, AheadChain
  <2> QED BY <2>2, <2>4
<1>2. ASSUME NEW m \in Ahead(w, fn, F), Der(w, Sub[fn], p, m) PROVE \E q \in F : Der(w, fn, p, q)
  <2>1. m \in Pos(w) /\ \E e \in F : m <= e /\ Iter(w, fn, m, e)
    BY AheadChain
  <2>2. PICK e \in F : m <= e /\ Iter(w, fn, m, e)
    BY <2>1
  <2>3. p <= m /\ e \in Pos(w)
    BY <1>2 DEF Der
  <2>4. m \in p..e /\ p <= e
    BY <1>0, <2>1, <2>2, <2>3
  <2>5. Der(w, fn, p, e)
    BY <1>0, <1>2, <2>2, <2>3, <2>4, ChainSpan
  <2> QED BY <2>5
<1> QED BY <1>1, <1>2

\* At an operator the loop goes on with another operand ...
LEMMA ChainGoesOn ==
  ASSUME NEW w \in Inputs, NEW p \in Pos(w), NEW G \in SUBSET Pos(w), NEW fn \in Chain,
         Follows(w, G, fn), Text(w)[p] \in Ops[fn]
  PROVE  /\ p + 1 \in Pos(w)
         /\ p \in Ahead(w, fn, G) <=> \E m \in Ahead(w, fn, G) : Der(w, Sub[fn], p + 1, m)
<1>0. \A q \in Pos(w) : q \in Nat /\ 1 <= q /\ q <= Len(w) + 1
  BY TextAt
<1>1. Ops[fn] \cap Follow(fn) = {} /\ "end" \notin Ops[fn]
  BY DEF Ops, Follow, Chain
<1>2. p \in 1..Len(w) /\ w[p] \in Ops[fn] /\ p + 1 \in Pos(w)
  BY <1>1, TextAt
<1>3. p \notin G
  BY <1>1 DEF Follows
<1>4. p \in Ahead(w, fn, G) <=> \E e \in G : Der(w, fn, p + 1, e)
  <2>1. p \in Ahead(w, fn, G) <=> p \in Pos(w) /\ \E e \in G : p <= e /\ Iter(w, fn, p, e)
    BY AheadChain
  <2>2. ASSUME NEW e \in G PROVE p <= e /\ Iter(w, fn, p, e) <=> Der(w, fn, p + 1, e)
    <3>1. p # e /\ p \in Nat /\ e \in Nat
      BY <1>0, <1>3
    <3>2. Der(w, fn, p + 1, e) => p < e /\ p <= e
      BY <3>1 DEF Der
    <3> QED BY <1>2, <3>1, <3>2 DEF Iter
  <2> QED BY <2>1, <2>2
<1>5. (\E e \in G : Der(w, fn, p + 1, e)) <=> \E m \in Ahead(w, fn, G) : Der(w, Sub[fn], p + 1, m)
  BY <1>2, ChainOpens
<1> QED BY <1>2, <1>4, <1>5

\* ... and ends at any other token.
LEMMA ChainEnds ==
  ASSUME NEW w \in Inputs, NEW p \in Pos(w), NEW G \in SUBSET Pos(w), NEW fn \in Chain,
         Text(w)[p] \notin Ops[fn]
  PROVE  p \in Ahead(w, fn, G) <=> p \in G
<1>0. Len(w) \in Nat /\ \A q \in Pos(w) : q \in Nat /\ 1 <= q /\ q <= Len(w) + 1
  BY TextAt
<1>1. p \in Ahead(w, fn, G) <=> p \in Pos(w) /\ \E e \in G : p <= e /\ Iter(w, fn, p, e)
  BY AheadChain
<1>2. ASSUME NEW e \in G, p <= e, Iter(w, fn, p, e) PROVE p = e
  <2>1. CASE p < e
    <3>1. e \in Pos(w) /\ p \in 1..Len(w)
      BY <1>0, <2>1
    <3>2. w[p] \notin Ops[fn]
      BY <3>1, TextAt
    <3> QED BY <1>0, <1>2, <2>1, <3>2 DEF Iter
  <2> QED BY <1>2, <2>1 DEF Iter
<1>3. p \in G => p <= p /\ Iter(w, fn, p, p)
  BY <1>0 DEF Iter
<1> QED BY <1>1, <1>2, <1>3

\* <power>: signs, then <base>.
LEMMA PowerGoesOn ==
  ASSUME NEW w \in Inputs, NEW p \in Pos(w), NEW F \in SUBSET Pos(w)
  PROVE  /\ Text(w)[p] \in {"add", "sub"} =>
              /\ p + 1 \in Pos(w)
              /\ (\E q \in F : Der(w, "power", p, q)) <=> \E q \in F : Der(w, "power", p + 1, q)
         /\ Text(w)[p] \notin {"add", "sub"} =>
              ((\E q \in F : Der(w, "power", p, q)) <=> \E q \in F : Der(w, "base", p, q))
<1>0. Len(w) \in Nat /\ \A q \in Pos(w) : q \in Nat /\ 1 <= q /\ q <= Len(w) + 1
  BY TextAt
<1>1. ASSUME NEW q \in F
      PROVE  Der(w, "power", p, q)
               <=> \/ Der(w, "base", p, q)
                   \/ p < q /\ w[p] \in {"add", "sub"} /\ Der(w, "power", p + 1, q)
  <2>1. CASE p <= q
    BY <1>0, <2>1, PowerSpan
  <2>2. CASE ~(p <= q)
    BY <1>0, <2>2 DEF Der
  <2> QED BY <2>1, <2>2
<1>2. ASSUME Text(w)[p] \in {"add", "sub"}
      PROVE  /\ p + 1 \in Pos(w)
             /\ (\E q \in F : Der(w, "power", p, q)) <=> \E q \in F : Der(w, "power", p + 1, q)
  <2>1. p \in 1..Len(w) /\ w[p] \in {"add", "sub"} /\ p + 1 \in Pos(w)
    BY <1>2, TextAt
  <2>2. ASSUME NEW q \in F PROVE Der(w, "power", p, q) <=> Der(w, "power", p + 1, q)
    <3>1. Text(w)[p] \notin {"num", "var", "open"} \cup FunctionTokens
      BY <1>2, FunctionClasses
    <3>2. ~ Der(w, "base", p, q)
      BY <3>1, BaseOn
    <3>3. Der(w, "power", p + 1, q) => p < q
      BY <1>0 DEF Der
    <3> QED BY <1>1, <2>1, <3>2, <3>3
  <2> QED BY <2>1, <2>2
<1>3. ASSUME Text(w)[p] \notin {"add", "sub"}
      PROVE  (\E q \in F : Der(w, "power", p, q)) <=> \E q \in F : Der(w, "base", p, q)
  <2>1. ASSUME NEW q \in F PROVE Der(w, "power", p, q) <=> Der(w, "base", p, q)
    <3>1. p < q => w[p] \notin {"add", "sub"}
      <4> HAVE p < q
      <4>1. p \in 1..Len(w)
        BY <1>0
      <4> QED BY <1>3, <4>1, TextAt
    <3> QED BY <1>1, <3>1
  <2> QED BY <2>1
<1> QED BY <1>2, <1>3

\* <base>, by its first token: a leaf, a function of none, one or two arguments, a
\* parenthesis, or an error.
LEMMA BaseGoesOn ==
  ASSUME NEW w \in Inputs, NEW p \in Pos(w), NEW F \in SUBSET Pos(w)
  PROVE  /\ Text(w)[p] \in {"num", "var", "open"} \cup FunctionTokens => p + 1 \in Pos(w)
         /\ Text(w)[p] \in {"num", "var"} =>
              (Left(w, "base", F, p) <=> Left(w, "return", F, p + 1))
         /\ Text(w)[p] \in Functions(0) =>
              (Left(w, "base", F, p) <=> Left(w, "none", Ahead(w, "base", F), p + 1))
         /\ Text(w)[p] \in Functions(1) =>
              (Left(w, "base", F, p) <=> Left(w, "power", Ahead(w, "base", F), p + 1))
         /\ Text(w)[p] \in Functions(2) =>
              (Left(w, "base", F, p) <=> Left(w, "args", Ahead(w, "first", F), p + 1))
         /\ Text(w)[p] = "open" =>
              (Left(w, "base", F, p) <=> Left(w, "list", Ahead(w, "paren", F), p + 1))
         /\ Text(w)[p] \notin {"num", "var", "open"} \cup FunctionTokens => ~Left(w, "base", F, p)
<1>0. Len(w) \in Nat /\ p \in Nat /\ \A q \in F : q \in Pos(w)
  BY TextAt
<1>n. {"base", "power", "list", "expr"} \subseteq Nonterminals
  BY DEF Nonterminals, Chain
<1>b. Left(w, "base", F, p) <=> \E q \in F : Der(w, "base", p, q)
  BY <1>n, LeftText
<1>c. FunctionTokens = {"f0", "f1", "f2", "g1"}
  BY FunctionClasses
<1>1. ASSUME Text(w)[p] \in {"num", "var", "open"} \cup FunctionTokens PROVE p + 1 \in Pos(w)
  <2>1. Text(w)[p] # "end"
    BY <1>1, <1>c
  <2> QED BY <2>1, TextAt
<1>2. ASSUME Text(w)[p] \in {"num", "var"} PROVE Left(w, "base", F, p) <=> Left(w, "return", F, p + 1)
  <2>1. \A q \in F : Der(w, "base", p, q) <=> q = p + 1
    BY <1>0, <1>2, BaseOn
  <2>2. Left(w, "return", F, p + 1) <=> p + 1 \in F
    BY LeftCases
  <2> QED BY <1>b, <2>1, <2>2
<1>3. ASSUME Text(w)[p] \in Functions(0)
      PROVE  Left(w, "base", F, p) <=> Left(w, "none", Ahead(w, "base", F), p + 1)
  <2>1. \A q \in F : Der(w, "base", p, q)
                       <=> \/ q = p + 1
                           \/ q = p + 3 /\ Text(w)[p + 1] = "open" /\ Text(w)[p + 2] = "close"
    BY <1>0, <1>3, BaseOn
  <2>2. Left(w, "none", F, p + 1)
          <=> p + 1 \in F \/ (p + 1 + 2 \in F /\ Text(w)[p + 1] = "open" /\ Text(w)[p + 1 + 1] = "close")
    BY LeftCases
  <2>3. p + 1 + 2 = p + 3 /\ p + 1 + 1 = p + 2 /\ Ahead(w, "base", F) = F
    BY <1>0, AheadPower
  <2> QED BY <1>b, <2>1, <2>2, <2>3
<1>4. ASSUME Text(w)[p] \in Functions(1)
      PROVE  Left(w, "base", F, p) <=> Left(w, "power", Ahead(w, "base", F), p + 1)
  <2>1. \A q \in F : Der(w, "base", p, q) <=> Der(w, "power", p + 1, q)
    BY <1>0, <1>4, BaseOn
  <2>2. Left(w, "power", F, p + 1) <=> \E q \in F : Der(w, "power", p + 1, q)
    BY <1>n, LeftText
  <2>3. Ahead(w, "base", F) = F
    BY AheadPower
  <2> QED BY <1>b, <2>1, <2>2, <2>3
<1>5. ASSUME Text(w)[p] \in Functions(2)
      PROVE  Left(w, "base", F, p) <=> Left(w, "args", Ahead(w, "first", F), p + 1)
  <2> DEFINE A == Ahead(w, "first", F)
             P(k, q) == \E m \in Pos(w) : Der(w, "expr", k + 1, m) /\ Text(w)[m] = "close" /\ m + 1 = q
  <2>1. \A q \in F : Der(w, "base", p, q)
                       <=> /\ Text(w)[p + 1] = "open"
                           /\ \E k \in Pos(w) : Der(w, "expr", p + 1 + 1, k) /\ Text(w)[k] = "sep" /\ P(k, q)
    BY <1>0, <1>5, BaseOn
  <2>2. Left(w, "args", A, p + 1) <=> Text(w)[p + 1] = "open" /\ \E k \in A : Der(w, "expr", p + 1 + 1, k)
    BY LeftCases
  <2>3. \A k : k \in A <=> k \in Pos(w) /\ Text(w)[k] = "sep" /\ \E q \in F : P(k, q)
    <3>1. \A k : k \in A <=> /\ k \in Pos(w) /\ Text(w)[k] = "sep"
                             /\ \E m \in Pos(w) : /\ Der(w, "expr", k + 1, m) /\ Text(w)[m] = "close"
                                                  /\ m + 1 \in F
      BY AheadFirst
    <3>2. \A k : (\E q \in F : P(k, q))
                   <=> \E m \in Pos(w) : Der(w, "expr", k + 1, m) /\ Text(w)[m] = "close" /\ m + 1 \in F
      OBVIOUS
    <3> HIDE DEF A
    <3> QED BY <3>1, <3>2
  <2> HIDE DEF A, P
  <2>4. Left(w, "base", F, p) <=> Left(w, "args", A, p + 1)
    BY <1>b, <2>1, <2>2, <2>3
  <2> QED BY <2>4 DEF A
<1>6. ASSUME Text(w)[p] = "open"
      PROVE  Left(w, "base", F, p) <=> Left(w, "list", Ahead(w, "paren", F), p + 1)
  <2>1. \A q \in F : Der(w, "base", p, q)
                       <=> \E m \in Pos(w) : Der(w, "list", p + 1, m) /\ Text(w)[m] = "close" /\ m + 1 = q
    BY <1>0, <1>6, BaseOn
  <2>2. Left(w, "list", Ahead(w, "paren", F), p + 1) <=> \E m \in Ahead(w, "paren", F) : Der(w, "list", p + 1, m)
    BY <1>n, LeftText
  <2>3. \A m : m \in Ahead(w, "paren", F) <=> m \in Pos(w) /\ Text(w)[m] = "close" /\ m + 1 \in F
    BY AheadClose
  <2> QED BY <1>b, <2>1, <2>2, <2>3
<1>7. ASSUME Text(w)[p] \notin {"num", "var", "open"} \cup FunctionTokens PROVE ~Left(w, "base", F, p)
  <2>1. \A q \in F : ~ Der(w, "base", p, q)
    BY <1>0, <1>7, BaseOn
  <2> QED BY <1>b, <2>1
<1> QED BY <1>1, <1>2, <1>3, <1>4, <1>5, <1>6, <1>7

(***************************************************************************)
(* The calls together                                                      *)
(***************************************************************************)

\* Where l calls, outermost first, may end what they wait for: R[l] is where the
\* innermost one may, R[0] is the end of the text.
Resumes(R, w, K, l) ==
  /\ R[0] = {Len(w) + 1}
  /\ \A k \in 0..l : R[k] \in SUBSET Pos(w)
  /\ \A k \in 1..l : K[k] \in Awaited /\ R[k] = Ahead(w, K[k], R[k - 1]) /\ Follows(w, R[k - 1], K[k])

Sentence(w) == Der(w, "list", 1, Len(w) + 1)

\* The text is one of the grammar just when what is left for the calls can be read from
\* position p on.
Agrees(w, K, l, x, p) ==
  \E R : /\ Resumes(R, w, K, l)
         /\ x \in Nonterminals => Follows(w, R[l], x)
         /\ Sentence(w) <=> Left(w, x, R[l], p)

\* What a step does to what is left for the calls, from the task x at p to the task t at
\* q: a call that waits for y starts; the innermost call waits for y, no longer for z; it
\* ends; and it can get nowhere.
Down(w, x, p, y, t, q) ==
  \A F \in SUBSET Pos(w) :
    (x \in Nonterminals => Follows(w, F, x)) =>
      /\ Follows(w, F, y)
      /\ Left(w, x, F, p) <=> Left(w, t, Ahead(w, y, F), q)
      /\ t \in Nonterminals => Follows(w, Ahead(w, y, F), t)
Over(w, z, x, p, y, t, q) ==
  \A G \in SUBSET Pos(w) :
    Follows(w, G, z) /\ (x \in Nonterminals => Follows(w, Ahead(w, z, G), x)) =>
      /\ Follows(w, G, y)
      /\ Left(w, x, Ahead(w, z, G), p) <=> Left(w, t, Ahead(w, y, G), q)
      /\ t \in Nonterminals => Follows(w, Ahead(w, y, G), t)
Up(w, z, x, p, q) ==
  \A G \in SUBSET Pos(w) : Follows(w, G, z) => (Left(w, x, Ahead(w, z, G), p) <=> q \in G)
Stuck(w, z, x, p) ==
  \A G \in SUBSET Pos(w) : Follows(w, G, z) => ~Left(w, x, Ahead(w, z, G), p)

\* A call starts.
LEMMA AgreesDown ==
  ASSUME NEW w \in Inputs, NEW K, NEW N, NEW l \in Nat, \A k \in 1..l : N[k] = K[k],
         N[l + 1] \in Awaited, NEW x, NEW t, NEW p, NEW q,
         Agrees(w, K, l, x, p), Down(w, x, p, N[l + 1], t, q)
  PROVE  Agrees(w, N, l + 1, t, q)
<1>1. PICK R : /\ Resumes(R, w, K, l)
               /\ x \in Nonterminals => Follows(w, R[l], x)
               /\ Sentence(w) <=> Left(w, x, R[l], p)
  BY DEF Agrees
<1> DEFINE y == N[l + 1]
           Q == [k \in 0..(l + 1) |-> IF k = l + 1 THEN Ahead(w, y, R[l]) ELSE R[k]]
<1>2. Q[l + 1] = Ahead(w, y, R[l]) /\ \A k \in 0..l : Q[k] = R[k]
  OBVIOUS
<1>3. l \in 0..l /\ 0 \in 0..l /\ l + 1 \in 0..(l + 1) /\ (l + 1) - 1 = l
      /\ (\A k \in 0..(l + 1) : k = l + 1 \/ k \in 0..l)
      /\ (\A k \in 1..(l + 1) : k = l + 1 \/ (k \in 1..l /\ k \in 0..l /\ k - 1 \in 0..l))
  OBVIOUS
<1> HIDE DEF Q, y
<1>4. R[l] \in SUBSET Pos(w)
  BY <1>1, <1>3 DEF Resumes
<1>5. /\ Follows(w, R[l], y)
      /\ Left(w, x, R[l], p) <=> Left(w, t, Ahead(w, y, R[l]), q)
      /\ t \in Nonterminals => Follows(w, Ahead(w, y, R[l]), t)
  BY <1>1, <1>4 DEF Down, y
<1>6. Ahead(w, y, R[l]) \in SUBSET Pos(w)
  BY <1>4, AheadPos DEF y
<1>7. Resumes(Q, w, N, l + 1)
  <2>1. Q[0] = {Len(w) + 1}
    BY <1>1, <1>2, <1>3 DEF Resumes
  <2>2. ASSUME NEW k \in 0..(l + 1) PROVE Q[k] \in SUBSET Pos(w)
    BY <1>1, <1>2, <1>3, <1>6 DEF Resumes
  <2>3. ASSUME NEW k \in 1..(l + 1)
        PROVE  N[k] \in Awaited /\ Q[k] = Ahead(w, N[k], Q[k - 1]) /\ Follows(w, Q[k - 1], N[k])
    <3>1. CASE k = l + 1
      <4>1. Q[k - 1] = R[l] /\ Q[k] = Ahead(w, y, R[l]) /\ N[k] = y
        BY <1>2, <1>3, <3>1 DEF y
      <4> QED BY <1>5, <3>1, <4>1
    <3>2. CASE k # l + 1
      <4>1. k \in 1..l /\ Q[k] = R[k] /\ Q[k - 1] = R[k - 1] /\ N[k] = K[k]
        BY <1>2, <1>3, <3>2
      <4>2. K[k] \in Awaited /\ R[k] = Ahead(w, K[k], R[k - 1]) /\ Follows(w, R[k - 1], K[k])
        BY <1>1, <4>1 DEF Resumes
      <4> QED BY <4>1, <4>2
    <3> QED BY <3>1, <3>2
  <2> QED BY <2>1, <2>2, <2>3 DEF Resumes
<1> QED BY <1>1, <1>2, <1>5, <1>7 DEF Agrees

\* What the innermost call may end at, from where the one around it goes on.
LEMMA Innermost ==
  ASSUME NEW w \in Inputs, NEW K, NEW l \in Nat, l > 0, NEW R, Resumes(R, w, K, l)
  PROVE  /\ R[l - 1] \in SUBSET Pos(w) /\ R[l] = Ahead(w, K[l], R[l - 1]) /\ K[l] \in Awaited
         /\ Follows(w, R[l - 1], K[l]) /\ Resumes(R, w, K, l - 1) /\ l - 1 \in Nat
<1>1. l - 1 \in 0..l /\ l \in 1..l /\ l - 1 \in Nat
      /\ (\A k \in 0..(l - 1) : k \in 0..l) /\ (\A k \in 1..(l - 1) : k \in 1..l)
  OBVIOUS
<1> QED BY <1>1 DEF Resumes

\* The innermost call goes on.
LEMMA AgreesOver ==
  ASSUME NEW w \in Inputs, NEW K, NEW N, NEW l \in Nat, l > 0, \A k \in 1..(l - 1) : N[k] = K[k],
         N[l] \in Awaited, NEW x, NEW t, NEW p, NEW q,
         Agrees(w, K, l, x, p), Over(w, K[l], x, p, N[l], t, q)
  PROVE  Agrees(w, N, l, t, q)
<1>1. PICK R : /\ Resumes(R, w, K, l)
               /\ x \in Nonterminals => Follows(w, R[l], x)
               /\ Sentence(w) <=> Left(w, x, R[l], p)
  BY DEF Agrees
<1>2. /\ R[l - 1] \in SUBSET Pos(w) /\ R[l] = Ahead(w, K[l], R[l - 1]) /\ K[l] \in Awaited
      /\ Follows(w, R[l - 1], K[l]) /\ Resumes(R, w, K, l - 1) /\ l - 1 \in Nat
  BY <1>1, Innermost
<1> DEFINE j == l - 1
<1>3. /\ Follows(w, R[j], N[l])
      /\ Left(w, x, R[l], p) <=> Left(w, t, Ahead(w, N[l], R[j]), q)
      /\ t \in Nonterminals => Follows(w, Ahead(w, N[l], R[j]), t)
  BY <1>1, <1>2 DEF Over
<1> DEFINE Q == [k \in 0..l |-> IF k = l THEN Ahead(w, N[l], R[j]) ELSE R[k]]
<1>5. /\ Q[l] = Ahead(w, N[l], R[j]) /\ (\A k \in 0..j : Q[k] = R[k])
      /\ j \in Nat /\ 0 \in 0..j /\ j \in 0..j
      /\ (\A k \in 0..l : k = l \/ k \in 0..j)
      /\ (\A k \in 1..l : k = l \/ (k \in 1..j /\ k \in 0..j /\ k - 1 \in 0..j))
  OBVIOUS
<1> HIDE DEF Q
<1>6. Ahead(w, N[l], R[j]) \in SUBSET Pos(w)
  BY <1>2, AheadPos
<1>7. Resumes(Q, w, N, l)
  <2>1. Q[0] = {Len(w) + 1}
    BY <1>2, <1>5 DEF Resumes
  <2>2. ASSUME NEW k \in 0..l PROVE Q[k] \in SUBSET Pos(w)
    BY <1>2, <1>5, <1>6 DEF Resumes
  <2>3. ASSUME NEW k \in 1..l
        PROVE  N[k] \in Awaited /\ Q[k] = Ahead(w, N[k], Q[k - 1]) /\ Follows(w, Q[k - 1], N[k])
    <3>1. CASE k = l
      <4>1. Q[k - 1] = R[j]
        BY <1>5, <3>1
      <4> QED BY <1>3, <1>5, <3>1, <4>1
    <3>2. CASE k # l
      <4>1. k \in 1..j /\ Q[k] = R[k] /\ Q[k - 1] = R[k - 1] /\ N[k] = K[k]
        BY <1>5, <3>2
      <4>2. K[k] \in Awaited /\ R[k] = Ahead(w, K[k], R[k - 1]) /\ Follows(w, R[k - 1], K[k])
        BY <1>2, <4>1 DEF Resumes
      <4> QED BY <4>1, <4>2
    <3> QED BY <3>1, <3>2
  <2> QED BY <2>1, <2>2, <2>3 DEF Resumes
<1> QED BY <1>1, <1>3, <1>5, <1>7 DEF Agrees

\* The innermost call ends.
LEMMA AgreesUp ==
  ASSUME NEW w \in Inputs, NEW K, NEW N, NEW l \in Nat, l > 0, \A k \in 1..(l - 1) : N[k] = K[k],
         NEW x, NEW p, NEW q, Agrees(w, K, l, x, p), Up(w, K[l], x, p, q)
  PROVE  Agrees(w, N, l - 1, "return", q)
<1>1. PICK R : Resumes(R, w, K, l) /\ (Sentence(w) <=> Left(w, x, R[l], p))
  BY DEF Agrees
<1>2. /\ R[l - 1] \in SUBSET Pos(w) /\ R[l] = Ahead(w, K[l], R[l - 1])
      /\ Follows(w, R[l - 1], K[l]) /\ Resumes(R, w, K, l - 1)
  BY <1>1, Innermost
<1>3. Left(w, x, R[l], p) <=> q \in R[l - 1]
  BY <1>2 DEF Up
<1>4. Left(w, "return", R[l - 1], q) <=> q \in R[l - 1]
  BY LeftCases
<1>5. Resumes(R, w, N, l - 1)
  BY <1>2 DEF Resumes
<1>6. "return" \notin Nonterminals
  BY DEF Nonterminals, Chain
<1> QED BY <1>1, <1>3, <1>4, <1>5, <1>6 DEF Agrees

\* The innermost call can get nowhere: the text is none of the grammar.
LEMMA AgreesStuck ==
  ASSUME NEW w \in Inputs, NEW K, NEW l \in Nat, l > 0, NEW x, NEW p,
         Agrees(w, K, l, x, p), Stuck(w, K[l], x, p)
  PROVE  ~Sentence(w)
<1>1. PICK R : Resumes(R, w, K, l) /\ (Sentence(w) <=> Left(w, x, R[l], p))
  BY DEF Agrees
<1>2. R[l - 1] \in SUBSET Pos(w) /\ R[l] = Ahead(w, K[l], R[l - 1]) /\ Follows(w, R[l - 1], K[l])
  BY <1>1, Innermost
<1> QED BY <1>1, <1>2 DEF Stuck

\* Calls that are the same agree in the same way.
LEMMA AgreesSame ==
  ASSUME NEW w, NEW K, NEW N, NEW l \in Nat, \A k \in 1..l : N[k] = K[k], NEW x, NEW p,
         Agrees(w, K, l, x, p)
  PROVE  Agrees(w, N, l, x, p)
<1>1. PICK R : /\ Resumes(R, w, K, l)
               /\ x \in Nonterminals => Follows(w, R[l], x)
               /\ Sentence(w) <=> Left(w, x, R[l], p)
  BY DEF Agrees
<1>2. Resumes(R, w, N, l)
  BY <1>1 DEF Resumes
<1> QED BY <1>1, <1>2 DEF Agrees

\* Before the first call the whole text is left, and after the last nothing is.
LEMMA AgreesEnds ==
  ASSUME NEW w \in Inputs, NEW K
  PROVE  /\ Agrees(w, K, 0, "list", 1)
         /\ \A p : Agrees(w, K, 0, "return", p) => (Sentence(w) <=> p = Len(w) + 1)
<1>0. Len(w) + 1 \in Pos(w) /\ Text(w)[Len(w) + 1] = "end"
  BY TextAt
<1>1. Agrees(w, K, 0, "list", 1)
  <2> DEFINE R == [k \in 0..0 |-> {Len(w) + 1}]
  <2>1. R[0] = {Len(w) + 1} /\ \A k \in 0..0 : k = 0
    OBVIOUS
  <2> HIDE DEF R
  <2>2. Resumes(R, w, K, 0)
    BY <1>0, <2>1 DEF Resumes
  <2>3. Follows(w, R[0], "list")
    BY <1>0, <2>1 DEF Follows, Follow
  <2>4. "list" \in Nonterminals
    BY DEF Nonterminals, Chain
  <2>5. Sentence(w) <=> Left(w, "list", R[0], 1)
    <3>1. Left(w, "list", R[0], 1) <=> \E q \in R[0] : Der(w, "list", 1, q)
      BY <2>4, LeftText
    <3> QED BY <2>1, <3>1 DEF Sentence
  <2> QED BY <2>2, <2>3, <2>5 DEF Agrees
<1>2. ASSUME NEW p, Agrees(w, K, 0, "return", p) PROVE Sentence(w) <=> p = Len(w) + 1
  <2>1. PICK R : Resumes(R, w, K, 0) /\ (Sentence(w) <=> Left(w, "return", R[0], p))
    BY <1>2 DEF Agrees
  <2>2. R[0] = {Len(w) + 1}
    BY <2>1 DEF Resumes
  <2>3. Left(w, "return", R[0], p) <=> p \in R[0]
    BY LeftCases
  <2> QED BY <2>1, <2>2, <2>3
<1> QED BY <1>1, <1>2

(***************************************************************************)
(* The moves of the parser                                                 *)
(***************************************************************************)

\* A call of factor, term, expr or list begins with its operand.
LEMMA MoveChain ==
  ASSUME NEW w \in Inputs, NEW p \in Pos(w), NEW fn \in Chain
  PROVE  Down(w, fn, p, fn, Sub[fn], p)
<1>1. fn \in Nonterminals /\ Sub[fn] \in Nonterminals
  BY GrammarTokens
<1>2. ASSUME NEW F \in SUBSET Pos(w), Follows(w, F, fn)
      PROVE  /\ Left(w, fn, F, p) <=> Left(w, Sub[fn], Ahead(w, fn, F), p)
             /\ Follows(w, Ahead(w, fn, F), Sub[fn])
  <2>1. Left(w, fn, F, p) <=> \E q \in F : Der(w, fn, p, q)
    BY <1>1, LeftText
  <2>2. Left(w, Sub[fn], Ahead(w, fn, F), p) <=> \E m \in Ahead(w, fn, F) : Der(w, Sub[fn], p, m)
    BY <1>1, LeftText
  <2>3. Follows(w, Ahead(w, fn, F), Sub[fn])
    BY <1>2, AheadFollows
  <2> QED BY <2>1, <2>2, <2>3, ChainOpens
<1> QED BY <1>1, <1>2 DEF Down

\* A call of power begins with its signs.
LEMMA MovePower ==
  ASSUME NEW w \in Inputs, NEW p \in Pos(w)
  PROVE  Down(w, "power", p, "power", "power", p)
<1>1. "power" \in Nonterminals
  BY DEF Nonterminals
<1>2. \A F : Ahead(w, "power", F) = F
  BY AheadPower
<1> QED BY <1>1, <1>2 DEF Down

\* A call of base that is more than a leaf, by its first token.
LEMMA MoveBase ==
  ASSUME NEW w \in Inputs, NEW p \in Pos(w)
  PROVE  /\ Text(w)[p] \in Functions(0) => Down(w, "base", p, "base", "none", p + 1)
         /\ Text(w)[p] \in Functions(1) => Down(w, "base", p, "base", "power", p + 1)
         /\ Text(w)[p] \in Functions(2) => Down(w, "base", p, "first", "args", p + 1)
         /\ Text(w)[p] = "open" => Down(w, "base", p, "paren", "list", p + 1)
<1>1. /\ "base" \in Nonterminals /\ "none" \notin Nonterminals /\ "args" \notin Nonterminals
      /\ "base" \in {"power", "base"} /\ "power" \in {"power", "base"}
  BY DEF Nonterminals, Chain
<1>f. \A F : Follows(w, F, "base") => Follows(w, F, "first") /\ Follows(w, F, "paren")
  BY DEF Follows, Follow
<1>2. ASSUME Text(w)[p] \in Functions(0) PROVE Down(w, "base", p, "base", "none", p + 1)
  <2>1. \A F \in SUBSET Pos(w) : Left(w, "base", F, p) <=> Left(w, "none", Ahead(w, "base", F), p + 1)
    BY <1>2, BaseGoesOn
  <2> QED BY <1>1, <2>1 DEF Down
<1>3. ASSUME Text(w)[p] \in Functions(1) PROVE Down(w, "base", p, "base", "power", p + 1)
  <2>1. \A F \in SUBSET Pos(w) : Left(w, "base", F, p) <=> Left(w, "power", Ahead(w, "base", F), p + 1)
    BY <1>3, BaseGoesOn
  <2>2. \A F \in SUBSET Pos(w) : Follows(w, F, "base") => Follows(w, Ahead(w, "base", F), "power")
    BY <1>1, AheadFollows
  <2> QED BY <1>1, <2>1, <2>2 DEF Down
<1>4. ASSUME Text(w)[p] \in Functions(2) PROVE Down(w, "base", p, "first", "args", p + 1)
  <2>1. \A F \in SUBSET Pos(w) : Left(w, "base", F, p) <=> Left(w, "args", Ahead(w, "first", F), p + 1)
    BY <1>4, BaseGoesOn
  <2> QED BY <1>1, <1>f, <2>1 DEF Down
<1>5. ASSUME Text(w)[p] = "open" PROVE Down(w, "base", p, "paren", "list", p + 1)
  <2>1. \A F \in SUBSET Pos(w) : Left(w, "base", F, p) <=> Left(w, "list", Ahead(w, "paren", F), p + 1)
    BY <1>5, BaseGoesOn
  <2>2. \A F \in SUBSET Pos(w) : Follows(w, Ahead(w, "paren", F), "list")
    BY AheadFollows
  <2> QED BY <1>1, <1>f, <2>1, <2>2 DEF Down
<1> QED BY <1>2, <1>3, <1>4, <1>5

\* At an operator a level of the chain goes on with another operand.
LEMMA MoveMore ==
  ASSUME NEW w \in Inputs, NEW p \in Pos(w), NEW fn \in Chain, Text(w)[p] \in Ops[fn]
  PROVE  Over(w, fn, "return", p, fn, Sub[fn], p + 1)
<1>1. Sub[fn] \in Nonterminals /\ "return" \notin Nonterminals
  BY GrammarTokens DEF Nonterminals, Chain
<1>2. ASSUME NEW G \in SUBSET Pos(w), Follows(w, G, fn)
      PROVE  /\ Left(w, "return", Ahead(w, fn, G), p) <=> Left(w, Sub[fn], Ahead(w, fn, G), p + 1)
             /\ Follows(w, Ahead(w, fn, G), Sub[fn])
  <2>1. Left(w, "return", Ahead(w, fn, G), p) <=> p \in Ahead(w, fn, G)
    BY LeftCases
  <2>2. Left(w, Sub[fn], Ahead(w, fn, G), p + 1) <=> \E m \in Ahead(w, fn, G) : Der(w, Sub[fn], p + 1, m)
    BY <1>1, LeftText
  <2>3. Follows(w, Ahead(w, fn, G), Sub[fn])
    BY <1>2, AheadFollows
  <2>4. p \in Ahead(w, fn, G) <=> \E m \in Ahead(w, fn, G) : Der(w, Sub[fn], p + 1, m)
    BY <1>2, ChainGoesOn
  <2> QED BY <2>1, <2>2, <2>3, <2>4
<1> QED BY <1>1, <1>2 DEF Over

\* power reads over a sign, and goes on with base at any other token.
LEMMA MoveSign ==
  ASSUME NEW w \in Inputs, NEW p \in Pos(w)
  PROVE  /\ Text(w)[p] \in {"add", "sub"} => Over(w, "power", "power", p, "power", "power", p + 1)
         /\ Text(w)[p] \notin {"add", "sub"} => Over(w, "power", "power", p, "power", "base", p)
<1>1. "power" \in Nonterminals /\ "base" \in Nonterminals
  BY DEF Nonterminals
<1>2. \A G : Ahead(w, "power", G) = G
  BY AheadPower
<1>3. \A G, q : /\ Left(w, "power", G, q) <=> \E e \in G : Der(w, "power", q, e)
                /\ Left(w, "base", G, q) <=> \E e \in G : Der(w, "base", q, e)
  BY <1>1, LeftText
<1>4. \A G : Follows(w, G, "power") => Follows(w, G, "base")
  BY DEF Follows, Follow
<1>5. ASSUME Text(w)[p] \in {"add", "sub"} PROVE Over(w, "power", "power", p, "power", "power", p + 1)
  <2>1. \A G \in SUBSET Pos(w) : (\E q \in G : Der(w, "power", p, q)) <=> \E q \in G : Der(w, "power", p + 1, q)
    BY <1>5, PowerGoesOn
  <2>2. \A G \in SUBSET Pos(w) : Left(w, "power", G, p) <=> Left(w, "power", G, p + 1)
    BY <1>3, <2>1
  <2> QED BY <1>1, <1>2, <2>2 DEF Over
<1>6. ASSUME Text(w)[p] \notin {"add", "sub"} PROVE Over(w, "power", "power", p, "power", "base", p)
  <2>1. \A G \in SUBSET Pos(w) : (\E q \in G : Der(w, "power", p, q)) <=> \E q \in G : Der(w, "base", p, q)
    BY <1>6, PowerGoesOn
  <2>2. \A G \in SUBSET Pos(w) : Left(w, "power", G, p) <=> Left(w, "base", G, p)
    BY <1>3, <2>1
  <2> QED BY <1>1, <1>2, <1>4, <2>2 DEF Over
<1> QED BY <1>5, <1>6

\* A leaf is read.
LEMMA MoveLeaf ==
  ASSUME NEW w \in Inputs, NEW p \in Pos(w), NEW z \in Awaited, Text(w)[p] \in {"num", "var"}
  PROVE  Over(w, z, "base", p, z, "return", p + 1)
<1>1. "return" \notin Nonterminals
  BY DEF Nonterminals, Chain
<1>2. ASSUME NEW G \in SUBSET Pos(w)
      PROVE  Left(w, "base", Ahead(w, z, G), p) <=> Left(w, "return", Ahead(w, z, G), p + 1)
  <2>1. Ahead(w, z, G) \in SUBSET Pos(w)
    BY AheadPos
  <2> QED BY <2>1, BaseGoesOn
<1> QED BY <1>1, <1>2 DEF Over

\* The arguments of a function: "(" of none, "(" of two, the token before an argument,
\* and the separator.
LEMMA MoveArgs ==
  ASSUME NEW w \in Inputs, NEW p \in Pos(w)
  PROVE  /\ Text(w)[p] = "open" => Over(w, "base", "none", p, "base", "shut", p + 1)
         /\ Text(w)[p] = "open" => Over(w, "first", "args", p, "first", "arg", p)
         /\ \A z \in {"first", "last"} : Over(w, z, "arg", p, z, "expr", p + 1)
         /\ Text(w)[p] = "sep" => Over(w, "first", "return", p, "last", "arg", p)
<1>1. /\ {"none", "shut", "args", "arg", "return"} \cap Nonterminals = {} /\ "expr" \in Nonterminals
      /\ p \in Nat /\ p + 1 + 1 = p + 2
  BY TextAt DEF Nonterminals, Chain
<1>2. ASSUME Text(w)[p] = "open" PROVE Over(w, "base", "none", p, "base", "shut", p + 1)
  <2>1. ASSUME NEW G \in SUBSET Pos(w), Follows(w, G, "base")
        PROVE  Left(w, "none", G, p) <=> Left(w, "shut", G, p + 1)
    <3>1. p \notin G
      BY <1>2, <2>1 DEF Follows, Follow
    <3> QED BY <1>1, <1>2, <3>1, LeftCases
  <2>2. \A G : Ahead(w, "base", G) = G
    BY AheadPower
  <2> QED BY <1>1, <2>1, <2>2 DEF Over
<1>3. ASSUME Text(w)[p] = "open" PROVE Over(w, "first", "args", p, "first", "arg", p)
  <2>1. \A F : Left(w, "args", F, p) <=> Left(w, "arg", F, p)
    BY <1>3, LeftCases
  <2> QED BY <1>1, <2>1 DEF Over
<1>4. ASSUME NEW z \in {"first", "last"} PROVE Over(w, z, "arg", p, z, "expr", p + 1)
  <2>1. ASSUME NEW F PROVE Left(w, "arg", F, p) <=> Left(w, "expr", F, p + 1)
    <3>1. Left(w, "expr", F, p + 1) <=> \E q \in F : Der(w, "expr", p + 1, q)
      BY <1>1, LeftText
    <3> QED BY <3>1, LeftCases
  <2>2. \A G \in SUBSET Pos(w) : Follows(w, Ahead(w, z, G), "expr")
    BY AheadFollows
  <2> QED BY <1>1, <2>1, <2>2 DEF Over
<1>5. ASSUME Text(w)[p] = "sep" PROVE Over(w, "first", "return", p, "last", "arg", p)
  <2>1. ASSUME NEW G \in SUBSET Pos(w)
        PROVE  Left(w, "return", Ahead(w, "first", G), p) <=> Left(w, "arg", Ahead(w, "last", G), p)
    <3>1. p \in Ahead(w, "first", G)
            <=> \E m \in Pos(w) : Der(w, "expr", p + 1, m) /\ Text(w)[m] = "close" /\ m + 1 \in G
      BY <1>5, AheadFirst
    <3>2. \A m : m \in Ahead(w, "last", G) <=> m \in Pos(w) /\ Text(w)[m] = "close" /\ m + 1 \in G
      BY AheadClose
    <3>3. Left(w, "arg", Ahead(w, "last", G), p) <=> \E m \in Ahead(w, "last", G) : Der(w, "expr", p + 1, m)
      BY LeftCases
    <3>4. Left(w, "return", Ahead(w, "first", G), p) <=> p \in Ahead(w, "first", G)
      BY LeftCases
    <3> QED BY <3>1, <3>2, <3>3, <3>4
  <2>2. \A G : Follows(w, G, "first") => Follows(w, G, "last")
    BY DEF Follows, Follow
  <2> QED BY <1>1, <2>1, <2>2 DEF Over
<1> QED BY <1>2, <1>3, <1>4, <1>5

\* A call ends.
LEMMA MoveUp ==
  ASSUME NEW w \in Inputs, NEW p \in Pos(w)
  PROVE  /\ \A fn \in Chain : Text(w)[p] \notin Ops[fn] => Up(w, fn, "return", p, p)
         /\ \A z \in {"power", "base"} : Up(w, z, "return", p, p)
         /\ Text(w)[p] # "open" => Up(w, "base", "none", p, p)
         /\ Text(w)[p] = "close" => Up(w, "base", "shut", p, p + 1)
         /\ \A z \in {"last", "paren"} : Text(w)[p] = "close" => Up(w, z, "return", p, p + 1)
<1>1. \A G : Ahead(w, "power", G) = G /\ Ahead(w, "base", G) = G
  BY AheadPower
<1>2. ASSUME NEW fn \in Chain, Text(w)[p] \notin Ops[fn] PROVE Up(w, fn, "return", p, p)
  <2>1. ASSUME NEW G \in SUBSET Pos(w) PROVE Left(w, "return", Ahead(w, fn, G), p) <=> p \in G
    <3>1. p \in Ahead(w, fn, G) <=> p \in G
      BY <1>2, ChainEnds
    <3>2. Left(w, "return", Ahead(w, fn, G), p) <=> p \in Ahead(w, fn, G)
      BY LeftCases
    <3> QED BY <3>1, <3>2
  <2> QED BY <2>1 DEF Up
<1>3. \A z \in {"power", "base"} : Up(w, z, "return", p, p)
  BY <1>1, LeftCases DEF Up
<1>4. ASSUME Text(w)[p] # "open" PROVE Up(w, "base", "none", p, p)
  BY <1>1, <1>4, LeftCases DEF Up
<1>5. ASSUME Text(w)[p] = "close" PROVE Up(w, "base", "shut", p, p + 1)
  BY <1>1, <1>5, LeftCases DEF Up
<1>6. ASSUME NEW z \in {"last", "paren"}, Text(w)[p] = "close" PROVE Up(w, z, "return", p, p + 1)
  <2>1. ASSUME NEW G \in SUBSET Pos(w) PROVE Left(w, "return", Ahead(w, z, G), p) <=> p + 1 \in G
    <3>1. p \in Ahead(w, z, G) <=> p + 1 \in G
      BY <1>6, AheadClose
    <3>2. Left(w, "return", Ahead(w, z, G), p) <=> p \in Ahead(w, z, G)
      BY LeftCases
    <3> QED BY <3>1, <3>2
  <2> QED BY <2>1 DEF Up
<1> QED BY <1>2, <1>3, <1>4, <1>5, <1>6

\* A call reports an error.
LEMMA MoveStuck ==
  ASSUME NEW w \in Inputs, NEW p \in Pos(w)
  PROVE  /\ \A z \in Awaited : Text(w)[p] \notin {"num", "var", "open"} \cup FunctionTokens => Stuck(w, z, "base", p)
         /\ \A z : Text(w)[p] # "close" => Stuck(w, z, "shut", p)
         /\ \A z : Text(w)[p] # "open" => Stuck(w, z, "args", p)
         /\ Text(w)[p] # "sep" => Stuck(w, "first", "return", p)
         /\ \A z \in {"last", "paren"} : Text(w)[p] # "close" => Stuck(w, z, "return", p)
<1>1. ASSUME NEW z \in Awaited, Text(w)[p] \notin {"num", "var", "open"} \cup FunctionTokens
      PROVE  Stuck(w, z, "base", p)
  <2>1. \A G \in SUBSET Pos(w) : Ahead(w, z, G) \in SUBSET Pos(w)
    BY AheadPos
  <2>2. \A F \in SUBSET Pos(w) : ~Left(w, "base", F, p)
    BY <1>1, BaseGoesOn
  <2> QED BY <2>1, <2>2 DEF Stuck
<1>2. ASSUME NEW z, Text(w)[p] # "close" PROVE Stuck(w, z, "shut", p)
  BY <1>2, LeftCases DEF Stuck
<1>3. ASSUME NEW z, Text(w)[p] # "open" PROVE Stuck(w, z, "args", p)
  BY <1>3, LeftCases DEF Stuck
<1>4. ASSUME Text(w)[p] # "sep" PROVE Stuck(w, "first", "return", p)
  <2>1. \A G : Left(w, "return", Ahead(w, "first", G), p) <=> p \in Ahead(w, "first", G)
    BY LeftCases
  <2>2. \A G : p \notin Ahead(w, "first", G)
    BY <1>4, AheadFirst
  <2> QED BY <2>1, <2>2 DEF Stuck
<1>5. ASSUME NEW z \in {"last", "paren"}, Text(w)[p] # "close" PROVE Stuck(w, z, "return", p)
  <2>1. \A G : Left(w, "return", Ahead(w, z, G), p) <=> p \in Ahead(w, z, G)
    BY LeftCases
  <2>2. \A G : p \notin Ahead(w, z, G)
    BY <1>5, AheadClose
  <2> QED BY <2>1, <2>2 DEF Stuck
<1> QED BY <1>1, <1>2, <1>3, <1>4, <1>5

(***************************************************************************)
(* The parser and the grammar                                              *)
(***************************************************************************)

\* What a call of the parser waits for, all of them, and what the innermost one has to
\* read next.
Awaiting(f, h) == IF Kind(f, h) = "wide" THEN (IF f.i = 0 THEN "first" ELSE "last") ELSE f.fn
Waiting == [k \in DOMAIN stack |-> Awaiting(stack[k], heap)]

Task ==
  CASE pc = "call" -> callee
    [] pc = "back" -> "return"
    [] pc = "loop" -> IF Top.fn = "power" THEN "power" ELSE "return"
    [] pc = "args" -> IF heap[Top.ret].params = <<>> THEN "none" ELSE "args"
    [] pc = "close" -> "shut"
    [] pc = "arg" -> "arg"

\* The texts that go on as the tokens read so far.
Extends(w) ==
  /\ w \in Inputs
  /\ Len(input) <= Len(w) + 1
  /\ \A k \in 1..Len(input) : Text(w)[k] = input[k]

\* While the parser has met no error, each of these is a text of the grammar just when
\* the calls can read the rest of it; afterwards none is.
Current == input # <<>> /\ tok = input[Len(input)]
Open == Current /\ \A w : Extends(w) => Agrees(w, Waiting, Len(stack), Task, Len(input))
Refused == tok = "error" /\ \A w : Extends(w) => ~Sentence(w)

Parses == pc \notin {"idle", "done", "over"} /\ ~oom => Open \/ Refused

\* What the calls wait for is in the grammar's terms.
LEMMA AwaitingType ==
  ASSUME NEW f \in CallSet, NEW h
  PROVE  /\ Awaiting(f, h) \in Awaited
         /\ f.fn # "base" => Awaiting(f, h) = f.fn
  BY DEF Awaiting, Awaited, CallSet, Kind, Chain

\* How the calls change: one ends, none does, one starts, one goes on.
LEMMA WaitingMove ==
  ASSUME Control, Own(Pt, Live), SameLens
  PROVE  /\ stack # <<>> /\ stack' = Below =>
              Len(stack') = Len(stack) - 1 /\ \A k \in 1..(Len(stack) - 1) : Waiting'[k] = Waiting[k]
         /\ stack' = stack => \A k \in 1..Len(stack) : Waiting'[k] = Waiting[k]
         /\ \A f \in CallSet : stack' = Append(stack, f) =>
              /\ Len(stack') = Len(stack) + 1 /\ Waiting'[Len(stack) + 1] = Awaiting(f, heap')
              /\ \A k \in 1..Len(stack) : Waiting'[k] = Waiting[k]
         /\ \A f \in CallSet : \A step : stack # <<>> /\ Continue(f, step) =>
              /\ Len(stack') = Len(stack) /\ Waiting'[Len(stack)] = Awaiting(f, heap') /\ Top' = f
              /\ \A k \in 1..(Len(stack) - 1) : Waiting'[k] = Waiting[k]
<1>0. DOMAIN stack = 1..Len(stack) /\ Len(stack) \in Nat
  BY DEF Control
<1>1. ASSUME NEW j \in DOMAIN stack PROVE Awaiting(stack[j], heap') = Awaiting(stack[j], heap)
  <2>1. stack[j] \in CallSet
    BY DEF Control
  <2>2. stack[j].fn = "base" => stack[j].ret \in DOMAIN heap
    BY <2>1, Held DEF CallSet, NIL, Live
  <2> QED BY <2>2 DEF Awaiting, Kind, SameLens
<1>2. ASSUME NEW j \in DOMAIN stack, j \in DOMAIN stack', stack'[j] = stack[j]
      PROVE  Waiting'[j] = Waiting[j]
  BY <1>1, <1>2 DEF Waiting
<1>3. ASSUME stack # <<>>, stack' = Below
      PROVE  Len(stack') = Len(stack) - 1 /\ \A k \in 1..(Len(stack) - 1) : Waiting'[k] = Waiting[k]
  <2>1. /\ stack' \in Seq(CallSet) /\ Len(stack') = Len(stack) - 1
        /\ \A k \in 1..(Len(stack) - 1) : stack'[k] = stack[k]
    BY <1>3, Pops
  <2>2. DOMAIN stack' = 1..(Len(stack) - 1)
    BY <2>1
  <2>3. \A n \in Nat : \A k \in 1..(n - 1) : k \in 1..n
    OBVIOUS
  <2> QED BY <1>0, <1>2, <2>1, <2>2, <2>3
<1>4. ASSUME stack' = stack PROVE \A k \in 1..Len(stack) : Waiting'[k] = Waiting[k]
  BY <1>0, <1>2, <1>4
<1>5. ASSUME NEW f \in CallSet, stack' = Append(stack, f)
      PROVE  /\ Len(stack') = Len(stack) + 1 /\ Waiting'[Len(stack) + 1] = Awaiting(f, heap')
             /\ \A k \in 1..Len(stack) : Waiting'[k] = Waiting[k]
  <2>1. Len(stack') = Len(stack) + 1 /\ Len(stack') \in DOMAIN stack' /\ stack'[Len(stack')] = f
    BY <1>5, Frames
  <2>2. \A j \in DOMAIN stack : j \in DOMAIN stack' /\ stack'[j] = stack[j]
    BY <1>5, Frames
  <2>3. Waiting'[Len(stack')] = Awaiting(f, heap')
    BY <2>1 DEF Waiting
  <2> QED BY <1>0, <1>2, <2>1, <2>2, <2>3
<1>6. ASSUME NEW f \in CallSet, NEW step, stack # <<>>, Continue(f, step)
      PROVE  /\ Len(stack') = Len(stack) /\ Waiting'[Len(stack)] = Awaiting(f, heap') /\ Top' = f
             /\ \A k \in 1..(Len(stack) - 1) : Waiting'[k] = Waiting[k]
  <2>1. /\ Len(stack') = Len(stack) /\ Len(stack) \in DOMAIN stack'
        /\ stack'[Len(stack)] = f
        /\ \A j \in DOMAIN stack : j < Len(stack) => j \in DOMAIN stack' /\ stack'[j] = stack[j]
    BY <1>6, Frames
  <2>2. Waiting'[Len(stack)] = Awaiting(f, heap')
    BY <2>1 DEF Waiting
  <2>3. \A n \in Nat : \A k \in 1..(n - 1) : k \in 1..n /\ k < n
    OBVIOUS
  <2>4. ASSUME NEW k \in 1..(Len(stack) - 1) PROVE Waiting'[k] = Waiting[k]
    <3>1. k \in DOMAIN stack /\ k < Len(stack)
      BY <1>0, <2>3
    <3> QED BY <1>2, <2>1, <3>1
  <2>5. Top' = f
    BY <2>1 DEF Top
  <2> QED BY <2>1, <2>2, <2>4, <2>5
<1> QED BY <1>3, <1>4, <1>5, <1>6

\* A text that goes on as what has been read has the parser's token where it is.
LEMMA ExtendsAt ==
  ASSUME Control, Current, NEW w, Extends(w)
  PROVE  w \in Inputs /\ Len(input) \in Pos(w) /\ Text(w)[Len(input)] = tok
<1>1. w \in Inputs /\ Len(w) \in Nat
  BY TextAt DEF Extends
<1>2. Len(input) \in Nat /\ Len(input) > 0
  BY DEF Control, Current
<1>3. Len(input) \in 1..Len(input) /\ Len(input) \in 1..(Len(w) + 1)
  BY <1>1, <1>2 DEF Extends
<1> QED BY <1>1, <1>3 DEF Extends, Current, Pos

\* What goes on as more tokens goes on as fewer.
LEMMA ExtendsLess ==
  ASSUME Control, KeepToken \/ SetError \/ NextToken
  PROVE  /\ \A w : Extends(w)' => Extends(w)
         /\ KeepToken => input' = input /\ tok' = tok /\ Len(input') = Len(input)
         /\ NextToken => Len(input') = Len(input) + 1 /\ Current'
<1>0. Len(input) \in Nat /\ input \in Seq(AllTokens \cup {"end"})
  BY DEF Control
<1>1. CASE NextToken
  <2>1. input' = Append(input, tok') /\ tok' \in AllTokens \cup {"end"}
    BY <1>1, TokenRead DEF NextToken
  <2>2. /\ Len(input') = Len(input) + 1 /\ input'[Len(input) + 1] = tok'
        /\ \A k \in 1..Len(input) : input'[k] = input[k]
    BY <1>0, <2>1, Push
  <2>3. input' # <<>>
    BY <1>0, <2>2
  <2>4. ASSUME NEW w, Extends(w)' PROVE Extends(w)
    <3>1. w \in Inputs /\ Len(input') <= Len(w) + 1 /\ \A k \in 1..Len(input') : Text(w)[k] = input'[k]
      BY <2>4 DEF Extends
    <3>2. Len(w) \in Nat
      BY <3>1, TextAt
    <3>3. Len(input) <= Len(w) + 1 /\ \A k \in 1..Len(input) : k \in 1..Len(input')
      BY <1>0, <2>2, <3>1, <3>2
    <3> QED BY <2>2, <3>1, <3>3 DEF Extends
  <2>5. NextToken => Current'
    BY <2>2, <2>3 DEF Current
  <2>6. KeepToken => input' = input /\ tok' = tok /\ Len(input') = Len(input)
    BY DEF KeepToken
  <2> QED BY <2>2, <2>4, <2>5, <2>6
<1>2. CASE (KeepToken \/ SetError) /\ ~NextToken
  <2>1. input' = input /\ (KeepToken => tok' = tok)
    BY <1>2 DEF KeepToken, SetError
  <2> QED BY <1>2, <2>1 DEF Extends
<1> QED BY <1>1, <1>2

\* A step that starts a call keeps Open if it is a move of the grammar.
LEMMA OpenDown ==
  ASSUME Control, Own(Pt, Live), SameLens, Open, KeepToken \/ NextToken,
         NEW f \in CallSet, stack' = Append(stack, f),
         \A w \in Inputs : \A p \in Pos(w) : Text(w)[p] = tok /\ p = Len(input) =>
           Down(w, Task, p, Awaiting(f, heap'), Task', Len(input'))
  PROVE  Open'
<1>1. Current' /\ \A w : Extends(w)' => Extends(w)
  BY ExtendsLess DEF Open, Current
<1>2. /\ Len(stack) \in Nat /\ Len(stack') = Len(stack) + 1 /\ Waiting'[Len(stack) + 1] = Awaiting(f, heap')
      /\ \A k \in 1..Len(stack) : Waiting'[k] = Waiting[k]
  BY WaitingMove DEF Control
<1>3. Awaiting(f, heap') \in Awaited
  BY AwaitingType
<1>4. ASSUME NEW w, Extends(w)' PROVE Agrees(w, Waiting', Len(stack'), Task', Len(input'))
  <2>1. Agrees(w, Waiting, Len(stack), Task, Len(input)) /\ w \in Inputs
        /\ Len(input) \in Pos(w) /\ Text(w)[Len(input)] = tok
    BY <1>1, <1>4, ExtendsAt DEF Open
  <2>2. Down(w, Task, Len(input), Waiting'[Len(stack) + 1], Task', Len(input'))
    BY <1>2, <2>1
  <2>3. Waiting'[Len(stack) + 1] \in Awaited
    BY <1>2, <1>3
  <2>4. Agrees(w, Waiting', Len(stack) + 1, Task', Len(input'))
    BY <1>2, <2>1, <2>2, <2>3, AgreesDown
  <2> QED BY <1>2, <2>4
<1> QED BY <1>1, <1>4 DEF Open

\* So does one by which the innermost call goes on ...
LEMMA OpenOver ==
  ASSUME Control, Control', Own(Pt, Live), SameLens, Open, KeepToken \/ NextToken, stack # <<>>,
         stack' = stack \/ \E f \in CallSet : \E step : Continue(f, step),
         \A w \in Inputs : \A p \in Pos(w) : Text(w)[p] = tok /\ p = Len(input) =>
           Over(w, Waiting[Len(stack)], Task, p, Waiting'[Len(stack)], Task', Len(input'))
  PROVE  Open'
<1>1. Current' /\ \A w : Extends(w)' => Extends(w)
  BY ExtendsLess DEF Open, Current
<1>0. Len(stack) \in Nat /\ Len(stack) > 0 /\ (\A k \in 1..(Len(stack) - 1) : k \in 1..Len(stack))
  BY Pops
<1>2. Len(stack') = Len(stack) /\ \A k \in 1..(Len(stack) - 1) : Waiting'[k] = Waiting[k]
  BY <1>0, WaitingMove
<1>3. Waiting'[Len(stack)] \in Awaited
  <2>1. Len(stack) \in DOMAIN stack' /\ stack'[Len(stack)] \in CallSet
    BY <1>0, <1>2 DEF Control
  <2>2. Awaiting(stack'[Len(stack)], heap') \in Awaited
    BY <2>1, AwaitingType
  <2> QED BY <2>1, <2>2 DEF Waiting
<1>4. ASSUME NEW w, Extends(w)' PROVE Agrees(w, Waiting', Len(stack'), Task', Len(input'))
  <2>1. Agrees(w, Waiting, Len(stack), Task, Len(input)) /\ w \in Inputs
        /\ Len(input) \in Pos(w) /\ Text(w)[Len(input)] = tok
    BY <1>1, <1>4, ExtendsAt DEF Open
  <2>2. Over(w, Waiting[Len(stack)], Task, Len(input), Waiting'[Len(stack)], Task', Len(input'))
    BY <2>1
  <2>4. Agrees(w, Waiting', Len(stack), Task', Len(input'))
    BY <1>0, <1>2, <1>3, <2>1, <2>2, AgreesOver
  <2> QED BY <1>2, <2>4
<1> QED BY <1>1, <1>4 DEF Open

\* ... or ends.
LEMMA OpenUp ==
  ASSUME Control, Own(Pt, Live), SameLens, Open, KeepToken \/ NextToken,
         stack # <<>>, stack' = Below, pc' = "back",
         \A w \in Inputs : \A p \in Pos(w) : Text(w)[p] = tok /\ p = Len(input) =>
           Up(w, Waiting[Len(stack)], Task, p, Len(input'))
  PROVE  Open'
<1>1. Current' /\ \A w : Extends(w)' => Extends(w)
  BY ExtendsLess DEF Open, Current
<1>0. Len(stack) \in Nat /\ Len(stack) > 0 /\ Task' = "return"
  BY Pops DEF Task
<1>2. Len(stack') = Len(stack) - 1 /\ \A k \in 1..(Len(stack) - 1) : Waiting'[k] = Waiting[k]
  BY WaitingMove
<1>4. ASSUME NEW w, Extends(w)' PROVE Agrees(w, Waiting', Len(stack'), Task', Len(input'))
  <2>1. Agrees(w, Waiting, Len(stack), Task, Len(input)) /\ w \in Inputs
        /\ Len(input) \in Pos(w) /\ Text(w)[Len(input)] = tok
    BY <1>1, <1>4, ExtendsAt DEF Open
  <2>2. Up(w, Waiting[Len(stack)], Task, Len(input), Len(input'))
    BY <2>1
  <2>4. Agrees(w, Waiting', Len(stack) - 1, "return", Len(input'))
    BY <1>0, <1>2, <2>1, <2>2, AgreesUp
  <2> QED BY <1>0, <1>2, <2>4
<1> QED BY <1>1, <1>4 DEF Open

\* A step that leaves what is to be read alone.
LEMMA OpenSame ==
  ASSUME Control, Open, KeepToken, Task' = Task, Len(stack') = Len(stack),
         \A k \in 1..Len(stack) : Waiting'[k] = Waiting[k]
  PROVE  Open'
<1>1. input' = input /\ tok' = tok /\ Len(stack) \in Nat
  BY DEF KeepToken, Control
<1>2. ASSUME NEW w, Extends(w)' PROVE Agrees(w, Waiting', Len(stack'), Task', Len(input'))
  <2>1. Extends(w)
    BY <1>1, <1>2 DEF Extends
  <2>2. Agrees(w, Waiting, Len(stack), Task, Len(input))
    BY <2>1 DEF Open
  <2>3. Agrees(w, Waiting', Len(stack), Task, Len(input))
    BY <1>1, <2>2, AgreesSame
  <2> QED BY <1>1, <2>3
<1>3. Current'
  BY <1>1 DEF Open, Current
<1> QED BY <1>2, <1>3 DEF Open

\* An error is one: no text of the grammar goes on as what has been read.
LEMMA OpenStuck ==
  ASSUME Control, Open, SetError, stack # <<>>,
         \A w \in Inputs : \A p \in Pos(w) : Text(w)[p] = tok => Stuck(w, Waiting[Len(stack)], Task, p)
  PROVE  Refused'
<1>0. Len(stack) \in Nat /\ Len(stack) > 0
  BY Pops
<1>1. tok' = "error" /\ \A w : Extends(w)' => Extends(w)
  BY ExtendsLess DEF SetError
<1>2. ASSUME NEW w, Extends(w)' PROVE ~Sentence(w)
  <2>1. Agrees(w, Waiting, Len(stack), Task, Len(input)) /\ w \in Inputs
        /\ Len(input) \in Pos(w) /\ Text(w)[Len(input)] = tok
    BY <1>1, <1>2, ExtendsAt DEF Open
  <2>2. Stuck(w, Waiting[Len(stack)], Task, Len(input))
    BY <2>1
  <2> QED BY <1>0, <2>1, <2>2, AgreesStuck
<1> QED BY <1>1, <1>2 DEF Refused

\* An argument is attached in the place of NULL.
LEMMA AttachLens ==
  ASSUME Control, Own(Pt, Live), Filling, ArgAttached
  PROVE  SameLens
<1>1. /\ pc = "back" /\ stack # <<>> /\ Top.fn = "base"
      /\ heap' = [heap EXCEPT ![Top.ret].params[Top.i + 1] = val]
  BY DEF ArgAttached, InFrame
<1>2. Top.ret \in DOMAIN heap /\ Top.i \in Nat /\ heap[Top.ret].params \in Seq(Nat)
  BY <1>1, Awaits DEF Live
<1>3. DOMAIN heap' = DOMAIN heap /\ \A n \in DOMAIN heap : heap[n] \in NodeSet
  BY <1>1 DEF Control
<1>4. ASSUME NEW n \in DOMAIN heap PROVE Len(heap'[n].params) = Len(heap[n].params)
  <2>1. CASE n = Top.ret
    <3>1. heap'[n] = [heap[n] EXCEPT !.params[Top.i + 1] = val]
      BY <1>1, <2>1
    <3>2. heap'[n].params = [heap[n].params EXCEPT ![Top.i + 1] = val]
      BY <1>3, <3>1 DEF NodeSet
    <3>3. \A p \in Seq(Nat) : \A k, v \in Nat : Len([p EXCEPT ![k] = v]) = Len(p)
      OBVIOUS
    <3>4. val \in Nat
      BY DEF Control
    <3>5. \A a \in Nat : a + 1 \in Nat
      OBVIOUS
    <3> QED BY <1>2, <2>1, <3>2, <3>3, <3>4, <3>5
  <2>2. CASE n # Top.ret
    BY <1>1, <2>2
  <2> QED BY <2>1, <2>2
<1> QED BY <1>3, <1>4 DEF SameLens

\* No function has more than two parameters.
Narrow == pc \notin {"done", "over"} => \A n \in DOMAIN heap : Len(heap[n].params) <= 2

\* Every step keeps Narrow.
LEMMA NarrowStep ==
  ASSUME Control, Own(Pt, Live), Filling, Narrow, [Next]_vars
  PROVE  Narrow'
<1>d. heap \in Seq(NodeSet) /\ DOMAIN heap = 1..Len(heap)
  BY DEF Control
<1>1. ASSUME SameLens, pc \notin {"done", "over"} \/ pc' \in {"done", "over"},
             \A n \in DOMAIN heap' : n \in DOMAIN heap \/ Len(heap'[n].params) <= 2
      PROVE  Narrow'
  BY <1>1 DEF Narrow, SameLens
<1>2. ASSUME NEW x, Alloc(x), Len(x.params) <= 2
      PROVE  \A n \in DOMAIN heap' : n \in DOMAIN heap \/ Len(heap'[n].params) <= 2
  <2>1. heap' = Append(heap, x)
    BY <1>2 DEF Alloc
  <2>2. \A n \in DOMAIN heap' : n \in DOMAIN heap \/ heap'[n] = x
    BY <1>d, <2>1
  <2> QED BY <1>2, <2>2
<1>3. ASSUME NEW roots, Release(roots) PROVE DOMAIN heap' = DOMAIN heap
  BY <1>3 DEF Release
<1>s. ~ArgAttached /\ ~CompileOk => SameLens
  BY Steady DEF SameParams, SameLens
<1>4. CASE Compile \/ EnterChain \/ ChainFirst \/ ChainMore \/ ChainDone \/ EnterPower \/ PowerSign
           \/ PowerBase \/ PowerPlain \/ BaseOpen \/ NoArgs \/ NoArgsClose \/ Args \/ Arg \/ ParenBack
  <2>1. heap' = heap /\ pc \notin {"done", "over"}
    BY <1>4 DEF Compile, EnterChain, ChainFirst, ChainMore, ChainDone, EnterPower, PowerSign,
       PowerBase, PowerPlain, BaseOpen, NoArgs, NoArgsClose, Args, Arg, ParenBack, memory, InFrame, InBase
  <2> QED BY <2>1 DEF Narrow
<1>5. CASE ChainNull \/ ChainJoinFails \/ PowerNegateFails \/ BaseFails \/ ArgNull
  <2>1. Release({Top.ret}) \/ Release({val, Top.ret}) \/ Release({val}) \/ Release({})
    BY <1>5, Zenon DEF ChainNull, ChainJoinFails, PowerNegateFails, BaseFails, ArgNull, Free, AllocFails
  <2>2. DOMAIN heap' = DOMAIN heap
    BY <1>3, <2>1, Zenon
  <2>3. pc \notin {"done", "over"} /\ val' = NIL /\ pc' = "back"
    BY <1>5 DEF ChainNull, ChainJoinFails, PowerNegateFails, BaseFails, ArgNull, InFrame, InBase, Return
  <2>4. SameLens
    <3>1. ~CompileOk
      BY <2>3 DEF CompileOk
    <3>2. ~ArgAttached
      BY <1>5 DEF ArgAttached, ChainNull, ChainJoinFails, PowerNegateFails, BaseFails, ArgNull, InFrame, InBase, Chain
    <3> QED BY <1>s, <3>1, <3>2
  <2> QED BY <1>1, <2>2, <2>3, <2>4
<1>6. CASE ChainJoin \/ PowerNegate \/ BaseLeaf \/ BaseFunction \/ BaseDefault
  <2>1. \E x : Alloc(x) /\ Len(x.params) <= 2
    <3>1. CASE ChainJoin
      <4>1. Len(Node("fun", TRUE, <<Top.ret, val>>).params) <= 2
        BY DEF Node
      <4> QED BY <3>1, <4>1 DEF ChainJoin
    <3>2. CASE PowerNegate
      <4>1. Len(Node("fun", TRUE, <<val>>).params) <= 2
        BY DEF Node
      <4> QED BY <3>2, <4>1 DEF PowerNegate
    <3>3. CASE BaseLeaf
      <4>1. \A t : Len(Node(t, FALSE, <<>>).params) <= 2
        BY DEF Node
      <4> QED BY <3>3, <4>1 DEF BaseLeaf
    <3>4. CASE BaseDefault
      <4>1. Len(Node("var", FALSE, <<>>).params) <= 2
        BY DEF Node
      <4> QED BY <3>4, <4>1 DEF BaseDefault
    <3>5. CASE BaseFunction
      <4> DEFINE q == [k \in 1..Arity[tok] |-> NIL]
      <4>1. Arity[tok] \in {0, 1, 2} /\ Alloc(Node("fun", tok \notin Impure, q))
        BY <3>5 DEF BaseFunction, FunctionTokens, Arity
      <4>2. Len(q) <= 2
        BY <4>1
      <4> HIDE DEF q
      <4>3. Node("fun", tok \notin Impure, q).params = q
        BY DEF Node
      <4> QED BY <4>1, <4>2, <4>3
    <3> QED BY <1>6, <3>1, <3>2, <3>3, <3>4, <3>5
  <2>2. \A n \in DOMAIN heap' : n \in DOMAIN heap \/ Len(heap'[n].params) <= 2
    BY <1>2, <2>1
  <2>3. pc \notin {"done", "over"} /\ pc' # "done"
    BY <1>6 DEF ChainJoin, PowerNegate, BaseLeaf, BaseFunction, BaseDefault, InFrame, InBase, Return, Continue, Call
  <2>4. SameLens
    <3>1. ~CompileOk
      BY <2>3 DEF CompileOk
    <3>2. ~ArgAttached
      <4>1. ASSUME ArgAttached PROVE pc = "back" /\ Top.fn = "base" /\ DOMAIN heap' = DOMAIN heap
        BY <4>1 DEF ArgAttached, InFrame
      <4>2. pc = "back" => Top.fn \in Chain \cup {"power"}
        BY <1>6 DEF ChainJoin, PowerNegate, BaseLeaf, BaseFunction, BaseDefault, InFrame, InBase
      <4> QED BY <4>1, <4>2 DEF Chain
    <3> QED BY <1>s, <3>1, <3>2
  <2> QED BY <1>1, <2>2, <2>3, <2>4
<1>7. CASE ArgAttached
  <2>1. SameLens
    BY <1>7, AttachLens
  <2>2. DOMAIN heap' = DOMAIN heap /\ pc \notin {"done", "over"}
    BY <1>7 DEF ArgAttached, InFrame
  <2> QED BY <1>1, <2>1, <2>2
<1>8. CASE CompileNull \/ CompileError \/ CompileOk \/ FreeExpr
  BY <1>8 DEF CompileNull, CompileError, CompileOk, FreeExpr, Narrow
<1>9. CASE UNCHANGED vars
  BY <1>9 DEF vars, Narrow
<1> QED BY <1>4, <1>5, <1>6, <1>7, <1>8, <1>9 DEF Next

\* A node that base holds has no parameters, one, or two; of two, one is being parsed
\* unless none is yet.
LEMMA BaseHolds ==
  ASSUME Control, Own(Pt, Live), Filling, Narrow, stack # <<>>, Top.fn = "base", pc \notin {"done", "over"}
  PROVE  /\ Top.i \in Nat /\ heap[Top.ret].params \in Seq(Nat)
         /\ Len(heap[Top.ret].params) \in {0, 1, 2}
         /\ Len(heap[Top.ret].params) = 0 <=> heap[Top.ret].params = <<>>
         /\ Len(heap[Top.ret].params) = 2 =>
              Waiting[Len(stack)] = IF Top.i = 0 THEN "first" ELSE "last"
         /\ Len(heap[Top.ret].params) # 2 => Waiting[Len(stack)] = "base"
         /\ pc = "args" => Top.i = 0
         /\ pc \notin {"args", "close"} => Top.i < Len(heap[Top.ret].params)
         /\ pc = "close" => heap[Top.ret].params = <<>>
<1>1. Top \in CallSet /\ Len(stack) \in DOMAIN stack
  BY Pops DEF Control
<1>2. Top.i \in Nat /\ Top.ret # 0
  BY <1>1 DEF CallSet, NIL
<1>3. Top.ret \in DOMAIN heap
  BY <1>1, <1>2, Held DEF Top, Live
<1>4. heap[Top.ret] \in NodeSet
  BY <1>3 DEF Control
<1>5. heap[Top.ret].params \in Seq(Nat)
  BY <1>4 DEF NodeSet
<1>6. Len(heap[Top.ret].params) <= 2 /\ Len(heap[Top.ret].params) \in Nat
  BY <1>3, <1>5 DEF Narrow
<1>7. \A n \in Nat : n <= 2 => n \in {0, 1, 2}
  OBVIOUS
<1>8. Len(heap[Top.ret].params) \in {0, 1, 2}
  BY <1>6, <1>7
<1>9. Len(heap[Top.ret].params) = 0 <=> heap[Top.ret].params = <<>>
  BY <1>5
<1>10. Waiting[Len(stack)] = Awaiting(Top, heap)
  BY <1>1 DEF Waiting, Top
<1>11. /\ Len(heap[Top.ret].params) = 2 => Waiting[Len(stack)] = IF Top.i = 0 THEN "first" ELSE "last"
       /\ Len(heap[Top.ret].params) # 2 => Waiting[Len(stack)] = "base"
  <2>1. \A m \in {0, 1, 2} : m >= 2 <=> m = 2
    OBVIOUS
  <2>2. Kind(Top, heap) = IF Len(heap[Top.ret].params) = 2 THEN "wide" ELSE "base"
    BY <1>8, <2>1 DEF Kind
  <2> QED BY <1>10, <2>2 DEF Awaiting
<1>12. /\ pc = "args" => Top.i = 0
       /\ pc \notin {"args", "close"} => Top.i < Len(heap[Top.ret].params)
       /\ pc = "close" => heap[Top.ret].params = <<>>
  BY <1>1 DEF Filling, Top
<1> QED BY <1>2, <1>5, <1>8, <1>9, <1>11, <1>12

\* Every step but the first and the last keeps the parser in agreement with the grammar.
LEMMA OpenStep ==
  ASSUME Control, Control', Own(Pt, Live), Filling, Narrow, Told, Calling,
         pc \notin {"idle", "done", "over"}, ~oom, Open, [Next]_vars,
         pc' \notin {"idle", "done", "over"}, ~oom'
  PROVE  Open' \/ Refused'
<1> DEFINE l == Len(stack)
           W == Waiting[l]
<1>n. ~(pc = "back" /\ val = NIL)
  BY DEF Told
<1>t. stack # <<>> => /\ Top \in CallSet /\ l \in Nat /\ l > 0 /\ l \in 1..l /\ l \in DOMAIN stack
                      /\ W = Awaiting(Top, heap) /\ W \in Awaited
                      /\ Top.fn # "base" => W = Top.fn
  <2> SUFFICES ASSUME stack # <<>>
               PROVE  /\ Top \in CallSet /\ l \in Nat /\ l > 0 /\ l \in 1..l /\ l \in DOMAIN stack
                      /\ W = Awaiting(Top, heap) /\ W \in Awaited
                      /\ Top.fn # "base" => W = Top.fn
    OBVIOUS
  <2>1. Top \in CallSet /\ l \in Nat /\ l > 0
    BY Pops
  <2>2. l \in 1..l /\ l \in DOMAIN stack
    BY <2>1 DEF Control
  <2>3. W = Awaiting(Top, heap)
    BY <2>2 DEF Waiting, Top
  <2> QED BY <2>1, <2>2, <2>3, AwaitingType
<1>s. ~ArgAttached /\ ~CompileOk => SameLens
  BY Steady DEF SameParams, SameLens
<1>c. pc = "back" => Task = "return"
  BY DEF Task
<1>e. KeepToken => Len(input') = Len(input)
  BY DEF KeepToken
<1>x. NextToken => Len(input') = Len(input) + 1
  BY ExtendsLess
<1> HIDE DEF l, W
<1>1. CASE EnterChain \/ EnterPower
  <2>1. /\ pc = "call" /\ callee \in Chain \cup {"power"} /\ KeepToken
        /\ stack' = Append(stack, [fn |-> callee, ret |-> NIL, i |-> 0])
        /\ callee \in Chain => pc' = "call" /\ callee' = Sub[callee]
        /\ callee = "power" => pc' = "loop"
    BY <1>1 DEF EnterChain, EnterPower, Call, Chain
  <2> DEFINE f == [fn |-> callee, ret |-> NIL, i |-> 0]
  <2>2. f \in CallSet /\ f.fn = callee
    BY <2>1 DEF CallSet, Chain, NIL
  <2>3. stack' = Append(stack, f)
    BY <2>1
  <2> HIDE DEF f
  <2>4. Awaiting(f, heap') = callee
    BY <2>1, <2>2, AwaitingType DEF Chain
  <2>5. SameLens
    BY <1>s, <2>1 DEF ArgAttached, CompileOk, Returned, InFrame
  <2>6. Top' = f
    <3>1. Len(stack') = Len(stack) + 1 /\ stack'[Len(stack')] = f
      BY <2>2, <2>3, Frames
    <3> QED BY <3>1 DEF Top
  <2>7. Task = callee /\ (callee \in Chain => Task' = Sub[callee]) /\ (callee = "power" => Task' = "power")
    BY <2>1, <2>2, <2>6 DEF Task
  <2>8. ASSUME NEW w \in Inputs, NEW p \in Pos(w), p = Len(input)
        PROVE  Down(w, Task, p, Awaiting(f, heap'), Task', Len(input'))
    <3>1. Len(input') = p
      BY <1>e, <2>1, <2>8
    <3>2. callee \in Chain => Down(w, callee, p, callee, Sub[callee], p)
      BY MoveChain
    <3>3. Down(w, "power", p, "power", "power", p)
      BY MovePower
    <3> QED BY <2>1, <2>4, <2>7, <3>1, <3>2, <3>3
  <2> HIDE <1>1
  <2> QED BY <2>1, <2>2, <2>3, <2>5, <2>8, OpenDown
<1>2. CASE ChainFirst \/ ChainJoin
  <2>1. /\ pc = "back" /\ pc' = "loop" /\ stack # <<>> /\ Top.fn \in Chain /\ KeepToken
        /\ \E n \in Nat : Continue([Top EXCEPT !.ret = n], "loop")
    <3>1. New \in Nat /\ val \in Nat
      BY DEF Control, New
    <3> QED BY <1>2, <3>1 DEF ChainFirst, ChainJoin, InFrame, Continue
  <2>2. PICK n \in Nat : Continue([Top EXCEPT !.ret = n], "loop")
    BY <2>1
  <2> DEFINE f == [Top EXCEPT !.ret = n]
  <2>3. f \in CallSet /\ f.fn = Top.fn
    BY <1>t, <2>1 DEF CallSet, Chain
  <2>4. Continue(f, "loop")
    BY <2>2
  <2> HIDE DEF f
  <2>5. SameLens
    BY <1>s, <2>1, <1>2 DEF ArgAttached, CompileOk, Returned, InFrame, Chain
  <2>6. /\ Len(stack') = Len(stack) /\ Waiting'[Len(stack)] = Awaiting(f, heap') /\ Top' = f
        /\ \A k \in 1..(Len(stack) - 1) : Waiting'[k] = Waiting[k]
    BY <2>1, <2>3, <2>4, <2>5, WaitingMove
  <2>7. Waiting'[l] = Waiting[l]
    <3>1. f.fn # "base"
      BY <2>1, <2>3 DEF Chain
    <3>2. Awaiting(f, heap') = f.fn /\ Waiting[l] = Top.fn
      BY <1>t, <2>1, <2>3, <3>1, AwaitingType DEF W
    <3> QED BY <2>3, <2>6, <3>2 DEF l
  <2>8. \A k \in 1..Len(stack) : Waiting'[k] = Waiting[k]
    <3>1. \A k \in 1..Len(stack) : k = Len(stack) \/ k \in 1..(Len(stack) - 1)
      BY <1>t, <2>1 DEF l
    <3> QED BY <2>6, <2>7, <3>1 DEF l
  <2>9. Task' = Task
    BY <2>1, <2>3, <2>6 DEF Task, Chain
  <2> HIDE <1>2
  <2> QED BY <2>1, <2>6, <2>8, <2>9, OpenSame
<1>3. CASE ChainMore
  <2>1. /\ pc = "loop" /\ stack # <<>> /\ Top.fn \in Chain /\ tok \in Ops[Top.fn] /\ NextToken
        /\ stack' = stack /\ pc' = "call" /\ callee' = Sub[Top.fn]
    BY <1>3 DEF ChainMore, InFrame, Call
  <2>2. SameLens
    BY <1>s, <2>1 DEF ArgAttached, CompileOk, Returned, InFrame
  <2>3. Waiting'[l] = W /\ W = Top.fn
    <3>1. \A k \in 1..Len(stack) : Waiting'[k] = Waiting[k]
      BY <2>1, <2>2, WaitingMove
    <3>2. Top.fn # "base"
      BY <2>1 DEF Chain
    <3> QED BY <1>t, <2>1, <3>1, <3>2 DEF l, W
  <2>4. Task = "return" /\ Task' = Sub[Top.fn]
    BY <2>1 DEF Task, Chain
  <2>5. ASSUME NEW w \in Inputs, NEW p \in Pos(w), Text(w)[p] = tok, p = Len(input)
        PROVE  Over(w, W, Task, p, Waiting'[l], Task', Len(input'))
    <3>1. Over(w, Top.fn, "return", p, Top.fn, Sub[Top.fn], p + 1)
      BY <2>1, <2>5, MoveMore
    <3> QED BY <1>x, <2>1, <2>3, <2>4, <2>5, <3>1
  <2> HIDE <1>3
  <2> QED BY <2>1, <2>2, <2>5, OpenOver DEF l, W
<1>4. CASE ChainDone
  <2>1. /\ pc = "loop" /\ stack # <<>> /\ Top.fn \in Chain /\ tok \notin Ops[Top.fn] /\ KeepToken
        /\ stack' = Below /\ pc' = "back"
    BY <1>4 DEF ChainDone, InFrame, Return
  <2>2. SameLens
    BY <1>s, <2>1 DEF ArgAttached, CompileOk, Returned, InFrame
  <2>3. W = Top.fn /\ Task = "return"
    BY <1>t, <2>1 DEF Task, Chain
  <2>4. ASSUME NEW w \in Inputs, NEW p \in Pos(w), Text(w)[p] = tok, p = Len(input)
        PROVE  Up(w, W, Task, p, Len(input'))
    <3>1. Up(w, Top.fn, "return", p, p)
      BY <2>1, <2>4, MoveUp
    <3> QED BY <1>e, <2>1, <2>3, <2>4, <3>1
  <2> HIDE <1>4
  <2> QED BY <2>1, <2>2, <2>4, OpenUp DEF l, W
<1>5. CASE PowerSign
  <2>1. /\ pc = "loop" /\ stack # <<>> /\ Top.fn = "power" /\ tok \in {"add", "sub"} /\ NextToken
        /\ pc' = "loop" /\ Continue([Top EXCEPT !.i = IF tok = "sub" THEN 1 - @ ELSE @], "loop")
    BY <1>5 DEF PowerSign, InFrame, Continue
  <2> DEFINE f == [Top EXCEPT !.i = IF tok = "sub" THEN 1 - @ ELSE @]
  <2>2. f \in CallSet /\ f.fn = "power"
    BY <1>t, <2>1 DEF CallSet, Chain
  <2>3. Continue(f, "loop")
    BY <2>1
  <2> HIDE DEF f
  <2>4. SameLens
    BY <1>s, <2>1 DEF ArgAttached, CompileOk, Returned, InFrame
  <2>5. Waiting'[Len(stack)] = Awaiting(f, heap') /\ Top' = f
    BY <2>1, <2>2, <2>3, <2>4, WaitingMove
  <2>6. W = "power" /\ Waiting'[l] = "power" /\ Task = "power" /\ Task' = "power"
    <3>1. Awaiting(f, heap') = "power"
      BY <2>2, AwaitingType
    <3>2. W = "power"
      BY <1>t, <2>1
    <3> QED BY <2>1, <2>2, <2>5, <3>1, <3>2 DEF Task, l
  <2>7. ASSUME NEW w \in Inputs, NEW p \in Pos(w), Text(w)[p] = tok, p = Len(input)
        PROVE  Over(w, W, Task, p, Waiting'[l], Task', Len(input'))
    <3>1. Over(w, "power", "power", p, "power", "power", p + 1)
      BY <2>1, <2>7, MoveSign
    <3> QED BY <1>x, <2>1, <2>6, <2>7, <3>1
  <2> HIDE <1>5
  <2> QED BY <2>1, <2>2, <2>3, <2>4, <2>7, OpenOver DEF l, W
<1>6. CASE PowerBase
  <2>1. /\ pc = "loop" /\ stack # <<>> /\ Top.fn = "power" /\ tok \notin {"add", "sub"} /\ KeepToken
        /\ stack' = stack /\ pc' = "call" /\ callee' = "base"
    BY <1>6 DEF PowerBase, InFrame, Call
  <2>2. SameLens
    BY <1>s, <2>1 DEF ArgAttached, CompileOk, Returned, InFrame
  <2>3. Waiting'[l] = W /\ W = "power"
    <3>1. \A k \in 1..Len(stack) : Waiting'[k] = Waiting[k]
      BY <2>1, <2>2, WaitingMove
    <3> QED BY <1>t, <2>1, <3>1 DEF l, W
  <2>4. Task = "power" /\ Task' = "base"
    BY <2>1 DEF Task
  <2>5. ASSUME NEW w \in Inputs, NEW p \in Pos(w), Text(w)[p] = tok, p = Len(input)
        PROVE  Over(w, W, Task, p, Waiting'[l], Task', Len(input'))
    <3>1. Over(w, "power", "power", p, "power", "base", p)
      BY <2>1, <2>5, MoveSign
    <3> QED BY <1>e, <2>1, <2>3, <2>4, <2>5, <3>1
  <2> HIDE <1>6
  <2> QED BY <2>1, <2>2, <2>5, OpenOver DEF l, W
<1>7. CASE PowerPlain \/ PowerNegate
  <2>1. pc = "back" /\ stack # <<>> /\ Top.fn = "power" /\ KeepToken /\ stack' = Below /\ pc' = "back"
    BY <1>7 DEF PowerPlain, PowerNegate, InFrame, Return
  <2>2. SameLens
    BY <1>s, <1>7, <2>1 DEF ArgAttached, CompileOk, Returned, InFrame
  <2>3. W = "power" /\ Task = "return"
    BY <1>t, <1>c, <2>1
  <2>4. ASSUME NEW w \in Inputs, NEW p \in Pos(w), p = Len(input)
        PROVE  Up(w, W, Task, p, Len(input'))
    <3>1. Up(w, "power", "return", p, p)
      BY MoveUp
    <3> QED BY <1>e, <2>1, <2>3, <2>4, <3>1
  <2> HIDE <1>7
  <2> QED BY <2>1, <2>2, <2>4, OpenUp DEF l, W
<1>b. InBase => pc = "call" /\ callee = "base" /\ Task = "base" /\ stack # <<>>
  BY DEF InBase, Task, Calling
<1>8. CASE BaseLeaf
  <2>1. InBase /\ tok \in {"num", "var"} /\ NextToken /\ stack' = stack /\ pc' = "back"
    BY <1>8 DEF BaseLeaf, Return
  <2>2. SameLens
    BY <1>s, <1>b, <2>1 DEF ArgAttached, CompileOk, Returned, InFrame
  <2>3. Waiting'[l] = W /\ W \in Awaited
    <3>1. \A k \in 1..Len(stack) : Waiting'[k] = Waiting[k]
      BY <2>1, <2>2, WaitingMove
    <3> QED BY <1>t, <1>b, <2>1, <3>1 DEF l, W
  <2>4. Task = "base" /\ Task' = "return"
    BY <1>b, <2>1 DEF Task
  <2>5. ASSUME NEW w \in Inputs, NEW p \in Pos(w), Text(w)[p] = tok, p = Len(input)
        PROVE  Over(w, W, Task, p, Waiting'[l], Task', Len(input'))
    <3>1. Over(w, W, "base", p, W, "return", p + 1)
      BY <2>1, <2>3, <2>5, MoveLeaf
    <3> QED BY <1>x, <2>1, <2>3, <2>4, <2>5, <3>1
  <2> HIDE <1>8
  <2> QED BY <1>b, <2>1, <2>2, <2>5, OpenOver DEF l, W
<1>9. CASE BaseFunction
  <2> DEFINE f == [fn |-> "base", ret |-> New, i |-> 0]
             x == Node("fun", tok \notin Impure, [k \in 1..Arity[tok] |-> NIL])
  <2>1. /\ InBase /\ NextToken /\ tok \in FunctionTokens
        /\ stack' = Append(stack, f) /\ Alloc(x)
        /\ IF Arity[tok] = 1 THEN pc' = "call" /\ callee' = "power" ELSE pc' = "args"
    BY <1>9 DEF BaseFunction, Call
  <2>n. New \in Nat /\ New # 0
    BY DEF New, Control
  <2>2. f \in CallSet /\ f.fn = "base" /\ f.ret = New /\ f.i = 0
    BY <2>n DEF CallSet, Chain, NIL
  <2>3. x.params = [k \in 1..Arity[tok] |-> NIL] /\ Arity[tok] \in {0, 1, 2} /\ tok \in Functions(Arity[tok])
    BY <2>1, FunctionClasses DEF Node
  <2> HIDE DEF f, x
  <2>4. Len(heap'[New].params) = Arity[tok] /\ (Arity[tok] = 0 <=> heap'[New].params = <<>>)
    <3>1. heap'[New] = x
      BY <2>1 DEF Alloc, New, Control
    <3>2. Len([k \in 1..Arity[tok] |-> NIL]) = Arity[tok] /\ [k \in 1..Arity[tok] |-> NIL] \in Seq({NIL})
      BY <2>3
    <3>3. \A s \in Seq({NIL}) : Len(s) = 0 <=> s = <<>>
      OBVIOUS
    <3> QED BY <2>3, <3>1, <3>2, <3>3
  <2>5. Awaiting(f, heap') = IF Arity[tok] = 2 THEN "first" ELSE "base"
    BY <2>2, <2>3, <2>4 DEF Awaiting, Kind
  <2>6. SameLens
    BY <1>s, <1>b, <2>1 DEF ArgAttached, CompileOk, Returned, InFrame
  <2>7. Top' = f
    <3>1. Len(stack') = Len(stack) + 1 /\ stack'[Len(stack')] = f
      BY <2>1, <2>2, Frames
    <3> QED BY <3>1 DEF Top
  <2>8. /\ Arity[tok] = 0 => Task' = "none"
        /\ Arity[tok] = 1 => Task' = "power"
        /\ Arity[tok] = 2 => Task' = "args"
    BY <2>1, <2>2, <2>3, <2>4, <2>7 DEF Task
  <2>9. ASSUME NEW w \in Inputs, NEW p \in Pos(w), Text(w)[p] = tok, p = Len(input)
        PROVE  Down(w, Task, p, Awaiting(f, heap'), Task', Len(input'))
    <3>1. Len(input') = p + 1 /\ Task = "base"
      BY <1>x, <1>b, <2>1, <2>9
    <3>2. CASE Arity[tok] = 0
      <4>1. Down(w, "base", p, "base", "none", p + 1)
        BY <2>3, <2>9, <3>2, MoveBase
      <4> QED BY <2>5, <2>8, <3>1, <3>2, <4>1
    <3>3. CASE Arity[tok] = 1
      <4>1. Down(w, "base", p, "base", "power", p + 1)
        BY <2>3, <2>9, <3>3, MoveBase
      <4> QED BY <2>5, <2>8, <3>1, <3>3, <4>1
    <3>4. CASE Arity[tok] = 2
      <4>1. Down(w, "base", p, "first", "args", p + 1)
        BY <2>3, <2>9, <3>4, MoveBase
      <4> QED BY <2>5, <2>8, <3>1, <3>4, <4>1
    <3> QED BY <2>3, <3>2, <3>3, <3>4
  <2> HIDE <1>9
  <2> QED BY <2>1, <2>2, <2>6, <2>9, OpenDown
<1>10. CASE BaseOpen
  <2>1. /\ InBase /\ NextToken /\ tok = "open" /\ pc' = "call" /\ callee' = "list"
        /\ stack' = Append(stack, [fn |-> "paren", ret |-> NIL, i |-> 0])
    BY <1>10 DEF BaseOpen, Call
  <2> DEFINE f == [fn |-> "paren", ret |-> NIL, i |-> 0]
  <2>2. f \in CallSet /\ f.fn = "paren"
    BY <2>1 DEF CallSet, Chain, NIL
  <2>3. stack' = Append(stack, f)
    BY <2>1
  <2> HIDE DEF f
  <2>4. Awaiting(f, heap') = "paren" /\ Task = "base" /\ Task' = "list"
    BY <1>b, <2>1, <2>2, AwaitingType DEF Task
  <2>6. SameLens
    BY <1>s, <1>b, <2>1 DEF ArgAttached, CompileOk, Returned, InFrame
  <2>7. ASSUME NEW w \in Inputs, NEW p \in Pos(w), Text(w)[p] = tok, p = Len(input)
        PROVE  Down(w, Task, p, Awaiting(f, heap'), Task', Len(input'))
    <3>1. Down(w, "base", p, "paren", "list", p + 1)
      BY <2>1, <2>7, MoveBase
    <3> QED BY <1>x, <2>1, <2>4, <2>7, <3>1
  <2> HIDE <1>10
  <2> QED BY <2>1, <2>2, <2>3, <2>6, <2>7, OpenDown
<1>11. CASE BaseDefault
  <2>1. InBase /\ tok \notin {"num", "var", "open"} \cup FunctionTokens /\ SetError
    BY <1>11 DEF BaseDefault
  <2>2. ASSUME NEW w \in Inputs, NEW p \in Pos(w), Text(w)[p] = tok PROVE Stuck(w, W, Task, p)
    BY <1>b, <1>t, <2>1, <2>2, MoveStuck
  <2> QED BY <1>b, <2>1, <2>2, OpenStuck DEF l, W
<1>12. CASE NoArgs
  <2>1. /\ pc = "args" /\ stack # <<>> /\ Top.fn = "base" /\ heap[Top.ret].params = <<>> /\ heap' = heap
        /\ \/ tok = "open" /\ NextToken /\ Continue(Top, "close")
           \/ tok # "open" /\ KeepToken /\ Return(Below, Top.ret)
    BY <1>12 DEF NoArgs, InFrame, memory
  <2>2. W = "base" /\ Task = "none"
    BY <2>1, BaseHolds DEF Task, W, l
  <2>3. SameLens
    BY <1>s, <2>1 DEF ArgAttached, CompileOk, Returned, InFrame
  <2>4. CASE tok = "open" /\ NextToken /\ Continue(Top, "close")
    <3>1. Waiting'[l] = Awaiting(Top, heap') /\ Task' = "shut" /\ Top \in CallSet
      BY <1>t, <2>1, <2>3, <2>4, WaitingMove DEF Continue, Task, l
    <3>2. Waiting'[l] = "base"
      BY <1>t, <2>1, <2>2, <3>1
    <3>3. ASSUME NEW w \in Inputs, NEW p \in Pos(w), Text(w)[p] = tok, p = Len(input)
          PROVE  Over(w, W, Task, p, Waiting'[l], Task', Len(input'))
      <4>1. Over(w, "base", "none", p, "base", "shut", p + 1)
        BY <2>4, <3>3, MoveArgs
      <4> QED BY <1>x, <2>2, <2>4, <3>1, <3>2, <3>3, <4>1
    <3> QED BY <2>1, <2>3, <2>4, <3>1, <3>3, OpenOver DEF l, W
  <2>5. CASE tok # "open" /\ KeepToken /\ Return(Below, Top.ret)
    <3>1. pc' = "back" /\ stack' = Below
      BY <2>5 DEF Return
    <3>2. ASSUME NEW w \in Inputs, NEW p \in Pos(w), Text(w)[p] = tok, p = Len(input)
          PROVE  Up(w, W, Task, p, Len(input'))
      <4>1. Up(w, "base", "none", p, p)
        BY <2>5, <3>2, MoveUp
      <4> QED BY <1>e, <2>2, <2>5, <3>2, <4>1
    <3> QED BY <2>1, <2>3, <2>5, <3>1, <3>2, OpenUp DEF l, W
  <2> QED BY <2>1, <2>4, <2>5
<1>13. CASE NoArgsClose
  <2>1. /\ pc = "close" /\ stack # <<>> /\ Top.fn = "base" /\ pc' = "back" /\ stack' = Below
        /\ (tok # "close" /\ SetError) \/ (tok = "close" /\ NextToken)
    BY <1>13 DEF NoArgsClose, InFrame, Return
  <2>2. W = "base" /\ Task = "shut"
    <3>1. heap[Top.ret].params = <<>> /\ Len(heap[Top.ret].params) = 0
      BY <2>1, BaseHolds
    <3>2. Len(heap[Top.ret].params) # 2
      BY <3>1
    <3>3. W = "base"
      BY <2>1, <3>2, BaseHolds DEF W, l
    <3> QED BY <2>1, <3>3 DEF Task
  <2>3. SameLens
    BY <1>s, <2>1 DEF ArgAttached, CompileOk, Returned, InFrame
  <2>4. CASE tok # "close" /\ SetError
    <3>1. ASSUME NEW w \in Inputs, NEW p \in Pos(w), Text(w)[p] = tok PROVE Stuck(w, W, Task, p)
      BY <2>2, <2>4, <3>1, MoveStuck
    <3> QED BY <2>1, <2>4, <3>1, OpenStuck DEF l, W
  <2>5. CASE tok = "close" /\ NextToken
    <3>1. ASSUME NEW w \in Inputs, NEW p \in Pos(w), Text(w)[p] = tok, p = Len(input)
          PROVE  Up(w, W, Task, p, Len(input'))
      <4>1. Up(w, "base", "shut", p, p + 1)
        BY <2>5, <3>1, MoveUp
      <4> QED BY <1>x, <2>2, <2>5, <3>1, <4>1
    <3> QED BY <2>1, <2>3, <2>5, <3>1, OpenUp DEF l, W
  <2> QED BY <2>1, <2>4, <2>5
<1>14. CASE Args
  <2>1. /\ pc = "args" /\ stack # <<>> /\ Top.fn = "base" /\ heap[Top.ret].params # <<>> /\ heap' = heap
        /\ \/ tok = "open" /\ KeepToken /\ Continue(Top, "arg")
           \/ tok # "open" /\ SetError
    BY <1>14 DEF Args, InFrame, memory
  <2>2. W = "first" /\ Task = "args"
    <3>1. Len(heap[Top.ret].params) = 2 /\ Top.i = 0
      BY <2>1, BaseHolds DEF Calling
    <3> QED BY <2>1, <3>1, BaseHolds DEF Task, W, l
  <2>3. SameLens
    BY <1>s, <2>1 DEF ArgAttached, CompileOk, Returned, InFrame
  <2>4. CASE tok = "open" /\ KeepToken /\ Continue(Top, "arg")
    <3>1. Waiting'[l] = Awaiting(Top, heap') /\ Task' = "arg" /\ Top \in CallSet
      BY <1>t, <2>1, <2>3, <2>4, WaitingMove DEF Continue, Task, l
    <3>2. Waiting'[l] = "first"
      BY <1>t, <2>1, <2>2, <3>1
    <3>3. ASSUME NEW w \in Inputs, NEW p \in Pos(w), Text(w)[p] = tok, p = Len(input)
          PROVE  Over(w, W, Task, p, Waiting'[l], Task', Len(input'))
      <4>1. Over(w, "first", "args", p, "first", "arg", p)
        BY <2>4, <3>3, MoveArgs
      <4> QED BY <1>e, <2>2, <2>4, <3>1, <3>2, <3>3, <4>1
    <3> QED BY <2>1, <2>3, <2>4, <3>1, <3>3, OpenOver DEF l, W
  <2>5. CASE tok # "open" /\ SetError
    <3>1. ASSUME NEW w \in Inputs, NEW p \in Pos(w), Text(w)[p] = tok PROVE Stuck(w, W, Task, p)
      BY <2>2, <2>5, <3>1, MoveStuck
    <3> QED BY <2>1, <2>5, <3>1, OpenStuck DEF l, W
  <2> QED BY <2>1, <2>4, <2>5
<1>15. CASE Arg
  <2>1. /\ pc = "arg" /\ stack # <<>> /\ Top.fn = "base" /\ stack' = stack /\ pc' = "call" /\ callee' = "expr"
        /\ NextToken /\ Kinds[Len(stack)] = "wide"
    BY <1>15 DEF Arg, InFrame, Call, Calling
  <2>2. SameLens
    BY <1>s, <2>1 DEF ArgAttached, CompileOk, Returned, InFrame
  <2>3. W \in {"first", "last"} /\ Task = "arg" /\ Task' = "expr"
    <3>1. Kind(Top, heap) = "wide"
      BY <1>t, <2>1 DEF Kinds, Top, l
    <3> QED BY <1>t, <2>1, <3>1 DEF Awaiting, Task
  <2>4. Waiting'[l] = W
    <3>1. \A k \in 1..Len(stack) : Waiting'[k] = Waiting[k]
      BY <2>1, <2>2, WaitingMove
    <3> QED BY <1>t, <2>1, <3>1 DEF l, W
  <2>5. ASSUME NEW w \in Inputs, NEW p \in Pos(w), p = Len(input)
        PROVE  Over(w, W, Task, p, Waiting'[l], Task', Len(input'))
    <3>1. Over(w, W, "arg", p, W, "expr", p + 1)
      BY <2>3, MoveArgs
    <3> QED BY <1>x, <2>1, <2>3, <2>4, <2>5, <3>1
  <2> QED BY <2>1, <2>2, <2>5, OpenOver DEF l, W
<1>16. CASE ArgAttached
  <2> DEFINE n == Len(heap[Top.ret].params)
  <2>1. /\ pc = "back" /\ stack # <<>> /\ Top.fn = "base"
        /\ \/ n = 1 /\ KeepToken /\ Return(Below, Top.ret)
           \/ /\ n # 1 /\ tok = "sep" /\ Top.i + 1 < n /\ KeepToken
              /\ Continue([Top EXCEPT !.i = @ + 1], "arg")
           \/ /\ n # 1 /\ ~(tok = "sep" /\ Top.i + 1 < n) /\ Return(Below, Top.ret)
              /\ tok = "close" /\ Top.i + 1 = n /\ NextToken
           \/ /\ n # 1 /\ ~(tok = "sep" /\ Top.i + 1 < n)
              /\ ~(tok = "close" /\ Top.i + 1 = n) /\ SetError
    BY <1>16 DEF ArgAttached, InFrame
  <2>2. /\ Top.i \in Nat /\ n \in {0, 1, 2} /\ Top.i < n
        /\ n = 2 => W = IF Top.i = 0 THEN "first" ELSE "last"
        /\ n # 2 => W = "base"
    BY <2>1, BaseHolds DEF W, l
  <2>3. SameLens
    BY <1>16, AttachLens
  <2>4. /\ n = 1 \/ (n = 2 /\ Top.i \in {0, 1})
        /\ Top.i + 1 < n /\ n # 1 => n = 2 /\ Top.i = 0
        /\ Top.i + 1 = n /\ n # 1 => n = 2 /\ Top.i # 0
        /\ n # 1 => (Top.i = 0 <=> Top.i + 1 < n) /\ (Top.i # 0 <=> Top.i + 1 = n)
    <3>1. \A i \in Nat : \A m \in {0, 1, 2} : i < m =>
            /\ m = 1 \/ (m = 2 /\ i \in {0, 1})
            /\ i + 1 < m /\ m # 1 => m = 2 /\ i = 0
            /\ i + 1 = m /\ m # 1 => m = 2 /\ i # 0
            /\ m # 1 => (i = 0 <=> i + 1 < m) /\ (i # 0 <=> i + 1 = m)
      OBVIOUS
    <3> HIDE DEF n
    <3> QED BY <2>2, <3>1
  <2>5. CASE n = 1 /\ KeepToken /\ Return(Below, Top.ret)
    <3>1. pc' = "back" /\ stack' = Below /\ W = "base"
      BY <2>2, <2>5 DEF Return
    <3>2. ASSUME NEW w \in Inputs, NEW p \in Pos(w), p = Len(input)
          PROVE  Up(w, W, Task, p, Len(input'))
      <4>1. Up(w, "base", "return", p, p)
        BY MoveUp
      <4> QED BY <1>c, <1>e, <2>1, <2>5, <3>1, <3>2, <4>1
    <3> QED BY <2>1, <2>3, <2>5, <3>1, <3>2, OpenUp DEF l, W
  <2>6. CASE /\ n # 1 /\ tok = "sep" /\ Top.i + 1 < n /\ KeepToken
             /\ Continue([Top EXCEPT !.i = @ + 1], "arg")
    <3> DEFINE f == [Top EXCEPT !.i = @ + 1]
    <3>1. f \in CallSet /\ f.fn = "base" /\ f.ret = Top.ret /\ f.i # 0
      BY <1>t, <2>1, <2>2 DEF CallSet
    <3>2. Continue(f, "arg") /\ n = 2 /\ Top.i = 0
      <4> HIDE DEF n
      <4> QED BY <2>4, <2>6
    <3>3. Top.ret \in DOMAIN heap
      BY <2>1, Awaits DEF Live
    <3> HIDE DEF f
    <3>4. Awaiting(f, heap') = "last"
      <4>1. Len(heap'[f.ret].params) = 2
        BY <2>3, <3>1, <3>2, <3>3 DEF SameLens
      <4> QED BY <3>1, <4>1 DEF Awaiting, Kind
    <3>5. Waiting'[l] = "last" /\ W = "first" /\ Task' = "arg"
      <4>1. Waiting'[l] = Awaiting(f, heap')
        BY <2>1, <2>3, <3>1, <3>2, WaitingMove DEF l
      <4> QED BY <2>2, <3>2, <3>4, <4>1 DEF Continue, Task
    <3>6. ASSUME NEW w \in Inputs, NEW p \in Pos(w), Text(w)[p] = tok, p = Len(input)
          PROVE  Over(w, W, Task, p, Waiting'[l], Task', Len(input'))
      <4>1. Over(w, "first", "return", p, "last", "arg", p)
        BY <2>6, <3>6, MoveArgs
      <4> QED BY <1>c, <1>e, <2>1, <2>6, <3>5, <3>6, <4>1
    <3>7. KeepToken
      BY <2>6
    <3> HIDE <1>16, <2>6
    <3> QED BY <2>1, <2>3, <3>1, <3>2, <3>6, <3>7, OpenOver DEF l, W
  <2>7. CASE /\ n # 1 /\ ~(tok = "sep" /\ Top.i + 1 < n) /\ Return(Below, Top.ret)
             /\ tok = "close" /\ Top.i + 1 = n /\ NextToken
    <3>1. pc' = "back" /\ stack' = Below /\ W = "last"
      <4> HIDE DEF n
      <4>1. n = 2 /\ Top.i # 0
        BY <2>4, <2>7
      <4> QED BY <2>2, <2>7, <4>1 DEF Return
    <3>2. ASSUME NEW w \in Inputs, NEW p \in Pos(w), Text(w)[p] = tok, p = Len(input)
          PROVE  Up(w, W, Task, p, Len(input'))
      <4>1. Up(w, "last", "return", p, p + 1)
        BY <2>7, <3>2, MoveUp
      <4> QED BY <1>c, <1>x, <2>1, <2>7, <3>1, <3>2, <4>1
    <3> QED BY <2>1, <2>3, <2>7, <3>1, <3>2, OpenUp DEF l, W
  <2>8. CASE /\ n # 1 /\ ~(tok = "sep" /\ Top.i + 1 < n)
             /\ ~(tok = "close" /\ Top.i + 1 = n) /\ SetError
    <3>1. (W = "first" /\ tok # "sep") \/ (W = "last" /\ tok # "close")
      <4> HIDE DEF n
      <4>1. n = 2
        BY <2>4, <2>8
      <4>2. CASE Top.i = 0
        BY <2>2, <2>4, <2>8, <4>1, <4>2
      <4>3. CASE Top.i # 0
        BY <2>2, <2>4, <2>8, <4>1, <4>3
      <4> QED BY <4>2, <4>3
    <3>2. ASSUME NEW w \in Inputs, NEW p \in Pos(w), Text(w)[p] = tok PROVE Stuck(w, W, Task, p)
      BY <1>c, <2>1, <3>1, <3>2, MoveStuck
    <3> QED BY <2>1, <2>8, <3>2, OpenStuck DEF l, W
  <2> HIDE DEF n
  <2> QED BY <2>1, <2>5, <2>6, <2>7, <2>8
<1>17. CASE ParenBack
  <2>1. /\ pc = "back" /\ stack # <<>> /\ Top.fn = "paren" /\ pc' = "back" /\ stack' = Below
        /\ (tok # "close" /\ SetError) \/ (tok = "close" /\ NextToken)
    BY <1>n, <1>17 DEF ParenBack, InFrame, Return
  <2>2. W = "paren" /\ Task = "return"
    BY <1>t, <1>c, <2>1
  <2>3. SameLens
    BY <1>s, <2>1 DEF ArgAttached, CompileOk, Returned, InFrame
  <2>4. CASE tok # "close" /\ SetError
    <3>1. ASSUME NEW w \in Inputs, NEW p \in Pos(w), Text(w)[p] = tok PROVE Stuck(w, W, Task, p)
      BY <2>2, <2>4, <3>1, MoveStuck
    <3> QED BY <2>1, <2>4, <3>1, OpenStuck DEF l, W
  <2>5. CASE tok = "close" /\ NextToken
    <3>1. ASSUME NEW w \in Inputs, NEW p \in Pos(w), Text(w)[p] = tok, p = Len(input)
          PROVE  Up(w, W, Task, p, Len(input'))
      <4>1. Up(w, "paren", "return", p, p + 1)
        BY <2>5, <3>1, MoveUp
      <4> QED BY <1>x, <2>2, <2>5, <3>1, <4>1
    <3> QED BY <2>1, <2>3, <2>5, <3>1, OpenUp DEF l, W
  <2> QED BY <2>1, <2>4, <2>5
<1>18. ~(ChainNull \/ ArgNull)
  BY <1>n DEF ChainNull, ArgNull, InFrame
<1>19. ~(ChainJoinFails \/ PowerNegateFails \/ BaseFails)
  BY DEF ChainJoinFails, PowerNegateFails, BaseFails, AllocFails
<1>20. ~(Compile \/ CompileNull \/ CompileError \/ CompileOk \/ FreeExpr)
  BY DEF Compile, CompileNull, CompileError, CompileOk, FreeExpr
<1>21. CASE UNCHANGED vars
  BY <1>21 DEF vars, Open, Current, Extends, Waiting, Task, Top
<1> QED
  BY <1>1, <1>2, <1>3, <1>4, <1>5, <1>6, <1>7, <1>8, <1>9, <1>10, <1>11, <1>12, <1>13, <1>14,
     <1>15, <1>16, <1>17, <1>18, <1>19, <1>20, <1>21 DEF Next

\* No step reads a token after the end of the text.
LEMMA EndStep ==
  ASSUME Reads, Next, pc # "idle", tok = "end"
  PROVE  input' = input
<1>1. ~Compile
  BY DEF Compile
<1>2. CASE EnterChain \/ ChainNull \/ ChainFirst \/ ChainJoin \/ ChainJoinFails
           \/ ChainDone
  BY <1>2 DEF EnterChain, ChainNull, ChainFirst, ChainJoin, ChainJoinFails, ChainDone,
              KeepToken
<1>3. CASE ChainMore
  BY <1>3 DEF ChainMore, InFrame, Chain, Ops
<1>4. CASE EnterPower \/ PowerSign \/ PowerBase \/ PowerPlain \/ PowerNegate
           \/ PowerNegateFails
  BY <1>4 DEF EnterPower, PowerSign, PowerBase, PowerPlain, PowerNegate, PowerNegateFails,
              KeepToken
<1>5. CASE BaseLeaf \/ BaseFunction \/ BaseOpen \/ BaseDefault \/ BaseFails
  BY <1>5 DEF BaseLeaf, BaseFunction, BaseOpen, BaseDefault, BaseFails, KeepToken, SetError,
              FunctionTokens, Arity
<1>6. CASE NoArgs \/ NoArgsClose \/ Args \/ ArgNull \/ ParenBack
  BY <1>6 DEF NoArgs, NoArgsClose, Args, ArgNull, ParenBack, KeepToken, SetError
<1>7. CASE Arg
  BY <1>7 DEF Arg, InFrame, Reads
<1>8. CASE ArgAttached
  BY <1>8 DEF ArgAttached, KeepToken, SetError
<1>9. CASE CompileNull \/ CompileError \/ CompileOk \/ FreeExpr
  BY <1>9 DEF CompileNull, CompileError, CompileOk, FreeExpr
<1> QED
  BY <1>1, <1>2, <1>3, <1>4, <1>5, <1>6, <1>7, <1>8, <1>9 DEF Next

\* What has been read is a text within the bounds, perhaps with its end.
Fed ==
  /\ \A k \in 1..(Len(input) - 1) : input[k] # "end"
  /\ input # <<>> => Permitted(SubSeq(input, 1, Len(input) - 1))
  /\ input # <<>> /\ input[Len(input)] # "end" => Permitted(input)

\* Every step keeps Fed.
LEMMA FedStep ==
  ASSUME Control, Reads, Latest, Fed, [Next]_vars
  PROVE  Fed'
<1>0. Len(input) \in Nat /\ input \in Seq(AllTokens \cup {"end"})
  BY DEF Control
<1>1. CASE input' = input
  BY <1>1 DEF Fed
<1>2. CASE input' # input
  <2>1. Next /\ (pc = "idle" \/ tok \notin {"end", "error"})
    BY <1>2, EndStep, StickyStep DEF vars
  <2>2. NextToken
    BY <1>2, <2>1 DEF Next, Compile, EnterChain, ChainNull, ChainFirst, ChainJoin, ChainJoinFails,
       ChainMore, ChainDone, EnterPower, PowerSign, PowerBase, PowerPlain, PowerNegate,
       PowerNegateFails, BaseLeaf, BaseFunction, BaseOpen, BaseDefault, BaseFails, NoArgs,
       NoArgsClose, Args, Arg, ArgNull, ArgAttached, ParenBack, CompileNull, CompileError,
       CompileOk, FreeExpr, KeepToken, SetError
  <2>3. input = <<>> \/ input[Len(input)] # "end"
    BY <2>1 DEF Latest
  <2>4. Permitted(input)
    <3>1. CASE input = <<>>
      <4>1. Len(input) = 0 /\ 0 <= MaxTokens
        BY <3>1, TokenAssumption
      <4> QED BY <4>1 DEF Permitted
    <3> QED BY <2>3, <3>1 DEF Fed
  <2>5. input' = Append(input, tok') /\ tok' \in AllTokens \cup {"end"}
    BY <2>2, TokenRead DEF NextToken
  <2>6. /\ Len(input') = Len(input) + 1 /\ input'[Len(input) + 1] = tok'
        /\ \A k \in 1..Len(input) : input'[k] = input[k]
    BY <1>0, <2>5, Push
  <2>7. SubSeq(input', 1, Len(input') - 1) = input
    <3>1. input' \in Seq(AllTokens \cup {"end"}) /\ input' # <<>>
      BY <1>0, <2>5, <2>6
    <3>2. /\ SubSeq(input', 1, Len(input') - 1) \in Seq(AllTokens \cup {"end"})
          /\ Len(SubSeq(input', 1, Len(input') - 1)) = Len(input') - 1
          /\ \A k \in 1..(Len(input') - 1) : SubSeq(input', 1, Len(input') - 1)[k] = input'[k]
      BY <3>1, Pop
    <3>3. Len(input') - 1 = Len(input)
      BY <1>0, <2>6
    <3> QED BY <1>0, <2>6, <3>2, <3>3, SeqEqual
  <2>8. ASSUME NEW k \in 1..(Len(input') - 1) PROVE input'[k] # "end"
    <3>1. k \in 1..Len(input) /\ (k = Len(input) \/ k \in 1..(Len(input) - 1)) /\ input # <<>>
      BY <1>0, <2>6
    <3> QED BY <2>3, <2>6, <3>1 DEF Fed
  <2>9. tok' # "end" => Permitted(input')
    BY <2>2 DEF NextToken
  <2> QED BY <2>4, <2>6, <2>7, <2>8, <2>9 DEF Fed
<1> QED BY <1>1, <1>2

\* The sentences are the texts of the grammar that the bounds allow.
LEMMA SentenceIs ==
  /\ \A w \in Sentences : w \in Inputs /\ Sentence(w)
  /\ \A w \in Inputs : Sentence(w) /\ Permitted(w) => w \in Sentences
<1>0. MaxText \in Nat /\ "list" \in Nonterminals
  BY TextBound DEF Nonterminals, Chain
<1>1. ASSUME NEW w \in Seq(AllTokens)
      PROVE  Sentence(w) <=> w \in Texts(Len(w), "list")
  <2>1. Len(w) \in Nat
    OBVIOUS
  <2>2. Len(w) + 1 - 1 = Len(w) /\ 1 <= Len(w) + 1
    BY <2>1
  <2>3. Span(w, 1, Len(w) + 1) = w
    <3>1. /\ Shaped(Span(w, 1, Len(w) + 1), Len(w) + 1 - 1)
          /\ \A i \in 1..(Len(w) + 1 - 1) : Span(w, 1, Len(w) + 1)[i] = w[1 + i - 1]
      BY <2>1, <2>2, SpanShape
    <3>2. \A i \in 1..Len(w) : 1 + i - 1 = i
      OBVIOUS
    <3> QED BY <2>1, <2>2, <3>1, <3>2, SeqEqual DEF Shaped
  <2> QED BY <2>2, <2>3 DEF Sentence, Der
<1>2. ASSUME NEW w \in Sentences PROVE w \in Inputs /\ Sentence(w)
  <2>1. PICK n \in 0..MaxText : w \in Texts(n, "list")
    BY DEF Sentences, Texts
  <2>2. Shaped(w, n)
    BY <1>0, <2>1, TextShape DEF AllOf
  <2> QED BY <1>0, <1>1, <2>1, <2>2 DEF Shaped, Inputs
<1>3. ASSUME NEW w \in Inputs, Sentence(w), Permitted(w) PROVE w \in Sentences
  <2>1. w \in Seq(AllTokens) /\ Len(w) \in 0..MaxText
    BY <1>0 DEF Inputs
  <2>2. w \in Words[MaxText][Len(w)].list
    BY <1>1, <1>3, <2>1 DEF Texts
  <2> QED BY <1>3, <2>1, <2>2 DEF Sentences
<1> QED BY <1>2, <1>3

\* What te_compile refuses starts no text of the grammar, and what it accepts is one.
LEMMA Verdict ==
  ASSUME Control, Told, Latest, Fed, Parses, pc = "back", stack = <<>>, ~oom
  PROVE  /\ tok # "end" => input \notin Viable
         /\ tok = "end" => SubSeq(input, 1, Len(input) - 1) \in Sentences
<1>0. Len(input) \in Nat /\ input \in Seq(AllTokens \cup {"end"}) /\ Len(stack) = 0 /\ Task = "return"
      /\ (Open \/ Refused)
  BY DEF Control, Parses, Task
<1>1. ASSUME Open, NEW w, Extends(w) PROVE Sentence(w) <=> Len(input) = Len(w) + 1
  <2>1. Agrees(w, Waiting, 0, "return", Len(input)) /\ w \in Inputs
    BY <1>0, <1>1 DEF Open, Extends
  <2> QED BY <2>1, AgreesEnds
<1>2. ASSUME tok # "end", input \in Viable PROVE FALSE
  <2>1. PICK w \in Sentences : input \in {SubSeq(Text(w), 1, k) : k \in 0..Len(Text(w))}
    BY <1>2 DEF Viable, Text
  <2>2. PICK k \in 0..Len(Text(w)) : input = SubSeq(Text(w), 1, k)
    BY <2>1
  <2>3. w \in Inputs /\ Sentence(w) /\ w \in Seq(AllTokens) /\ Len(w) \in Nat
        /\ Text(w)[Len(w) + 1] = "end"
    BY SentenceIs, TextAt
  <2>4. Text(w) \in Seq(AllTokens \cup {"end"}) /\ Len(Text(w)) = Len(w) + 1
    BY <2>3 DEF Text
  <2>5. Len(input) = k /\ \A i \in 1..k : input[i] = Text(w)[i]
    <3>1. k \in Int /\ \A i \in 1..k : Text(w)[i] \in AllTokens \cup {"end"}
      BY <2>3, <2>4
    <3>2. /\ Len(SubSeq(Text(w), 1, k)) = IF 1 <= k THEN k - 1 + 1 ELSE 0
          /\ \A i \in 1..(k - 1 + 1) : SubSeq(Text(w), 1, k)[i] = Text(w)[1 + i - 1]
      BY <3>1, SubSeqProperties
    <3>3. k - 1 + 1 = k /\ (~(1 <= k) => k = 0) /\ \A i \in 1..k : 1 + i - 1 = i
      OBVIOUS
    <3> QED BY <2>2, <3>2, <3>3
  <2>6. Extends(w)
    BY <2>3, <2>4, <2>5 DEF Extends
  <2>7. CASE Refused
    BY <2>3, <2>6, <2>7 DEF Refused
  <2>8. CASE Open
    <3>1. Len(input) = Len(w) + 1
      BY <1>1, <2>3, <2>6, <2>8
    <3>2. tok = Text(w)[Len(input)]
      BY <2>6, <2>8, ExtendsAt DEF Open
    <3> QED BY <1>2, <2>3, <3>1, <3>2
  <2> QED BY <1>0, <2>7, <2>8
<1>3. ASSUME tok = "end" PROVE SubSeq(input, 1, Len(input) - 1) \in Sentences
  <2> DEFINE w == SubSeq(input, 1, Len(input) - 1)
  <2>1. Open /\ input # <<>> /\ input[Len(input)] = "end"
    BY <1>0, <1>3 DEF Refused, Open, Current
  <2>2. /\ w \in Seq(AllTokens \cup {"end"}) /\ Len(input) > 0 /\ Len(w) = Len(input) - 1
        /\ \A k \in 1..(Len(input) - 1) : w[k] = input[k]
    BY <1>0, <2>1, Pop
  <2>3. Permitted(w) /\ \A k \in 1..(Len(input) - 1) : input[k] # "end"
    BY <2>1 DEF Fed
  <2> HIDE DEF w
  <2>4. w \in Seq(AllTokens)
    <3>1. \A k \in 1..Len(w) : w[k] \in AllTokens
      <4>1. \A k \in 1..Len(w) : w[k] \in AllTokens \cup {"end"} /\ k \in 1..(Len(input) - 1)
        BY <2>2
      <4> QED BY <2>2, <2>3, <4>1
    <3>2. w = [k \in 1..Len(w) |-> w[k]] /\ Len(w) \in Nat
      BY <2>2
    <3> QED BY <3>1, <3>2
  <2>5. Len(w) <= MaxText
    <3>1. Len(w) <= MaxTokens \/ Len(w) <= MaxCore
      BY <2>3 DEF Permitted
    <3>2. MaxTokens \in Nat /\ MaxCore \in Nat /\ Len(w) \in Nat
      BY <2>4, TokenAssumption
    <3> QED BY <3>1, <3>2, TextBound
  <2>6. w \in Inputs
    BY <2>4, <2>5 DEF Inputs
  <2>7. Extends(w) /\ Len(input) = Len(w) + 1
    <3>1. /\ Len(input) = Len(w) + 1
          /\ \A k \in 1..Len(input) :
               k = Len(w) + 1 \/ (k \in 1..Len(w) /\ k \in 1..(Len(input) - 1))
      BY <1>0, <2>2
    <3>2. Text(w)[Len(w) + 1] = "end" /\ \A k \in 1..Len(w) : Text(w)[k] = w[k]
      BY <2>6, TextAt
    <3>3. ASSUME NEW k \in 1..Len(input) PROVE Text(w)[k] = input[k]
      BY <2>1, <2>2, <3>1, <3>2
    <3>4. Len(input) <= Len(w) + 1
      BY <1>0, <3>1
    <3> QED BY <2>6, <3>1, <3>3, <3>4 DEF Extends
  <2>8. Sentence(w)
    BY <1>1, <2>1, <2>7
  <2>9. w \in Sentences
    BY <2>3, <2>6, <2>8, SentenceIs
  <2> QED BY <2>9 DEF w
<1> QED BY <1>2, <1>3

\* Every step keeps Parses.
LEMMA ParsesStep ==
  ASSUME Control, Control', Own(Pt, Live), Filling, Reads, Latest, Narrow, Told, Calling, Parses, [Next]_vars
  PROVE  Parses'
<1> SUFFICES ASSUME pc' \notin {"idle", "done", "over"}, ~oom' PROVE Open' \/ Refused'
  BY DEF Parses
<1>1. CASE pc = "idle"
  <2>1. Compile
    BY <1>1 DEF Next, vars, Compile, EnterChain, ChainNull, ChainFirst, ChainJoin, ChainJoinFails,
       ChainMore, ChainDone, EnterPower, PowerSign, PowerBase, PowerPlain, PowerNegate,
       PowerNegateFails, BaseLeaf, BaseFunction, BaseOpen, BaseDefault, BaseFails, NoArgs,
       NoArgsClose, Args, Arg, ArgNull, ArgAttached, ParenBack, CompileNull, CompileError,
       CompileOk, FreeExpr, Returned, InFrame, InBase
  <2>2. stack' = <<>> /\ pc' = "call" /\ callee' = "list" /\ NextToken /\ input = <<>>
    BY <1>1, <2>1 DEF Compile, Call, Latest
  <2>3. Len(stack') = 0 /\ Task' = "list" /\ Len(input') = 1 /\ Current'
    BY <2>2, ExtendsLess DEF Task
  <2>4. ASSUME NEW w, Extends(w)' PROVE Agrees(w, Waiting', 0, "list", 1)
    BY <2>4, AgreesEnds DEF Extends
  <2> QED BY <2>3, <2>4 DEF Open
<1>2. CASE pc # "idle"
  <2>1. pc \notin {"idle", "done", "over"} /\ ~oom
    <3>1. ~Compile /\ ~CompileNull /\ ~CompileError /\ ~CompileOk /\ ~FreeExpr
      BY <1>2 DEF Compile, CompileNull, CompileError, CompileOk, FreeExpr
    <3>2. pc \notin {"idle", "done", "over"}
      BY <3>1 DEF Next, vars, EnterChain, ChainNull, ChainFirst, ChainJoin, ChainJoinFails,
         ChainMore, ChainDone, EnterPower, PowerSign, PowerBase, PowerPlain, PowerNegate,
         PowerNegateFails, BaseLeaf, BaseFunction, BaseOpen, BaseDefault, BaseFails, NoArgs,
         NoArgsClose, Args, Arg, ArgNull, ArgAttached, ParenBack, InFrame, InBase
    <3>3. oom' = oom \/ oom' = TRUE
      BY <3>1 DEF Next, vars, memory, EnterChain, ChainNull, ChainFirst, ChainJoin, ChainJoinFails,
         ChainMore, ChainDone, EnterPower, PowerSign, PowerBase, PowerPlain, PowerNegate,
         PowerNegateFails, BaseLeaf, BaseFunction, BaseOpen, BaseDefault, BaseFails, NoArgs,
         NoArgsClose, Args, Arg, ArgNull, ArgAttached, ParenBack, Alloc, AllocFails, Free
    <3> QED BY <3>2, <3>3
  <2>2. CASE Open
    BY <2>1, <2>2, OpenStep
  <2>3. CASE Refused
    <3>1. UNCHANGED <<tok, input>>
      BY <2>3, StickyStep DEF Refused
    <3> QED BY <2>3, <3>1 DEF Refused, Extends
  <2> QED BY <2>1, <2>2, <2>3 DEF Parses
<1> QED BY <1>1, <1>2

\* te_compile accepts only texts of the grammar in its comments, and gives up only at a
\* token that no text of the grammar has there: for every set of tokens and every bound
\* on the texts, whichever mallocs fail.
THEOREM AcceptsGrammarCorrect == Spec => []AcceptsGrammar
<1> DEFINE Inv == Told /\ Latest /\ Calling /\ Narrow /\ Fed /\ Parses /\ AcceptsGrammar
<1>1. Init => Inv
  <2> SUFFICES ASSUME Init PROVE Inv
    OBVIOUS
  <2>1. pc = "idle" /\ input = <<>> /\ heap = <<>> /\ stack = <<>> /\ oom = FALSE
    BY DEF Init
  <2>2. Told /\ Latest /\ Calling
    BY <2>1 DEF Told, ErrorCode, Latest, Calling
  <2>3. Narrow /\ Fed /\ Parses /\ AcceptsGrammar
    BY <2>1 DEF Narrow, Fed, Parses, AcceptsGrammar
  <2> QED BY <2>2, <2>3
<1>2. HeapInv /\ HeapInv' /\ Inv /\ [Next]_vars => Inv'
  <2> SUFFICES ASSUME HeapInv, HeapInv', Inv, [Next]_vars PROVE Inv'
    OBVIOUS
  <2>1. Control /\ Control' /\ Own(Pt, Live) /\ Filling /\ Reads
    BY DEF HeapInv
  <2>2. Told' /\ Latest' /\ Calling' /\ Narrow' /\ Fed' /\ Parses'
    BY <2>1, ToldStep, LatestStep, CallingStep, NarrowStep, FedStep, ParsesStep
  <2>3. AcceptsGrammar'
    <3>1. CASE CompileError
      <4>1. /\ pc = "back" /\ stack = <<>> /\ val # NIL /\ tok # "end" /\ input' = input
            /\ err' = 1 /\ oom' = oom
        BY <3>1 DEF CompileError, Returned, Free
      <4>2. ~oom' => input' \notin Viable
        BY <2>1, <4>1, Verdict
      <4> QED BY <4>1, <4>2 DEF AcceptsGrammar
    <3>2. CASE CompileOk
      <4>1. /\ pc = "back" /\ stack = <<>> /\ val # NIL /\ tok = "end" /\ input' = input /\ tok' = tok
            /\ err' = 0 /\ oom' = oom
        BY <3>2 DEF CompileOk, Returned, Optimize
      <4>2. ~oom' => SubSeq(input', 1, Len(input') - 1) \in Sentences
        BY <2>1, <4>1, Verdict
      <4> QED BY <4>1, <4>2 DEF AcceptsGrammar
    <3>3. CASE CompileNull
      <4>1. oom' = oom /\ oom
        BY <3>3 DEF CompileNull, Returned, memory, Told
      <4> QED BY <4>1 DEF AcceptsGrammar
    <3>4. CASE UNCHANGED vars
      BY <3>4 DEF vars, AcceptsGrammar
    <3>5. CASE ~CompileError /\ ~CompileOk /\ ~CompileNull /\ ~UNCHANGED vars
      <4>1. pc' # "done"
        BY <3>5 DEF Next, Compile, EnterChain, ChainNull, ChainFirst, ChainJoin, ChainJoinFails,
           ChainMore, ChainDone, EnterPower, PowerSign, PowerBase, PowerPlain, PowerNegate,
           PowerNegateFails, BaseLeaf, BaseFunction, BaseOpen, BaseDefault, BaseFails, NoArgs,
           NoArgsClose, Args, Arg, ArgNull, ArgAttached, ParenBack, FreeExpr, Call, Continue, Return
      <4> QED BY <4>1 DEF AcceptsGrammar
    <3> QED BY <3>1, <3>2, <3>3, <3>4, <3>5
  <2> QED BY <2>2, <2>3
<1>3. Inv => AcceptsGrammar
  OBVIOUS
<1> QED BY <1>1, <1>2, <1>3, HeapInvariant, PTL DEF Spec

==============================================================================
