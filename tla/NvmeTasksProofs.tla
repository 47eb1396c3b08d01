-------------------------- MODULE NvmeTasksProofs --------------------------
(***************************************************************************)
(* Any number of tasks may use the driver in turn: proofs about NvmeTasks  *)
(* for every set of tasks, number of polls and calls, and every length of  *)
(* the rings on which masking wraps as the controller does.                *)
(***************************************************************************)
EXTENDS NvmeTasks, TLAPS

(***************************************************************************)
(* Types                                                                   *)
(***************************************************************************)

\* Moving an index of the submission queue: the driver's mask and the controller
\* agree, and the result is another index.
LEMMA NextSq ==
  \A j \in SqIndex : /\ NextIndex(j, SqLen) = CtlNext(j, SqLen)
                     /\ CtlNext(j, SqLen) \in SqIndex
                     /\ CtlNext(j, SqLen) # j
<1>1. \A j \in SqIndex : NextIndex(j, SqLen) = CtlNext(j, SqLen)
  BY WrapAssumption DEF Wraps, SqIndex
<1>2. \A j \in SqIndex : CtlNext(j, SqLen) \in SqIndex /\ CtlNext(j, SqLen) # j
  BY TaskAssumption DEF CtlNext, SqIndex
<1> QED BY <1>1, <1>2

\* The same for the completion queue; a step goes up by one or back to zero.
LEMMA NextCq ==
  \A j \in CqIndex : /\ NextIndex(j, CqLen) = CtlNext(j, CqLen)
                     /\ CtlNext(j, CqLen) \in CqIndex
                     /\ CtlNext(j, CqLen) = j + 1 \/ (CtlNext(j, CqLen) = 0 /\ j = CqLen - 1)
                     /\ CtlNext(j, CqLen) < j <=> CtlNext(j, CqLen) = 0
<1>1. \A j \in CqIndex : NextIndex(j, CqLen) = CtlNext(j, CqLen)
  BY WrapAssumption DEF Wraps, CqIndex
<1>2. \A j \in CqIndex :
        /\ CtlNext(j, CqLen) \in CqIndex
        /\ CtlNext(j, CqLen) = j + 1 \/ (CtlNext(j, CqLen) = 0 /\ j = CqLen - 1)
        /\ CtlNext(j, CqLen) < j <=> CtlNext(j, CqLen) = 0
  BY TaskAssumption DEF CtlNext, CqIndex
<1> QED BY <1>1, <1>2

\* A step of a task keeps the types.
LEMMA StepTypes ==
  ASSUME TypeOK, NEW t \in Tasks, Step(t)
  PROVE  TypeOK'
<1>1. 0 \in SqIndex /\ 0 \in CqIndex /\ 0 \in Serial /\ 0 \in 0..Polls /\ Polls \in 0..Polls
  BY TaskAssumption DEF SqIndex, CqIndex, Serial
<1>2. \A j \in SqIndex : NextIndex(j, SqLen) \in SqIndex
  BY NextSq
<1>3. \A j \in CqIndex : NextIndex(j, CqLen) \in CqIndex
  BY NextCq
<1>4. TypeOK'
  <2>1. CASE Stage(t)
    BY <2>1, <1>1, <1>2, <1>3 DEF Stage, TypeOK, Goto, At, Entry, submission, completion, controller, local, history
  <2>2. CASE TestFull(t)
    BY <2>2, <1>1, <1>2, <1>3 DEF TestFull, TypeOK, Goto, At, Entry, submission, completion, controller, local, history
  <2>3. CASE GetSqe(t)
    BY <2>3, <1>1, <1>2, <1>3 DEF GetSqe, TypeOK, Goto, At, Entry, submission, completion, controller, local, history
  <2>4. CASE Fill(t)
    BY <2>4, <1>1, <1>2, <1>3 DEF Fill, TypeOK, Goto, At, Entry, submission, completion, controller, local, history
  <2>5. CASE FillNull(t)
    BY <2>5, <1>1, <1>2, <1>3 DEF FillNull, TypeOK, Goto, At, Entry, submission, completion, controller, local, history
  <2>6. CASE LoadTail(t)
    BY <2>6, <1>1, <1>2, <1>3 DEF LoadTail, TypeOK, Goto, At, Entry, submission, completion, controller, local, history
  <2>7. CASE StoreTail(t)
    BY <2>7, <1>1, <1>2, <1>3 DEF StoreTail, TypeOK, Goto, At, Entry, submission, completion, controller, local, history
  <2>8. CASE RingDoorbell(t)
    BY <2>8, <1>1, <1>2, <1>3 DEF RingDoorbell, TypeOK, Goto, At, Entry, submission, completion, controller, local, history
  <2>9. CASE PollEmpty(t)
    BY <2>9, <1>1, <1>2, <1>3 DEF PollEmpty, TypeOK, Goto, At, Entry, submission, completion, controller, local, history
  <2>10. CASE PollHit(t)
    BY <2>10, <1>1, <1>2, <1>3 DEF PollHit, TypeOK, Goto, At, Entry, submission, completion, controller, local, history
  <2>11. CASE Timeout(t)
    BY <2>11, <1>1, <1>2, <1>3 DEF Timeout, TypeOK, Goto, At, Entry, submission, completion, controller, local, history
  <2>12. CASE ConsumeNone(t)
    BY <2>12, <1>1, <1>2, <1>3 DEF ConsumeNone, TypeOK, Goto, At, Entry, submission, completion, controller, local, history
  <2>13. CASE Consume(t)
    BY <2>13, <1>1, <1>2, <1>3 DEF Consume, TypeOK, Goto, At, Entry, submission, completion, controller, local, history
  <2>14. CASE FlipPhase(t)
    BY <2>14, <1>1, <1>2, <1>3 DEF FlipPhase, TypeOK, Goto, At, Entry, submission, completion, controller, local, history
  <2>15. CASE StoreHead(t)
    BY <2>15, <1>1, <1>2, <1>3 DEF StoreHead, TypeOK, Goto, At, Entry, submission, completion, controller, local, history
  <2>16. CASE UpdateSqHead(t)
    BY <2>16, <1>1, <1>2, <1>3 DEF UpdateSqHead, TypeOK, Goto, At, Entry, submission, completion, controller, local, history
  <2>17. CASE ReleaseCqe(t)
    BY <2>17, <1>1, <1>2, <1>3 DEF ReleaseCqe, TypeOK, Goto, At, Entry, submission, completion, controller, local, history
  <2>18. CASE Return(t)
    BY <2>18, <1>1, <1>2, <1>3 DEF Return, TypeOK, Goto, At, Entry, submission, completion, controller, local, history
  <2> QED BY <2>1, <2>2, <2>3, <2>4, <2>5, <2>6, <2>7, <2>8, <2>9, <2>10, <2>11, <2>12, <2>13, <2>14, <2>15, <2>16, <2>17, <2>18 DEF Step
<1> QED BY <1>4

\* Entering the driver, and the controller, keep the types.
LEMMA OtherTypes ==
  ASSUME TypeOK, Fetch \/ Complete \/ \E t \in Tasks, k \in Kinds : Enter(t, k)
  PROVE  TypeOK'
<1>1. CASE Fetch
  <2>1. sqe[fetchHead] \in Entry /\ CtlNext(fetchHead, SqLen) \in SqIndex
    BY NextSq DEF TypeOK
  <2>2. executing' \subseteq (SqIndex \X Entry) /\ fetchHead' \in SqIndex
    BY <1>1, <2>1 DEF Fetch, TypeOK
  <2> QED BY <1>1, <2>2 DEF Fetch, TypeOK, submission, completion, local, history
<1>2. CASE Complete
  <2>1. PICK e \in executing :
          /\ cqe' = [cqe EXCEPT ![postTail] = [p |-> postPhase, sqHead |-> fetchHead]]
          /\ postTail' = CtlNext(postTail, CqLen)
          /\ postPhase' = IF postTail' = 0 THEN 1 - postPhase ELSE postPhase
          /\ executing' = executing \ {e}
          /\ moved' = IF Whole(e[2]) THEN moved \cup {e[2].data} ELSE moved
          /\ dma' = IF e[2].kind = "bounceRead" THEN e[2].lba ELSE dma
          /\ UNCHANGED <<submission, cqHead, cqPhase, cqDb, fetchHead, pc, local, res, history>>
    BY <1>2 DEF Complete
  <2>2. e[2] \in Entry
    BY DEF TypeOK
  <2>3. moved' \subseteq Serial /\ dma' \in Serial
    BY <2>1, <2>2 DEF TypeOK, Entry
  <2>4. postTail' \in CqIndex /\ postPhase' \in 0..1
    BY <2>1, NextCq DEF TypeOK
  <2>5. cqe' \in [CqIndex -> [p : 0..1, sqHead : SqIndex]]
    BY <2>1 DEF TypeOK
  <2> QED BY <2>1, <2>3, <2>4, <2>5 DEF TypeOK, submission, local, history
<1>3. ASSUME NEW t \in Tasks, NEW k \in Kinds, Enter(t, k) PROVE TypeOK'
  <2>1. calls + 1 \in Serial
    BY <1>3, TaskAssumption DEF Enter, TypeOK, Serial
  <2> QED BY <1>3, <2>1
          DEF Enter, Goto, At, Busy, TypeOK, submission, completion, controller
<1> QED BY <1>1, <1>2, <1>3

\* The initial state is well typed.
LEMMA InitTypes == Init => TypeOK
<1> SUFFICES ASSUME Init PROVE TypeOK
  OBVIOUS
<1>1. 0 \in SqIndex /\ 0 \in CqIndex /\ 0 \in Serial /\ 0 \in 0..Polls
  BY TaskAssumption DEF SqIndex, CqIndex, Serial
<1>2. Zeroes \in Entry
  BY <1>1 DEF Zeroes, Entry
<1>3. sqe \in [SqIndex -> Entry] /\ cqe \in [CqIndex -> [p : 0..1, sqHead : SqIndex]]
  BY <1>1, <1>2 DEF Init
<1>4. /\ pc \in [Tasks -> {"idle", "stage", "get", "take", "null", "fill", "commit", "store",
                          "ring", "wait", "consume", "flip", "advance", "sqhead",
                          "release", "copy", "crashed"}]
      /\ call \in [Tasks -> Serial] /\ kind \in [Tasks -> Kinds \cup {"zero"}]
      /\ slot \in [Tasks -> SqIndex] /\ nextTail \in [Tasks -> SqIndex]
      /\ polls \in [Tasks -> 0..Polls]
      /\ entry \in [Tasks -> CqIndex] /\ nextHead \in [Tasks -> CqIndex]
      /\ res \in [Tasks -> {"none", "ok", "bad", "failed"}]
  BY <1>1 DEF Init
<1>5. /\ sqHead \in SqIndex /\ sqTail \in SqIndex /\ sqDb \in SqIndex
      /\ cqHead \in CqIndex /\ cqPhase \in 0..1 /\ cqDb \in CqIndex
      /\ dma \in Serial /\ fetchHead \in SqIndex /\ executing \subseteq (SqIndex \X Entry)
      /\ postTail \in CqIndex /\ postPhase \in 0..1 /\ moved \subseteq Serial
      /\ calls \in Serial
  BY <1>1 DEF Init
<1>6. overlap \in BOOLEAN /\ lost \in BOOLEAN
  BY Zenon DEF Init
<1> QED BY <1>3, <1>4, <1>5, <1>6 DEF TypeOK

\* However many tasks interleave, no index leaves its ring.
THEOREM TasksTypeCorrect == Spec => []TypeOK
<1>1. TypeOK /\ [Next]_vars => TypeOK'
  <2> SUFFICES ASSUME TypeOK, [Next]_vars PROVE TypeOK'
    OBVIOUS
  <2>1. CASE UNCHANGED vars
    BY <2>1 DEF vars, submission, completion, controller, local, history, TypeOK
  <2> QED BY <2>1, StepTypes, OtherTypes DEF Next
<1> QED BY <1>1, InitTypes, PTL DEF Spec

(***************************************************************************)
(* The inductive invariant of calls that do not overlap                    *)
(***************************************************************************)

\* The phases of the completion queue: new below the controller's tail, old above.
Phases == \A j \in CqIndex : cqe[j].p = IF j < postTail THEN postPhase ELSE 1 - postPhase

\* Nothing is under way in the completion queue, or in either.
CqQuiet == cqDb = cqHead /\ postTail = cqHead /\ postPhase = cqPhase
Quiet == /\ sqHead = sqTail /\ sqDb = sqTail /\ fetchHead = sqTail /\ executing = {}
         /\ CqQuiet

\* The command of a task, and the data it staged for it.
Mine(t) == [data |-> call[t], lba |-> call[t], kind |-> kind[t]]
Staged(t) == call[t] > 0 /\ (kind[t] = "staged" => dma = call[t])

\* The command is in the queue; the controller runs it; it has answered.
Loaded(t) == /\ sqTail = CtlNext(sqHead, SqLen) /\ fetchHead = sqHead
             /\ sqe[sqHead] = Mine(t) /\ Staged(t) /\ executing = {} /\ CqQuiet

Running(t) == /\ fetchHead = sqTail
              /\ executing = {<<sqHead, Mine(t)>>} /\ Staged(t) /\ CqQuiet

Served(t) == /\ fetchHead = sqTail /\ sqDb = sqTail /\ executing = {}
             /\ call[t] \in moved /\ (kind[t] = "bounceRead" => dma = call[t])

Answered(t) == /\ Served(t)
               /\ cqDb = cqHead /\ postTail = CtlNext(cqHead, CqLen)
               /\ postPhase = IF postTail = 0 THEN 1 - cqPhase ELSE cqPhase
               /\ cqe[cqHead].sqHead = sqTail

\* What each step of a call finds.
Where(t) ==
  /\ pc[t] = "stage" => Quiet /\ call[t] > 0
  /\ pc[t] \in {"get", "take"} => Quiet /\ Staged(t)
  /\ pc[t] = "fill" => /\ Quiet /\ Staged(t) /\ slot[t] = sqTail
                       /\ sqe[sqTail] = [data |-> call[t], lba |-> 0, kind |-> kind[t]]
  /\ pc[t] = "commit" => Quiet /\ Staged(t) /\ sqe[sqTail] = Mine(t)
  /\ pc[t] = "store" => /\ Quiet /\ Staged(t) /\ sqe[sqTail] = Mine(t)
                        /\ nextTail[t] = CtlNext(sqTail, SqLen)
  /\ pc[t] = "ring" => Loaded(t) /\ sqDb = sqHead
  /\ pc[t] = "wait" => sqDb = sqTail /\ (Loaded(t) \/ Running(t) \/ Answered(t))
  /\ pc[t] = "consume" => Answered(t)
  /\ pc[t] = "flip" => Answered(t) /\ entry[t] = cqHead /\ nextHead[t] = postTail
  /\ pc[t] = "advance" => /\ Served(t) /\ entry[t] = cqHead /\ nextHead[t] = postTail
                          /\ cqPhase = postPhase /\ cqe[cqHead].sqHead = sqTail
  /\ pc[t] = "sqhead" => /\ Served(t) /\ cqHead = postTail /\ cqPhase = postPhase
                         /\ cqe[entry[t]].sqHead = sqTail
  /\ pc[t] = "release" => /\ Served(t) /\ cqHead = postTail /\ cqPhase = postPhase
                          /\ sqHead = sqTail
  /\ pc[t] = "copy" => Quiet /\ Served(t)

\* The calls were made one after the other and none timed out.
Turns == ~overlap /\ ~lost

InTurn ==
  /\ \A t \in Tasks : pc[t] \notin {"null", "crashed"} /\ res[t] \in {"none", "ok"}
  /\ \A t, u \in Tasks : Busy(t) /\ Busy(u) => t = u
  /\ (\A t \in Tasks : ~Busy(t)) => Quiet
  /\ \A t \in Tasks : Busy(t) => Where(t)

IInv == TypeOK /\ Phases /\ (Turns => InTurn)

\* Only a completion touches the phases, and it posts with the phase of its round.
LEMMA PhasesKept ==
  ASSUME TypeOK, Phases, [Next]_vars
  PROVE  Phases'
<1>1. CASE Complete
  <2>1. /\ cqe' = [cqe EXCEPT ![postTail] = [p |-> postPhase, sqHead |-> fetchHead]]
        /\ postTail' = CtlNext(postTail, CqLen)
        /\ postPhase' = IF postTail' = 0 THEN 1 - postPhase ELSE postPhase
    BY <1>1 DEF Complete
  <2>2. postTail \in CqIndex /\ postPhase \in 0..1 /\ CqLen \in Nat
    BY TaskAssumption DEF TypeOK
  <2> SUFFICES ASSUME NEW j \in CqIndex
               PROVE  cqe'[j].p = IF j < postTail' THEN postPhase' ELSE 1 - postPhase'
    BY DEF Phases
  <2>3. cqe'[j].p = IF j = postTail THEN postPhase ELSE cqe[j].p
    BY <2>1, <2>2 DEF TypeOK
  <2>4. cqe[j].p = IF j < postTail THEN postPhase ELSE 1 - postPhase
    BY DEF Phases
  <2>5. \/ postTail' = postTail + 1
        \/ postTail' = 0 /\ postTail = CqLen - 1
    BY <2>1, <2>2, NextCq
  <2> QED BY <2>1, <2>2, <2>3, <2>4, <2>5 DEF CqIndex
<1>2. CASE UNCHANGED <<cqe, postTail, postPhase>>
  BY <1>2 DEF Phases
<1>3. \A t \in Tasks : Step(t) => UNCHANGED <<cqe, postTail, postPhase>>
  BY DEF Step, Stage, TestFull, GetSqe, Fill, FillNull, LoadTail, StoreTail, RingDoorbell,
         PollEmpty, PollHit, Timeout, ConsumeNone, Consume, FlipPhase, StoreHead,
         UpdateSqHead, ReleaseCqe, Return, completion, controller
<1>4. \A t \in Tasks, k \in Kinds : Enter(t, k) => UNCHANGED <<cqe, postTail, postPhase>>
  BY DEF Enter, completion, controller
<1>5. Fetch => UNCHANGED <<cqe, postTail, postPhase>>
  BY DEF Fetch, completion
<1>6. UNCHANGED vars => UNCHANGED <<cqe, postTail, postPhase>>
  BY DEF vars, completion, controller
<1> QED BY <1>1, <1>2, <1>3, <1>4, <1>5, <1>6 DEF Next

\* A step of the only task inside the driver: what it leaves is all there is to
\* show.
LEMMA OnlyTask ==
  ASSUME TypeOK, InTurn, NEW t \in Tasks, Busy(t),
         NEW step, pc' = [pc EXCEPT ![t] = step],
         step \notin {"null", "crashed"},
         step = "idle" => Quiet', step # "idle" => Where(t)',
         \A u \in Tasks : res'[u] \in {"none", "ok"}
  PROVE  InTurn'
<1>1. \A u \in Tasks \ {t} : ~Busy(u) /\ pc'[u] = pc[u] /\ ~Busy(u)'
  BY DEF InTurn, TypeOK, Busy
<1>2. pc'[t] = step /\ (Busy(t)' <=> step # "idle")
  BY DEF TypeOK, Busy
<1>3. \A u \in Tasks : pc'[u] \notin {"null", "crashed"}
  BY <1>1, <1>2 DEF InTurn
<1> HIDE DEF Busy
<1>4. \A u, v \in Tasks : Busy(u)' /\ Busy(v)' => u = v
  BY <1>1
<1>5. (\A u \in Tasks : ~Busy(u)') => Quiet'
  BY <1>2
<1>6. \A u \in Tasks : Busy(u)' => Where(u)'
  BY <1>1, <1>2
<1> QED BY <1>3, <1>4, <1>5, <1>6 DEF InTurn

\* The task that is inside, and where it is.
LEMMA Inside ==
  ASSUME InTurn, NEW t \in Tasks, pc[t] \notin {"idle", "crashed"}
  PROVE  Busy(t) /\ Where(t)
  BY DEF InTurn, Busy

\* A step of a task keeps the calls in turn.
LEMMA StepInTurn ==
  ASSUME TypeOK, Phases, Turns, Turns', InTurn, NEW t \in Tasks, Step(t)
  PROVE  InTurn'
<1>1. \A u \in Tasks : res[u] \in {"none", "ok"}
  BY DEF InTurn
<1>2. ASSUME NEW step, pc' = [pc EXCEPT ![t] = step], pc[t] \notin {"idle", "crashed"},
             step \notin {"null", "crashed", "idle"}, Where(t)', UNCHANGED res
      PROVE  InTurn'
  BY <1>1, <1>2, Inside, OnlyTask
<1>3. PollCq <=> cqe[cqHead].p = cqPhase
  BY DEF PollCq
<1>4. Answered(t) => PollCq
  <2> SUFFICES ASSUME Answered(t) PROVE cqe[cqHead].p = cqPhase
    BY <1>3
  <2>1. cqHead \in CqIndex /\ cqPhase \in 0..1 /\ postTail \in CqIndex
    BY DEF TypeOK
  <2>2. cqe[cqHead].p = IF cqHead < postTail THEN postPhase ELSE 1 - postPhase
    BY <2>1 DEF Phases
  <2>3. \/ postTail = cqHead + 1
        \/ postTail = 0
    BY <2>1, NextCq DEF Answered
  <2> QED BY <2>1, <2>2, <2>3 DEF Answered, CqIndex
<1>5. CqQuiet => ~PollCq
  <2> SUFFICES ASSUME CqQuiet PROVE cqe[cqHead].p # cqPhase
    BY <1>3
  <2>1. cqHead \in CqIndex /\ cqPhase \in 0..1
    BY DEF TypeOK
  <2>2. cqe[cqHead].p = 1 - postPhase
    BY <2>1 DEF Phases, CqQuiet, CqIndex
  <2> QED BY <2>1, <2>2 DEF CqQuiet
<1>6. CASE Stage(t)
  <2>1. pc[t] = "stage" /\ pc' = [pc EXCEPT ![t] = "get"] /\ pc'[t] = "get"
    BY <1>6 DEF Stage, At, Goto, TypeOK
  <2>2. Where(t)
    BY <2>1, Inside
  <2>3. Where(t)'
    BY <1>6, <2>1, <2>2 DEF Stage, TypeOK, Where, Quiet, CqQuiet, Mine, Staged, Loaded, Running, Served, Answered, submission, completion, controller, local, history
  <2> QED BY <1>2, <1>6, <2>1, <2>3 DEF Stage
<1>7. CASE TestFull(t)
  <2>1. pc[t] = "get"
    BY <1>7 DEF TestFull, At
  <2>2. Where(t)
    BY <2>1, Inside
  <2>3. ~GetsNull
    BY <2>1, <2>2, NextSq DEF Where, Quiet, GetsNull, TypeOK
  <2>4. pc' = [pc EXCEPT ![t] = "take"] /\ pc'[t] = "take"
    BY <1>7, <2>3 DEF TestFull, Goto, TypeOK
  <2>5. Where(t)'
    BY <1>7, <2>1, <2>2, <2>4 DEF TestFull, Where, Quiet, CqQuiet, Mine, Staged, Loaded, Running, Served, Answered, submission, completion, controller, local, history
  <2> QED BY <1>2, <1>7, <2>1, <2>4, <2>5 DEF TestFull
<1>8. CASE GetSqe(t)
  <2>1. pc[t] = "take" /\ pc' = [pc EXCEPT ![t] = "fill"] /\ pc'[t] = "fill"
    BY <1>8 DEF GetSqe, At, Goto, TypeOK
  <2>2. Where(t)
    BY <2>1, Inside
  <2>3. Where(t)'
    BY <1>8, <2>1, <2>2 DEF GetSqe, TypeOK, Where, Quiet, CqQuiet, Mine, Staged, Loaded, Running, Served, Answered, submission, completion, controller, local, history
  <2> QED BY <1>2, <1>8, <2>1, <2>3 DEF GetSqe
<1>9. CASE Fill(t)
  <2>1. pc[t] = "fill" /\ pc' = [pc EXCEPT ![t] = "commit"] /\ pc'[t] = "commit"
    BY <1>9 DEF Fill, At, Goto, TypeOK
  <2>2. Where(t)
    BY <2>1, Inside
  <2>3. Where(t)'
    BY <1>9, <2>1, <2>2 DEF Fill, TypeOK, Where, Quiet, CqQuiet, Mine, Staged, Loaded, Running, Served, Answered, submission, completion, controller, local, history
  <2> QED BY <1>2, <1>9, <2>1, <2>3 DEF Fill
<1>10. CASE FillNull(t)
  BY <1>10 DEF FillNull, At, InTurn
<1>11. CASE LoadTail(t)
  <2>1. pc[t] = "commit" /\ pc' = [pc EXCEPT ![t] = "store"] /\ pc'[t] = "store"
    BY <1>11 DEF LoadTail, At, Goto, TypeOK
  <2>2. Where(t)
    BY <2>1, Inside
  <2>3. Where(t)'
    BY <1>11, <2>1, <2>2, NextSq DEF LoadTail, TypeOK, Where, Quiet, CqQuiet, Mine, Staged, Loaded, Running, Served, Answered, submission, completion, controller, local, history
  <2> QED BY <1>2, <1>11, <2>1, <2>3 DEF LoadTail
<1>12. CASE StoreTail(t)
  <2>1. pc[t] = "store" /\ pc' = [pc EXCEPT ![t] = "ring"] /\ pc'[t] = "ring"
    BY <1>12 DEF StoreTail, At, Goto, TypeOK
  <2>2. Where(t)
    BY <2>1, Inside
  <2>3. Where(t)'
    BY <1>12, <2>1, <2>2 DEF StoreTail, TypeOK, Where, Quiet, CqQuiet, Mine, Staged, Loaded, Running, Served, Answered, submission, completion, controller, local, history
  <2> QED BY <1>2, <1>12, <2>1, <2>3 DEF StoreTail
<1>13. CASE RingDoorbell(t)
  <2>1. pc[t] = "ring" /\ pc' = [pc EXCEPT ![t] = "wait"] /\ pc'[t] = "wait"
    BY <1>13 DEF RingDoorbell, At, Goto, TypeOK
  <2>2. Where(t)
    BY <2>1, Inside
  <2>3. Where(t)'
    BY <1>13, <2>1, <2>2 DEF RingDoorbell, TypeOK, Where, Quiet, CqQuiet, Mine, Staged, Loaded, Running, Served, Answered, submission, completion, controller, local, history
  <2> QED BY <1>2, <1>13, <2>1, <2>3 DEF RingDoorbell
<1>14. CASE PollEmpty(t)
  <2>1. pc[t] = "wait" /\ pc' = [pc EXCEPT ![t] = "wait"] /\ pc'[t] = "wait"
    BY <1>14 DEF PollEmpty, At, TypeOK
  <2>2. Where(t)
    BY <2>1, Inside
  <2>3. Where(t)'
    BY <1>14, <2>1, <2>2 DEF PollEmpty, Where, Quiet, CqQuiet, Mine, Staged, Loaded, Running, Served, Answered, submission, completion, controller, local, history
  <2> QED BY <1>2, <1>14, <2>1, <2>3 DEF PollEmpty
<1>15. CASE PollHit(t)
  <2>1. pc[t] = "wait" /\ pc' = [pc EXCEPT ![t] = "consume"] /\ pc'[t] = "consume"
    BY <1>15 DEF PollHit, At, Goto, TypeOK
  <2>2. Where(t)
    BY <2>1, Inside
  <2>3. Where(t)'
    BY <1>15, <2>1, <2>2, <1>5 DEF PollHit, TypeOK, Where, Quiet, CqQuiet, Mine, Staged, Loaded, Running, Served, Answered, submission, completion, controller, local, history
  <2> QED BY <1>2, <1>15, <2>1, <2>3 DEF PollHit
<1>16. CASE Timeout(t)
  BY <1>16 DEF Timeout, Turns
<1>17. CASE ConsumeNone(t)
  <2>1. pc[t] = "consume" /\ ~PollCq
    BY <1>17 DEF ConsumeNone, At
  <2> QED BY <1>4, <2>1, Inside DEF Where
<1>18. CASE Consume(t)
  <2>1. pc[t] = "consume" /\ pc' = [pc EXCEPT ![t] = "flip"] /\ pc'[t] = "flip"
    BY <1>18 DEF Consume, At, Goto, TypeOK
  <2>2. Where(t)
    BY <2>1, Inside
  <2>3. Where(t)'
    BY <1>18, <2>1, <2>2, NextCq DEF Consume, TypeOK, Where, Quiet, CqQuiet, Mine, Staged, Loaded, Running, Served, Answered, submission, completion, controller, local, history
  <2> QED BY <1>2, <1>18, <2>1, <2>3 DEF Consume
<1>19. CASE FlipPhase(t)
  <2>1. pc[t] = "flip" /\ pc' = [pc EXCEPT ![t] = "advance"] /\ pc'[t] = "advance"
    BY <1>19 DEF FlipPhase, At, Goto, TypeOK
  <2>2. Where(t)
    BY <2>1, Inside
  <2>3. Where(t)'
    BY <1>19, <2>1, <2>2, NextCq DEF FlipPhase, TypeOK, Where, Quiet, CqQuiet, Mine, Staged, Loaded, Running, Served, Answered, submission, completion, controller, local, history
  <2> QED BY <1>2, <1>19, <2>1, <2>3 DEF FlipPhase
<1>20. CASE StoreHead(t)
  <2>1. pc[t] = "advance" /\ pc' = [pc EXCEPT ![t] = "sqhead"] /\ pc'[t] = "sqhead"
    BY <1>20 DEF StoreHead, At, Goto, TypeOK
  <2>2. Where(t)
    BY <2>1, Inside
  <2>3. Where(t)'
    BY <1>20, <2>1, <2>2 DEF StoreHead, TypeOK, Where, Quiet, CqQuiet, Mine, Staged, Loaded, Running, Served, Answered, submission, completion, controller, local, history
  <2> QED BY <1>2, <1>20, <2>1, <2>3 DEF StoreHead
<1>21. CASE UpdateSqHead(t)
  <2>1. pc[t] = "sqhead" /\ pc' = [pc EXCEPT ![t] = "release"] /\ pc'[t] = "release"
    BY <1>21 DEF UpdateSqHead, At, Goto, TypeOK
  <2>2. Where(t)
    BY <2>1, Inside
  <2>3. Where(t)'
    BY <1>21, <2>1, <2>2 DEF UpdateSqHead, TypeOK, Where, Quiet, CqQuiet, Mine, Staged, Loaded, Running, Served, Answered, submission, completion, controller, local, history
  <2> QED BY <1>2, <1>21, <2>1, <2>3 DEF UpdateSqHead
<1>22. CASE ReleaseCqe(t)
  <2>1. pc[t] = "release" /\ pc' = [pc EXCEPT ![t] = "copy"] /\ pc'[t] = "copy"
    BY <1>22 DEF ReleaseCqe, At, Goto, TypeOK
  <2>2. Where(t)
    BY <2>1, Inside
  <2>3. Where(t)'
    BY <1>22, <2>1, <2>2 DEF ReleaseCqe, TypeOK, Where, Quiet, CqQuiet, Mine, Staged, Loaded, Running, Served, Answered, submission, completion, controller, local, history
  <2> QED BY <1>2, <1>22, <2>1, <2>3 DEF ReleaseCqe
<1>23. CASE Return(t)
  <2>1. pc[t] = "copy" /\ pc' = [pc EXCEPT ![t] = "idle"]
    BY <1>23 DEF Return, At, Goto
  <2>2. Busy(t) /\ Where(t)
    BY <2>1, Inside
  <2>3. Quiet'
    BY <1>23, <2>1, <2>2 DEF Return, Where, Quiet, CqQuiet, Mine, Staged, Loaded, Running, Served, Answered, submission, completion, controller, local, history
  <2>4. \A u \in Tasks : res'[u] \in {"none", "ok"}
    BY <1>1, <1>23, <2>1, <2>2 DEF Return, Where, Served, TypeOK
  <2> QED BY <2>1, <2>2, <2>3, <2>4, OnlyTask
<1> QED BY <1>6, <1>7, <1>8, <1>9, <1>10, <1>11, <1>12, <1>13, <1>14, <1>15, <1>16, <1>17, <1>18, <1>19, <1>20, <1>21, <1>22, <1>23 DEF Step

\* The controller serves the call that is waiting, and does nothing else.
LEMMA ControllerInTurn ==
  ASSUME TypeOK, InTurn, Fetch \/ Complete
  PROVE  InTurn'
<1>1. ~Quiet
  BY DEF Fetch, Complete, Quiet
<1>2. PICK t \in Tasks : Busy(t) /\ Where(t)
  BY <1>1 DEF InTurn
<1>3. UNCHANGED <<pc, res>>
  BY DEF Fetch, Complete
<1>4. \A u \in Tasks \ {t} : ~Busy(u)
  BY <1>2 DEF InTurn
<1>5. SUFFICES Where(t)'
  BY <1>2, <1>3, <1>4 DEF InTurn, Busy
<1>6. CASE Fetch
  <2>1. pc[t] = "wait" /\ Loaded(t) /\ sqDb = sqTail
    BY <1>2, <1>6 DEF Fetch, Busy, TypeOK, InTurn, Where, Quiet, Loaded, Running, Served, Answered
  <2>2. executing' = {<<sqHead, Mine(t)>>} /\ fetchHead' = sqTail
    BY <1>6, <2>1 DEF Fetch, Loaded
  <2>3. Running(t)' /\ sqDb' = sqTail'
    BY <1>6, <2>1, <2>2 DEF Fetch, Loaded, Running, CqQuiet, Mine, Staged, submission, completion, local
  <2> QED BY <1>3, <2>1, <2>3 DEF Where
<1>7. CASE Complete
  <2>1. PICK e \in executing :
          /\ cqe' = [cqe EXCEPT ![postTail] = [p |-> postPhase, sqHead |-> fetchHead]]
          /\ postTail' = CtlNext(postTail, CqLen)
          /\ postPhase' = IF postTail' = 0 THEN 1 - postPhase ELSE postPhase
          /\ executing' = executing \ {e}
          /\ moved' = IF Whole(e[2]) THEN moved \cup {e[2].data} ELSE moved
          /\ dma' = IF e[2].kind = "bounceRead" THEN e[2].lba ELSE dma
          /\ UNCHANGED <<submission, cqHead, cqPhase, cqDb, fetchHead, pc, local, res, history>>
    BY <1>7 DEF Complete
  <2>2. pc[t] = "wait" /\ Running(t) /\ sqDb = sqTail
    BY <1>2, <2>1 DEF Busy, TypeOK, InTurn, Where, Quiet, Loaded, Running, Served, Answered
  <2>3. e = <<sqHead, Mine(t)>> /\ e[2] = Mine(t) /\ executing' = {}
    BY <2>1, <2>2 DEF Running
  <2>4. Whole(e[2])
    BY <2>2, <2>3 DEF Whole, Running, Staged, Mine
  <2>5. call[t] \in moved' /\ (kind[t] = "bounceRead" => dma' = call[t])
    BY <2>1, <2>3, <2>4 DEF Mine
  <2>6. cqe'[cqHead].sqHead = sqTail
    BY <2>1, <2>2 DEF Running, CqQuiet, TypeOK
  <2>7. Answered(t)'
    BY <2>1, <2>2, <2>3, <2>5, <2>6
    DEF Answered, Served, Running, CqQuiet, submission, local
  <2> QED BY <1>3, <2>1, <2>2, <2>7 DEF Where, submission
<1> QED BY <1>6, <1>7

\* A call that begins while no other is inside finds both rings quiet.
LEMMA EnterInTurn ==
  ASSUME TypeOK, Turns', InTurn, NEW t \in Tasks, NEW k \in Kinds, Enter(t, k)
  PROVE  InTurn'
<1> DEFINE step == IF k = "staged" THEN "stage" ELSE "get"
<1>1. /\ pc[t] = "idle" /\ pc' = [pc EXCEPT ![t] = step] /\ pc'[t] = step
      /\ calls' = calls + 1 /\ call' = [call EXCEPT ![t] = calls + 1]
      /\ kind' = [kind EXCEPT ![t] = k] /\ res' = [res EXCEPT ![t] = "none"]
      /\ UNCHANGED <<submission, completion, dma, controller>>
  BY DEF Enter, At, Goto, TypeOK
<1>2. \A u \in Tasks \ {t} : ~Busy(u)
  BY DEF Enter, Turns
<1>3. Quiet
  BY <1>1, <1>2 DEF InTurn, Busy
<1>4. Quiet'
  BY <1>1, <1>3 DEF Quiet, CqQuiet, submission, completion, controller
<1>5. call'[t] > 0 /\ kind'[t] = k
  BY <1>1 DEF TypeOK, Serial
<1>6. Where(t)'
  BY <1>1, <1>4, <1>5 DEF Where, Staged
<1>7. \A u \in Tasks \ {t} : pc'[u] = pc[u] /\ ~Busy(u)'
  BY <1>1, <1>2 DEF TypeOK, Busy
<1>8. \A u \in Tasks : pc'[u] \notin {"null", "crashed"} /\ res'[u] \in {"none", "ok"}
  BY <1>1, <1>7 DEF InTurn, TypeOK
<1>9. Busy(t)'
  BY <1>1 DEF Busy
<1> HIDE DEF Busy
<1> QED BY <1>6, <1>7, <1>8, <1>9 DEF InTurn

\* Calls of any tasks that do not overlap, and do not time out, all succeed with
\* their own blocks, however the tasks take turns.
THEOREM TurnsAreSafeCorrect == Spec => []TurnsAreSafe
<1>1. Init => IInv
  <2> SUFFICES ASSUME Init PROVE IInv
    OBVIOUS
  <2>1. Phases
    BY DEF Init, Phases, CqIndex
  <2>2. InTurn
    BY DEF Init, InTurn, Busy, Quiet, CqQuiet
  <2> QED BY <2>1, <2>2, InitTypes DEF IInv
<1>2. IInv /\ [Next]_vars => IInv'
  <2> SUFFICES ASSUME IInv, [Next]_vars PROVE IInv'
    OBVIOUS
  <2>1. TypeOK'
    <3>1. CASE UNCHANGED vars
      BY <3>1 DEF vars, submission, completion, controller, local, history, TypeOK, IInv
    <3> QED BY <3>1, StepTypes, OtherTypes DEF Next, IInv
  <2>2. Phases'
    BY PhasesKept DEF IInv
  <2>3. Turns' => Turns
    <3>1. \A t \in Tasks : Step(t) => UNCHANGED overlap /\ (lost' = TRUE \/ UNCHANGED lost)
      BY DEF Step, Stage, TestFull, GetSqe, Fill, FillNull, LoadTail, StoreTail, RingDoorbell,
             PollEmpty, PollHit, Timeout, ConsumeNone, Consume, FlipPhase, StoreHead,
             UpdateSqHead, ReleaseCqe, Return, history
    <3>2. Fetch \/ Complete \/ UNCHANGED vars => UNCHANGED <<overlap, lost>>
      BY DEF Fetch, Complete, vars, history
    <3>3. \A t \in Tasks, k \in Kinds : Enter(t, k) => (overlap => overlap') /\ UNCHANGED lost
      BY DEF Enter
    <3> QED BY <3>1, <3>2, <3>3 DEF Next, Turns
  <2>4. ASSUME Turns' PROVE InTurn'
    <3>1. InTurn
      BY <2>3, <2>4 DEF IInv
    <3>2. CASE UNCHANGED vars
      BY <3>1, <3>2 DEF vars, submission, completion, controller, local, history, InTurn, Busy,
                        Where, Quiet, CqQuiet, Mine, Staged, Loaded, Running, Served, Answered
    <3> QED BY <2>3, <2>4, <3>1, <3>2, StepInTurn, ControllerInTurn, EnterInTurn DEF Next, IInv
  <2> QED BY <2>1, <2>2, <2>4 DEF IInv
<1>3. IInv => TurnsAreSafe
  BY DEF IInv, InTurn, Turns, TurnsAreSafe
<1> QED BY <1>1, <1>2, <1>3, PTL DEF Spec

=============================================================================
