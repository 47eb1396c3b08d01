--------------------------- MODULE NvmeQueueProofs ---------------------------
(***************************************************************************)
(* Proofs about NvmeQueue, for rings of any length on which masking wraps  *)
(* as the controller does, any number of polls and calls, and any set of   *)
(* statuses.                                                               *)
(***************************************************************************)
EXTENDS NvmeQueue, TLAPS

\* The lengths the driver ends up with: 64 and 256 for the admin rings, the
\* smaller of 256 and 1 + CAP.MQES for the I/O rings.
ASSUME WrapAssumption == Wraps(SqLen) /\ Wraps(CqLen)

IInv == TypeOK /\ RingInv /\ OwnCompletion

\* Moving an index of the submission ring: the driver's mask and the controller
\* agree, the result is an index, and it differs from where it started.
LEMMA NextSq ==
  \A i \in SqIndex : /\ NextIndex(i, SqLen) = CtlNext(i, SqLen)
                     /\ CtlNext(i, SqLen) \in SqIndex
                     /\ CtlNext(i, SqLen) # i
<1>1. \A i \in SqIndex : NextIndex(i, SqLen) = CtlNext(i, SqLen)
  BY WrapAssumption DEF Wraps, SqIndex
<1>2. \A i \in SqIndex : CtlNext(i, SqLen) \in SqIndex /\ CtlNext(i, SqLen) # i
  BY LengthAssumption DEF CtlNext, SqIndex
<1> QED BY <1>1, <1>2

\* The same for the completion ring; the index decreases exactly at the wrap.
LEMMA NextCq ==
  \A i \in CqIndex : /\ NextIndex(i, CqLen) = CtlNext(i, CqLen)
                     /\ CtlNext(i, CqLen) \in CqIndex
                     /\ CtlNext(i, CqLen) # i
                     /\ CtlNext(i, CqLen) < i <=> CtlNext(i, CqLen) = 0
<1>1. \A i \in CqIndex : NextIndex(i, CqLen) = CtlNext(i, CqLen)
  BY WrapAssumption DEF Wraps, CqIndex
<1>2. \A i \in CqIndex : /\ CtlNext(i, CqLen) \in CqIndex
                         /\ CtlNext(i, CqLen) # i
                         /\ CtlNext(i, CqLen) < i <=> CtlNext(i, CqLen) = 0
  BY LengthAssumption DEF CtlNext, CqIndex
<1> QED BY <1>1, <1>2

\* The initial rings satisfy the type invariant.
LEMMA InitType == Init => TypeOK
<1> SUFFICES ASSUME Init PROVE TypeOK
  OBVIOUS
<1>1. 0 \in SqIndex /\ 0 \in CqIndex /\ 0 \in Serial /\ 0 \in 0..Polls
  BY LengthAssumption, BoundAssumption DEF SqIndex, CqIndex, Serial
<1>2. sqe \in [SqIndex -> Command] /\ cqe \in [CqIndex -> Completion]
  BY <1>1 DEF Init, InitSq, InitCq, Command, Completion
<1>3. executing \in [SqIndex -> Command \cup {NoCmd}]
  BY DEF Init, InitController
<1>4. ret \in [ser : Serial, status : Statuses \cup {0, ErrorStatus}, of : Serial]
  BY <1>1 DEF Init
<1>5. /\ sqHead \in SqIndex /\ sqTail \in SqIndex /\ cqHead \in CqIndex
      /\ sqDb \in SqIndex /\ cqDb \in CqIndex
      /\ fetchHead \in SqIndex /\ postTail \in CqIndex
      /\ polls \in 0..Polls /\ copyFrom \in CqIndex
      /\ calls \in Serial /\ cur \in Serial
  BY <1>1 DEF Init, InitSq, InitCq, InitController
<1>6. cqPhase \in 0..1 /\ postPhase \in 0..1
  BY DEF Init, InitCq, InitController
<1>7. outcome \in Statuses \cup {NotRun} /\ lost \in BOOLEAN /\ nullStore \in BOOLEAN
  BY DEF Init
<1>8. pc \in {"idle", "wait", "copy", "crashed"}
  BY DEF Init
<1> QED
  BY <1>2, <1>3, <1>4, <1>5, <1>6, <1>7, <1>8 DEF TypeOK

\* Every step of the caller and of the controller keeps the types.
LEMMA TypeStep == TypeOK /\ [Next]_vars => TypeOK'
<1> SUFFICES ASSUME TypeOK, [Next]_vars PROVE TypeOK'
  OBVIOUS
<1> USE DEF TypeOK
<1>1. CASE Submit
  <2>1. calls + 1 \in Serial
    BY <1>1, BoundAssumption DEF Submit, Serial
  <2>2. sqe' \in [SqIndex -> Command]
    BY <1>1, <2>1 DEF Submit, Command
  <2>3. sqTail' \in SqIndex /\ sqDb' \in SqIndex
    BY <1>1, NextSq DEF Submit, CommitSqe
  <2> QED
    BY <1>1, <2>1, <2>2, <2>3, BoundAssumption
    DEF Submit, EnterWait, controller
<1>2. CASE Refuse
  <2>1. calls + 1 \in Serial /\ 0 \in Serial
    BY <1>2, BoundAssumption DEF Refuse, Serial
  <2> QED
    BY <1>2, <2>1 DEF Refuse, driver, controller
<1>3. CASE NullCrash
  BY <1>3 DEF NullCrash, driver, controller
<1>4. CASE NullStore
  <2>1. calls + 1 \in Serial
    BY <1>4, BoundAssumption DEF NullStore, Serial
  <2>2. sqTail' \in SqIndex /\ sqDb' \in SqIndex
    BY <1>4, NextSq DEF NullStore, CommitSqe
  <2> QED
    BY <1>4, <2>1, <2>2, BoundAssumption
    DEF NullStore, EnterWait, controller
<1>5. CASE PollEmpty
  <2>1. polls' \in 0..Polls
    BY <1>5, BoundAssumption DEF PollEmpty
  <2> QED
    BY <1>5, <2>1 DEF PollEmpty, driver, controller
<1>6. CASE ConsumeCqe
  <2>1. cqHead' \in CqIndex /\ cqDb' \in CqIndex /\ copyFrom' \in CqIndex
    BY <1>6, NextCq DEF ConsumeCqe
  <2>2. cqPhase' \in 0..1
    BY <1>6 DEF ConsumeCqe
  <2>3. sqHead' \in SqIndex
    BY <1>6 DEF ConsumeCqe, Completion
  <2> QED
    BY <1>6, <2>1, <2>2, <2>3 DEF ConsumeCqe, controller
<1>7. CASE CopyCqe
  BY <1>7 DEF CopyCqe, Completion, driver, controller
<1>8. CASE Timeout
  <2>1. 0 \in Serial
    BY BoundAssumption DEF Serial
  <2> QED
    BY <1>8, <2>1 DEF Timeout, driver, controller
<1>9. CASE Fetch
  BY <1>9, NextSq DEF Fetch, driver, caller
<1>10. CASE \E i \in SqIndex, status \in Statuses : Complete(i, status)
  <2> PICK i \in SqIndex, status \in Statuses : Complete(i, status)
    BY <1>10
  <2>1. executing[i] \in Command
    BY DEF Complete
  <2>2. cqe' \in [CqIndex -> Completion]
    BY <2>1 DEF Complete, Completion, Command
  <2>3. postTail' \in CqIndex /\ postPhase' \in 0..1
    BY NextCq DEF Complete
  <2>4. executing' \in [SqIndex -> Command \cup {NoCmd}]
    BY DEF Complete
  <2>5. outcome' \in Statuses \cup {NotRun}
    BY DEF Complete
  <2> QED
    BY <2>2, <2>3, <2>4, <2>5 DEF Complete, driver, caller
<1>11. CASE UNCHANGED vars
  BY <1>11 DEF vars, driver, controller, caller
<1> QED
  BY <1>1, <1>2, <1>3, <1>4, <1>5, <1>6, <1>7, <1>8, <1>9, <1>10, <1>11
  DEF Next, Caller, Controller

\* Type correctness: indices stay inside their rings, 16-bit masks included.
THEOREM TypeCorrect == Spec => []TypeOK
  BY InitType, TypeStep, PTL DEF Spec

\* The rings start drained.
LEMMA InitRing == Init => RingInv /\ OwnCompletion
<1> SUFFICES ASSUME Init PROVE RingOk /\ OwnCompletion
  BY DEF RingInv
<1>1. PhaseInv
  BY DEF Init, InitCq, InitController, PhaseInv, CqIndex
<1>2. Drained
  BY DEF Init, InitSq, InitCq, InitController, Drained, NothingExecuting
<1>3. RingOk
  BY <1>1, <1>2 DEF Init, InitSq, InitCq, InitController, RingOk
<1>4. OwnCompletion
  BY DEF Init, OwnCompletion
<1> QED BY <1>3, <1>4

\* Each step of the caller or the controller moves the one command to its next
\* place, or leaves it where it is.
LEMMA RingStep == TypeOK /\ RingInv /\ [Next]_vars => RingInv'
<1> SUFFICES ASSUME TypeOK, RingInv, [Next]_vars, ~nullStore' PROVE RingOk'
  BY DEF RingInv
<1>0. ~nullStore /\ RingOk
  BY DEF RingInv, Next, Caller, Controller, Submit, Refuse, NullCrash, NullStore,
         PollEmpty, ConsumeCqe, CopyCqe, Timeout, Fetch, Complete, vars, caller
<1>t. TypeOK'
  BY TypeStep
<1>1. CASE Submit
  <2>1. Drained /\ ~lost
    BY <1>0, <1>1, NextSq DEF Submit, RingOk, Queued, InFlight, Posted, GetsNull, TypeOK
  <2>2. sqTail' = CtlNext(sqHead, SqLen) /\ sqDb' = sqTail'
    BY <1>1, <2>1, NextSq DEF Submit, CommitSqe, Drained, TypeOK
  <2>3. sqe'[sqHead].ser = cur'
    BY <1>1, <2>1 DEF Submit, EnterWait, Drained, TypeOK
  <2>4. Queued'
    BY <1>1, <2>1, <2>2, <2>3
    DEF Submit, EnterWait, Drained, Queued, NothingExecuting, controller
  <2>5. PhaseInv'
    BY <1>0, <1>1 DEF Submit, RingOk, PhaseInv, controller
  <2> QED
    BY <1>0, <1>1, <2>1, <2>2, <2>4, <2>5 DEF Submit, EnterWait, RingOk
<1>2. CASE Refuse
  BY <1>0, <1>2
  DEF Refuse, RingOk, PhaseInv, Drained, Queued, InFlight, Posted, NothingExecuting,
      driver, controller
<1>3. CASE NullCrash
  BY <1>3 DEF NullCrash
<1>4. CASE NullStore
  BY <1>4 DEF NullStore
<1>5. CASE PollEmpty
  BY <1>0, <1>5
  DEF PollEmpty, RingOk, PhaseInv, Drained, Queued, InFlight, Posted,
      NothingExecuting, driver, controller
<1>6. CASE ConsumeCqe
  <2>1. Posted /\ ~lost
    <3>1. ~lost /\ (Queued \/ InFlight \/ Posted)
      BY <1>0, <1>6 DEF ConsumeCqe, RingOk
    <3>2. postTail # cqHead
      BY <1>0, <1>6 DEF ConsumeCqe, PollCq, RingOk, PhaseInv, TypeOK, CqIndex
    <3> QED BY <3>1, <3>2 DEF Queued, InFlight
  <2>2. cqHead' = CtlNext(cqHead, CqLen) /\ cqDb' = cqHead'
    BY <1>6, NextCq DEF ConsumeCqe, TypeOK
  <2>3. Drained'
    BY <1>6, <2>1, <2>2
    DEF ConsumeCqe, Posted, Drained, NothingExecuting, controller
  <2>4. PhaseInv'
    <3>1. cqPhase' = postPhase
      BY <1>0, <1>6, <2>1, <2>2, NextCq
      DEF ConsumeCqe, Posted, RingOk, PhaseInv, TypeOK, CqIndex
    <3> QED
      BY <1>0, <1>6, <2>1, <2>2, <3>1
      DEF ConsumeCqe, Posted, RingOk, PhaseInv, TypeOK, CqIndex, controller
  <2>5. cqe'[copyFrom'].ser = cur' /\ cqe'[copyFrom'].status = outcome'
    BY <1>6, <2>1 DEF ConsumeCqe, Posted
  <2> QED
    BY <1>0, <1>6, <2>1, <2>2, <2>3, <2>4, <2>5 DEF ConsumeCqe, RingOk
<1>7. CASE CopyCqe
  BY <1>0, <1>7
  DEF CopyCqe, RingOk, PhaseInv, Drained, NothingExecuting, driver, controller
<1>8. CASE Timeout
  BY <1>0, <1>8
  DEF Timeout, RingOk, PhaseInv, Drained, Queued, InFlight, Posted,
      NothingExecuting, driver, controller
<1>9. CASE Fetch
  <2>1. Queued
    BY <1>0, <1>9 DEF Fetch, RingOk, Drained, Queued, InFlight, Posted, TypeOK
  <2>2. InFlight'
    BY <1>9, <2>1, NextSq
    DEF Fetch, Queued, InFlight, NothingExecuting, TypeOK, driver, caller
  <2>3. PhaseInv'
    BY <1>0, <1>9 DEF Fetch, RingOk, PhaseInv, driver
  <2>4. pc # "copy" /\ ~(pc = "idle" /\ ~lost)
    BY <1>0, <2>1, NextSq DEF RingOk, Drained, Queued, TypeOK
  <2> QED
    BY <1>0, <1>9, <2>2, <2>3, <2>4 DEF Fetch, RingOk, driver, caller
<1>10. CASE \E i \in SqIndex, status \in Statuses : Complete(i, status)
  <2> PICK i \in SqIndex, status \in Statuses : Complete(i, status)
    BY <1>10
  <2>1. InFlight /\ i = sqHead
    BY <1>0 DEF Complete, RingOk, Drained, Queued, InFlight, Posted,
                NothingExecuting, TypeOK
  <2>2. Posted'
    <3>1. postTail' = CtlNext(cqHead, CqLen) /\ NothingExecuting'
      BY <2>1 DEF Complete, InFlight, NothingExecuting, TypeOK
    <3>2. /\ cqe'[cqHead].ser = cur
          /\ cqe'[cqHead].sqHead = sqTail
          /\ cqe'[cqHead].status = status
      BY <2>1 DEF Complete, InFlight, TypeOK
    <3>3. outcome' = status
      BY <2>1 DEF Complete, InFlight
    <3> QED
      BY <2>1, <3>1, <3>2, <3>3 DEF Complete, InFlight, Posted, driver, caller
  <2>3. PhaseInv'
    <3>1. postTail = cqHead /\ postTail \in CqIndex /\ postPhase \in 0..1
      BY <2>1 DEF InFlight, TypeOK
    <3>2. \A j \in CqIndex : cqe'[j].p = IF j = postTail THEN postPhase ELSE cqe[j].p
      BY DEF Complete, TypeOK
    <3>3. postTail' = CtlNext(postTail, CqLen)
          /\ postPhase' = IF postTail' = 0 THEN 1 - postPhase ELSE postPhase
      BY DEF Complete
    <3>4. \A j \in CqIndex : cqe'[j].p = IF j < postTail' THEN postPhase' ELSE 1 - postPhase'
      BY <1>0, <3>1, <3>2, <3>3, LengthAssumption DEF RingOk, PhaseInv, CtlNext, CqIndex
    <3>5. cqPhase' = IF postTail' < cqHead' THEN 1 - postPhase' ELSE postPhase'
      BY <1>0, <3>1, <3>3, LengthAssumption
      DEF Complete, RingOk, PhaseInv, CtlNext, CqIndex, driver
    <3> QED BY <3>4, <3>5 DEF PhaseInv
  <2>4. pc # "copy" /\ ~(pc = "idle" /\ ~lost)
    BY <1>0, <2>1, NextSq DEF RingOk, Drained, InFlight, TypeOK
  <2> QED
    BY <1>0, <2>2, <2>3, <2>4 DEF Complete, RingOk, driver, caller
<1>11. CASE UNCHANGED vars
  BY <1>0, <1>11
  DEF vars, RingOk, PhaseInv, Drained, Queued, InFlight, Posted, NothingExecuting,
      driver, controller, caller
<1> QED
  BY <1>1, <1>2, <1>3, <1>4, <1>5, <1>6, <1>7, <1>8, <1>9, <1>10, <1>11
  DEF Next, Caller, Controller

\* Only nvme_wait produces results: a copied entry belongs to the caller, a
\* timeout and a refusal are errors.
LEMMA OwnStep == RingInv /\ OwnCompletion /\ [Next]_vars => OwnCompletion'
<1> SUFFICES ASSUME RingInv, OwnCompletion, [Next]_vars PROVE OwnCompletion'
  OBVIOUS
<1>1. CASE CopyCqe
  BY <1>1 DEF CopyCqe, RingInv, RingOk, OwnCompletion
<1>2. CASE Timeout
  BY <1>2 DEF Timeout, OwnCompletion
<1>3. CASE Refuse
  BY <1>3 DEF Refuse, OwnCompletion
<1>4. CASE NullCrash \/ NullStore
  BY <1>4 DEF NullCrash, NullStore, OwnCompletion
<1>5. CASE UNCHANGED <<ret, nullStore>>
  BY <1>5 DEF OwnCompletion
<1> QED
  BY <1>1, <1>2, <1>3, <1>4, <1>5
  DEF Next, Caller, Controller, Submit, PollEmpty, ConsumeCqe, Fetch, Complete,
      vars, caller

\* The inductive invariant.
THEOREM Invariance == Spec => []IInv
<1>1. Init => IInv
  BY InitType, InitRing DEF IInv
<1>2. IInv /\ [Next]_vars => IInv'
  BY TypeStep, RingStep, OwnStep DEF IInv
<1> QED BY <1>1, <1>2, PTL DEF Spec

\* The command is always in one place, and after a timeout it stays outstanding.
THEOREM RingCorrect == Spec => []RingInv
  BY Invariance, PTL DEF IInv

\* No caller is ever given the completion of another call's command, until
\* nvme_io_xfer writes through a NULL entry.
THEOREM OwnCompletionCorrect == Spec => []OwnCompletion
  BY Invariance, PTL DEF IInv

\* Callers that test for NULL never write through one: for the admin queue the
\* invariants above hold without their exception.
THEOREM NoNullStore == Spec => [](ChecksNull => ~nullStore)
<1>1. Init => (ChecksNull => ~nullStore)
  BY DEF Init
<1>2. (ChecksNull => ~nullStore) /\ [Next]_vars => (ChecksNull => ~nullStore)'
  BY DEF Next, Caller, Controller, Submit, Refuse, NullCrash, NullStore, PollEmpty,
         ConsumeCqe, CopyCqe, Timeout, Fetch, Complete, vars, caller
<1> QED BY <1>1, <1>2, PTL DEF Spec

\* A timeout ends the queue for callers that test for NULL.
THEOREM LostIsFinalCorrect == Spec => LostIsFinal
<1>1. IInv /\ (ChecksNull => ~nullStore) /\ [Next]_vars
        => (lost /\ ChecksNull => UNCHANGED <<driver, sqe, sqDb, cqDb>>)
  <2> SUFFICES ASSUME IInv, ~nullStore, [Next]_vars, lost, ChecksNull
               PROVE  UNCHANGED <<driver, sqe, sqDb, cqDb>>
    OBVIOUS
  <2>1. ~Submit
    BY NextSq
    DEF IInv, RingInv, RingOk, TypeOK, Submit, GetsNull, Queued, InFlight, Posted
  <2>2. ~ConsumeCqe
    BY DEF IInv, RingInv, RingOk, ConsumeCqe
  <2> QED
    BY <2>1, <2>2
    DEF Next, Caller, Controller, Refuse, NullCrash, NullStore, PollEmpty, CopyCqe,
        Timeout, Fetch, Complete, vars, driver
<1> QED BY <1>1, NoNullStore, Invariance, PTL DEF Spec, LostIsFinal

\* While nvme_consume_cqe has still to copy its entry, the doorbell stands at the
\* entry after it.
CopyInv == pc = "copy" => cqDb = CtlNext(copyFrom, CqLen)

\* Only ConsumeCqe starts a copy, and it rings the doorbell with the next head.
LEMMA CopyStep == TypeOK /\ CopyInv /\ [Next]_vars => CopyInv'
<1> SUFFICES ASSUME TypeOK, CopyInv, [Next]_vars PROVE CopyInv'
  OBVIOUS
<1>1. CASE ConsumeCqe
  BY <1>1, NextCq DEF ConsumeCqe, CopyInv, TypeOK
<1>2. CASE ~ConsumeCqe
  BY <1>2 DEF CopyInv, Next, Caller, Controller, Submit, EnterWait, Refuse, NullCrash,
              NullStore, PollEmpty, CopyCqe, Timeout, Fetch, Complete, caller, vars
<1> QED BY <1>1, <1>2

\* The entry nvme_consume_cqe copies after the doorbell is still the one it found,
\* also when NULL entries were written through and commands pile up.
THEOREM CopyStableCorrect == Spec => CopyStable
<1>1. Init => CopyInv
  BY DEF Init, CopyInv
<1>2. TypeOK /\ CopyInv /\ [Next]_vars
        => (pc = "copy" => cqe'[copyFrom] = cqe[copyFrom])
  <2> SUFFICES ASSUME TypeOK, CopyInv, [Next]_vars, pc = "copy"
               PROVE  cqe'[copyFrom] = cqe[copyFrom]
    OBVIOUS
  <2>1. ASSUME NEW i \in SqIndex, NEW status \in Statuses, Complete(i, status)
        PROVE  cqe'[copyFrom] = cqe[copyFrom]
    <3>1. postTail # copyFrom
      BY <2>1 DEF Complete, CopyInv
    <3> QED BY <2>1, <3>1 DEF Complete, TypeOK
  <2> QED
    BY <2>1
    DEF Next, Caller, Controller, Submit, Refuse, NullCrash, NullStore, PollEmpty,
        ConsumeCqe, CopyCqe, Timeout, Fetch, vars
<1> QED BY <1>1, <1>2, CopyStep, TypeCorrect, PTL DEF Spec, CopyStable

\* Between calls, driver and controller agree on the phase bit.
THEOREM PhaseCorrect == ChecksNull => (Spec => []PhaseIsCurrent)
<1> SUFFICES ASSUME ChecksNull PROVE Spec => []PhaseIsCurrent
  OBVIOUS
<1>1. IInv /\ (ChecksNull => ~nullStore) => PhaseIsCurrent
  BY DEF IInv, TypeOK, CqIndex, RingInv, RingOk, Drained, PhaseInv, PhaseIsCurrent
<1> QED BY <1>1, NoNullStore, Invariance, PTL

(***************************************************************************)
(* Refinement.  Submit is Begin, Complete is Run, CopyCqe is Finish,       *)
(* Timeout is GiveUp, Refuse is Refuse; every other step stutters.         *)
(***************************************************************************)

\* The ring pair in its initial state is an idle synchronous interface.
LEMMA SyncInit == Init => Sync!Init
  BY DEF Init, Sync!Init, NotRun, Sync!NotRun

\* Every step of a queue whose callers test for NULL is a step, or a stutter, of
\* the synchronous interface.
LEMMA SyncStep ==
  IInv /\ ~nullStore /\ ChecksNull /\ [Next]_vars => [Sync!Next]_Sync!vars
<1> SUFFICES ASSUME IInv, ~nullStore, ChecksNull, [Next]_vars
             PROVE  [Sync!Next]_Sync!vars
  OBVIOUS
<1>0. TypeOK /\ RingOk
  BY DEF IInv, RingInv
<1> USE DEF NotRun, Sync!NotRun, ErrorStatus, Sync!ErrorStatus
<1>1. CASE Submit
  <2>1. ~lost
    BY <1>0, <1>1, NextSq DEF Submit, RingOk, Queued, InFlight, Posted, GetsNull, TypeOK
  <2>2. Sync!Begin
    BY <1>1, <2>1 DEF Submit, EnterWait, Sync!Begin
  <2> QED BY <2>2 DEF Sync!Next
<1>2. CASE Refuse
  <2>1. lost
    BY <1>0, <1>2, NextSq DEF Refuse, RingOk, Drained, GetsNull, TypeOK
  <2>2. Sync!Refuse
    BY <1>2, <2>1 DEF Refuse, Sync!Refuse
  <2> QED BY <2>2 DEF Sync!Next
<1>3. CASE NullCrash \/ NullStore
  BY <1>3 DEF NullCrash, NullStore
<1>4. CASE PollEmpty
  BY <1>4 DEF PollEmpty, Sync!vars
<1>5. CASE ConsumeCqe
  BY <1>5 DEF ConsumeCqe, Sync!vars
<1>6. CASE CopyCqe
  <2>1. ret'.status = outcome /\ outcome # NotRun
    BY <1>0, <1>6, StatusAssumption DEF CopyCqe, RingOk, TypeOK, Completion
  <2>2. Sync!Finish
    BY <1>6, <2>1 DEF CopyCqe, Sync!Finish
  <2> QED BY <2>2 DEF Sync!Next
<1>7. CASE Timeout
  <2>1. Sync!GiveUp
    BY <1>7 DEF Timeout, Sync!GiveUp
  <2> QED BY <2>1 DEF Sync!Next
<1>8. CASE Fetch
  BY <1>8 DEF Fetch, Sync!vars, caller
<1>9. CASE \E i \in SqIndex, status \in Statuses : Complete(i, status)
  <2> PICK i \in SqIndex, status \in Statuses : Complete(i, status)
    BY <1>9
  <2>1. InFlight /\ i = sqHead
    BY <1>0 DEF Complete, RingOk, Drained, Queued, InFlight, Posted,
                NothingExecuting, TypeOK
  <2>2. pc = "wait" \/ lost
    BY <1>0, <2>1, NextSq DEF RingOk, Drained, InFlight, TypeOK
  <2>3. Sync!Run
    BY <2>1, <2>2 DEF Complete, InFlight, Sync!Run, caller
  <2> QED BY <2>3 DEF Sync!Next
<1>10. CASE UNCHANGED vars
  BY <1>10 DEF vars, caller, Sync!vars
<1> QED
  BY <1>1, <1>2, <1>3, <1>4, <1>5, <1>6, <1>7, <1>8, <1>9, <1>10
  DEF Next, Caller, Controller

\* The queue pair implements NvmeSync (safety) for callers that test for NULL.
THEOREM ImplementsSync == ChecksNull => (Spec => SyncSafety)
<1> SUFFICES ASSUME ChecksNull PROVE Spec => SyncSafety
  OBVIOUS
<1>1. IInv /\ (ChecksNull => ~nullStore) /\ [Next]_vars => [Sync!Next]_Sync!vars
  BY SyncStep
<1> QED BY <1>1, SyncInit, Invariance, NoNullStore, PTL DEF Spec, SyncSafety

=============================================================================
