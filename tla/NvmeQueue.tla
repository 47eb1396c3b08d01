------------------------------ MODULE NvmeQueue ------------------------------
(***************************************************************************)
(* One submission/completion queue pair of hello/nvme-bsp.h: the driver,   *)
(* which runs one synchronous command at a time (nvme_get_next_sqe, fill,  *)
(* nvme_commit_sqe, nvme_wait), and the controller, which fetches,         *)
(* executes and completes commands whenever it likes, also long after the  *)
(* driver stopped waiting.                                                 *)
(*                                                                         *)
(* The admin callers (nvme_admin_identify, nvme_create_io_cq,              *)
(* nvme_create_io_sq) test the entry they get for NULL; nvme_io_xfer does  *)
(* not.  ChecksNull says which kind of caller owns the queue.              *)
(*                                                                         *)
(* Calls are numbered 1, 2, ...  The number of the call a command belongs  *)
(* to travels with it through the rings ("ser"), so that properties can    *)
(* tell a caller's own completion from somebody else's: the code itself    *)
(* never looks at the command identifier of a completion.                  *)
(***************************************************************************)
EXTENDS NvmeRing

CONSTANTS
  SqLen,      \* entries of the submission queue
  CqLen,      \* entries of the completion queue
  Statuses,   \* status fields (cqe->status >> 1) the controller may post
  Polls,      \* bound: polls of one nvme_wait (500 in the code)
  MaxCalls,   \* bound: number of calls
  ChecksNull  \* whether the callers test nvme_get_next_sqe's result

ASSUME LengthAssumption == /\ SqLen \in Nat /\ SqLen >= 2
                           /\ CqLen \in Nat /\ CqLen >= 2
ASSUME BoundAssumption  == Polls \in Nat /\ MaxCalls \in Nat
ASSUME StatusAssumption == Statuses \subseteq Nat
ASSUME CallerAssumption == ChecksNull \in BOOLEAN

VARIABLES
  sqHead, sqTail,     \* sq->head and sq->tail
  cqHead, cqPhase,    \* cq->head and cq->phase
  sqe, cqe,           \* the two rings, in memory shared with the controller
  sqDb, cqDb,         \* the two doorbell registers
  fetchHead,          \* the controller's own submission queue head
  executing,          \* the commands it has fetched and not completed
  postTail, postPhase,\* the controller's completion queue tail and phase
  pc,                 \* where the calling task is
  polls,              \* polls left of nvme_wait's loop
  copyFrom,           \* index of the entry nvme_consume_cqe returns
  calls,              \* calls made so far
  cur,                \* the call whose command was committed last
  outcome,            \* what the controller made of that command so far
  ret,                \* the result of the last call that returned
  lost,               \* some call timed out
  nullStore           \* some call wrote through a NULL entry

driver     == <<sqHead, sqTail, cqHead, cqPhase>>
controller == <<fetchHead, executing, postTail, postPhase>>
caller     == <<pc, polls, copyFrom, calls, cur, ret, lost, nullStore>>
vars == <<driver, sqe, cqe, sqDb, cqDb, controller, caller, outcome>>

SqIndex == 0..(SqLen - 1)
CqIndex == 0..(CqLen - 1)
Serial  == 0..MaxCalls
NotRun  == -1
NoCmd   == [ser |-> -1, cid |-> 0]

\* nvme_error_cqe: all ones, status >> 1 is 0x7FFF.
ErrorStatus == 32767

Command    == [ser : Serial, cid : SqIndex]
Completion == [p : 0..1, ser : Serial, cid : SqIndex, sqHead : SqIndex,
               status : Statuses \cup {0}]

TypeOK ==
  /\ sqHead \in SqIndex /\ sqTail \in SqIndex
  /\ cqHead \in CqIndex /\ cqPhase \in 0..1
  /\ sqe \in [SqIndex -> Command]
  /\ cqe \in [CqIndex -> Completion]
  /\ sqDb \in SqIndex /\ cqDb \in CqIndex
  /\ fetchHead \in SqIndex
  /\ executing \in [SqIndex -> Command \cup {NoCmd}]
  /\ postTail \in CqIndex /\ postPhase \in 0..1
  /\ pc \in {"idle", "wait", "copy", "crashed"}
  /\ polls \in 0..Polls
  /\ copyFrom \in CqIndex
  /\ calls \in Serial /\ cur \in Serial
  /\ outcome \in Statuses \cup {NotRun}
  /\ ret \in [ser : Serial, status : Statuses \cup {0, ErrorStatus}, of : Serial]
  /\ lost \in BOOLEAN /\ nullStore \in BOOLEAN

(***************************************************************************)
(* nvme_init_sq, nvme_init_cq: both rings zeroed, the driver waits for     *)
(* phase 1.  The controller starts with the same rings and posts phase 1.  *)
(***************************************************************************)
InitSq == /\ sqe = [i \in SqIndex |-> [ser |-> 0, cid |-> 0]]
          /\ sqHead = 0
          /\ sqTail = 0

InitCq == /\ cqe = [i \in CqIndex |-> [p |-> 0, ser |-> 0, cid |-> 0,
                                       sqHead |-> 0, status |-> 0]]
          /\ cqHead = 0
          /\ cqPhase = 1

InitController == /\ sqDb = 0 /\ cqDb = 0
                  /\ fetchHead = 0
                  /\ executing = [i \in SqIndex |-> NoCmd]
                  /\ postTail = 0 /\ postPhase = 1

Init == /\ InitSq /\ InitCq /\ InitController
        /\ pc = "idle" /\ polls = 0 /\ copyFrom = 0
        /\ calls = 0 /\ cur = 0 /\ outcome = NotRun
        /\ ret = [ser |-> 0, status |-> 0, of |-> 0]
        /\ lost = FALSE /\ nullStore = FALSE

(***************************************************************************)
(* The calling task                                                        *)
(***************************************************************************)

\* Mutant: the usual test for a full ring.
GetsNullIfFull == NextIndex(sqTail, SqLen) = sqHead

\* The test of nvme_get_next_sqe that makes it return NULL.
GetsNull == NextIndex(sqHead, SqLen) = sqTail

\* nvme_commit_sqe: advance the tail and ring the doorbell with it.
CommitSqe == /\ sqTail' = NextIndex(sqTail, SqLen)
             /\ sqDb' = sqTail'

\* What every committed call does next: enter nvme_wait.
EnterWait == /\ pc' = "wait"
             /\ polls' = Polls
             /\ calls' = calls + 1
             /\ cur' = calls + 1
             /\ outcome' = NotRun

\* A call gets an entry, fills it (the identifier is the tail) and commits it.
Submit ==
  /\ pc = "idle"
  /\ calls < MaxCalls
  /\ ~GetsNull
  /\ sqe' = [sqe EXCEPT ![sqTail] = [ser |-> calls + 1, cid |-> sqTail]]
  /\ CommitSqe
  /\ EnterWait
  /\ UNCHANGED <<sqHead, cqHead, cqPhase, cqe, cqDb, controller, copyFrom, ret,
                 lost, nullStore>>

\* A caller that tests for NULL gives up and leaves the queue alone.
Refuse ==
  /\ pc = "idle"
  /\ calls < MaxCalls
  /\ ChecksNull
  /\ GetsNull
  /\ calls' = calls + 1
  /\ ret' = [ser |-> calls + 1, status |-> ErrorStatus, of |-> 0]
  /\ UNCHANGED <<driver, sqe, cqe, sqDb, cqDb, controller, pc, polls, copyFrom,
                 cur, outcome, lost, nullStore>>

(***************************************************************************)
(* nvme_io_xfer writes its command through the NULL it was given.  Either  *)
(* the store traps, or it lands in low memory (the i386 target runs        *)
(* without paging) and the call goes on: it commits the entry at the tail  *)
(* with whatever an earlier command, or nvme_init_sq, left in it.          *)
(***************************************************************************)
NullCrash ==
  /\ pc = "idle"
  /\ calls < MaxCalls
  /\ ~ChecksNull
  /\ GetsNull
  /\ pc' = "crashed"
  /\ nullStore' = TRUE
  /\ UNCHANGED <<driver, sqe, cqe, sqDb, cqDb, controller, polls, copyFrom,
                 calls, cur, outcome, ret, lost>>

NullStore ==
  /\ pc = "idle"
  /\ calls < MaxCalls
  /\ ~ChecksNull
  /\ GetsNull
  /\ nullStore' = TRUE
  /\ CommitSqe
  /\ EnterWait
  /\ UNCHANGED <<sqHead, cqHead, cqPhase, sqe, cqe, cqDb, controller, copyFrom,
                 ret, lost>>

\* nvme_poll_cq: the entry at the head carries the phase we wait for.
PollCq == cqe[cqHead].p = cqPhase

\* Mutant: the loop does not count down.
PollForever ==
  /\ pc = "wait"
  /\ polls > 0
  /\ ~PollCq
  /\ UNCHANGED vars

\* One turn of nvme_wait's loop that finds nothing.
PollEmpty ==
  /\ pc = "wait"
  /\ polls > 0
  /\ ~PollCq
  /\ polls' = polls - 1
  /\ UNCHANGED <<driver, sqe, cqe, sqDb, cqDb, controller, pc, copyFrom, calls,
                 cur, outcome, ret, lost, nullStore>>

\* Mutant: the phase is not inverted at the wrap.
ConsumeKeepsPhase ==
  /\ pc = "wait"
  /\ polls > 0
  /\ PollCq
  /\ cqHead' = NextIndex(cqHead, CqLen)
  /\ sqHead' = cqe[cqHead].sqHead
  /\ cqDb' = cqHead'
  /\ copyFrom' = cqHead
  /\ pc' = "copy"
  /\ UNCHANGED <<cqPhase, sqTail, sqe, cqe, sqDb, controller, polls, calls, cur,
                 outcome, ret, lost, nullStore>>

\* Mutant: the entry is looked up after the head was advanced.
ConsumeAfterHead ==
  /\ pc = "wait"
  /\ polls > 0
  /\ PollCq
  /\ cqHead' = NextIndex(cqHead, CqLen)
  /\ cqPhase' = IF cqHead' < cqHead THEN 1 - cqPhase ELSE cqPhase
  /\ sqHead' = cqe[cqHead'].sqHead
  /\ cqDb' = cqHead'
  /\ copyFrom' = cqHead'
  /\ pc' = "copy"
  /\ UNCHANGED <<sqTail, sqe, cqe, sqDb, controller, polls, calls, cur, outcome,
                 ret, lost, nullStore>>

\* nvme_consume_cqe up to the doorbell: advance the head, flip the phase on a
\* wrap, take over the controller's submission queue head.
ConsumeCqe ==
  /\ pc = "wait"
  /\ polls > 0
  /\ PollCq
  /\ cqHead' = NextIndex(cqHead, CqLen)
  /\ cqPhase' = IF cqHead' < cqHead THEN 1 - cqPhase ELSE cqPhase
  /\ sqHead' = cqe[cqHead].sqHead
  /\ cqDb' = cqHead'
  /\ copyFrom' = cqHead
  /\ pc' = "copy"
  /\ UNCHANGED <<sqTail, sqe, cqe, sqDb, controller, polls, calls, cur, outcome,
                 ret, lost, nullStore>>

\* "return *cqe": the entry is read only now, after the doorbell gave the slot
\* back to the controller.
CopyCqe ==
  /\ pc = "copy"
  /\ ret' = [ser |-> cur, status |-> cqe[copyFrom].status, of |-> cqe[copyFrom].ser]
  /\ pc' = "idle"
  /\ UNCHANGED <<driver, sqe, cqe, sqDb, cqDb, controller, polls, copyFrom, calls,
                 cur, outcome, lost, nullStore>>

\* nvme_wait gives up: the caller sees nvme_error_cqe, the queue stays as it is.
Timeout ==
  /\ pc = "wait"
  /\ polls = 0
  /\ ret' = [ser |-> cur, status |-> ErrorStatus, of |-> 0]
  /\ lost' = TRUE
  /\ pc' = "idle"
  /\ UNCHANGED <<driver, sqe, cqe, sqDb, cqDb, controller, polls, copyFrom, calls,
                 cur, outcome, nullStore>>

(***************************************************************************)
(* The controller                                                          *)
(***************************************************************************)

\* It fetches the next command the doorbell covers; one per slot at a time.
Fetch ==
  /\ fetchHead # sqDb
  /\ executing[fetchHead] = NoCmd
  /\ executing' = [executing EXCEPT ![fetchHead] = sqe[fetchHead]]
  /\ fetchHead' = CtlNext(fetchHead, SqLen)
  /\ UNCHANGED <<driver, sqe, cqe, sqDb, cqDb, postTail, postPhase, caller,
                 outcome>>

\* It completes any command it holds, if the completion queue has room.
Complete(i, status) ==
  /\ executing[i] # NoCmd
  /\ CtlNext(postTail, CqLen) # cqDb
  /\ cqe' = [cqe EXCEPT ![postTail] =
               [p |-> postPhase, ser |-> executing[i].ser, cid |-> executing[i].cid,
                sqHead |-> fetchHead, status |-> status]]
  /\ postTail' = CtlNext(postTail, CqLen)
  /\ postPhase' = IF postTail' = 0 THEN 1 - postPhase ELSE postPhase
  /\ executing' = [executing EXCEPT ![i] = NoCmd]
  /\ outcome' = IF executing[i].ser = cur THEN status ELSE outcome
  /\ UNCHANGED <<driver, sqe, sqDb, cqDb, fetchHead, caller>>

Caller == \/ Submit \/ Refuse \/ NullCrash \/ NullStore
          \/ PollEmpty \/ ConsumeCqe \/ CopyCqe \/ Timeout

Controller == \/ Fetch
              \/ \E i \in SqIndex, status \in Statuses : Complete(i, status)

Next == Caller \/ Controller

\* A task inside nvme_wait keeps running: it polls, with a delay of 1 ms, until
\* its loop ends.  Nothing obliges the controller to answer, or a caller to call.
Waiting == PollEmpty \/ ConsumeCqe \/ CopyCqe \/ Timeout

Spec == Init /\ [][Next]_vars /\ WF_vars(Waiting)

(***************************************************************************)
(* Properties                                                              *)
(***************************************************************************)

\* A call that returns a status returns the status of its own command, although
\* nvme_consume_cqe takes whatever entry is next and never compares the command
\* identifier.  It holds until a caller writes through a NULL entry.
OwnCompletion == \/ nullStore
                 \/ ret.status = ErrorStatus
                 \/ ret.of = ret.ser

\* An entry nvme_consume_cqe is about to copy is not rewritten by the
\* controller, although the doorbell has already released it: however many
\* completions are pending, a controller that leaves one entry free fills the
\* ring only up to the entry before the one being copied.
CopyStable == [][pc = "copy" => cqe'[copyFrom] = cqe[copyFrom]]_vars

(***************************************************************************)
(* As long as no NULL entry was written through, driver and controller     *)
(* share at most one command, which is in exactly one of four places.      *)
(***************************************************************************)
NothingExecuting == \A i \in SqIndex : executing[i] = NoCmd

\* Nowhere: every command was answered and the answer consumed.
Drained == /\ sqTail = sqHead /\ fetchHead = sqHead
           /\ NothingExecuting
           /\ postTail = cqHead

\* In the submission queue, not fetched.
Queued == /\ sqTail = CtlNext(sqHead, SqLen) /\ fetchHead = sqHead
          /\ sqe[sqHead].ser = cur
          /\ NothingExecuting
          /\ postTail = cqHead
          /\ outcome = NotRun

\* In the controller.
InFlight == /\ sqTail = CtlNext(sqHead, SqLen) /\ fetchHead = sqTail
            /\ executing[sqHead].ser = cur
            /\ \A i \in SqIndex : i # sqHead => executing[i] = NoCmd
            /\ postTail = cqHead
            /\ outcome = NotRun

\* In the completion queue, at the entry the driver polls.
Posted == /\ sqTail = CtlNext(sqHead, SqLen) /\ fetchHead = sqTail
          /\ NothingExecuting
          /\ postTail = CtlNext(cqHead, CqLen)
          /\ cqe[cqHead].ser = cur
          /\ cqe[cqHead].sqHead = sqTail
          /\ cqe[cqHead].status = outcome

\* The entries below the controller's tail carry its phase, the others the
\* opposite one, and the driver expects what the entry at its head will carry.
PhaseInv == /\ \A i \in CqIndex :
                 cqe[i].p = IF i < postTail THEN postPhase ELSE 1 - postPhase
            /\ cqPhase = IF postTail < cqHead THEN 1 - postPhase ELSE postPhase

\* Where the command is, for every state of the caller.  After a timeout it stays
\* in one of the three last places for good, which is what makes the test of
\* nvme_get_next_sqe refuse every later call.
RingOk ==
  /\ sqDb = sqTail /\ cqDb = cqHead
  /\ PhaseInv
  /\ pc # "crashed"
  /\ pc = "idle" /\ ~lost => Drained
  /\ pc = "idle" /\ lost => Queued \/ InFlight \/ Posted
  /\ pc = "wait" => ~lost /\ (Queued \/ InFlight \/ Posted)
  /\ pc = "copy" => /\ ~lost /\ Drained
                    /\ cqe[copyFrom].ser = cur
                    /\ cqe[copyFrom].status = outcome

RingInv == nullStore \/ RingOk

\* A command that timed out ends the queue: its completion is never consumed, so
\* no later call of a caller that tests for NULL commits anything, and the late
\* answer can never be taken for the answer to another command.
LostIsFinal == [][lost /\ ChecksNull => UNCHANGED <<driver, sqe, sqDb, cqDb>>]_vars

\* Every call that entered nvme_wait returns, whatever the controller does.
WaitEnds == (pc = "wait") ~> (pc = "idle")

\* cq->phase is "the current phase bit the controller uses": when no command is
\* under way and none was given up, driver and controller agree on the phase.
PhaseIsCurrent == pc = "idle" /\ ~lost => cqPhase = postPhase

\* A queue whose callers test for NULL is a synchronous command interface: the
\* rings, phases, doorbells and late completions implement NvmeSync.
Sync == INSTANCE NvmeSync
          WITH open <- pc \in {"wait", "copy"},
               ret  <- [ser |-> ret.ser, status |-> ret.status]

SyncSpec == Sync!Spec

\* The safety part of it, which is proved.
SyncSafety == Sync!Init /\ [][Sync!Next]_Sync!vars

=============================================================================
