------------------------------ MODULE NvmeTasks ------------------------------
(***************************************************************************)
(* Several tasks inside the NVMe driver at once (hello/nvme-bsp.h).  The   *)
(* buffer cache of RTEMS calls nvmedisk_ioctl from the task that reads and *)
(* from its swap-out task, with its own lock released; neither the queue   *)
(* pair nor nvme_dma_buffer has one.  A task may be preempted, or run      *)
(* beside the other on a second processor, so an action writes at most one *)
(* of the variables the tasks share; a test and the store it guards are    *)
(* two actions.                                                            *)
(*                                                                         *)
(* A command is the number of the call that made it.  An entry of the      *)
(* submission queue is filled in two parts, the data pointer and opcode by *)
(* nvme_get_next_sqe and the block address by nvme_io_xfer, so two tasks   *)
(* that got the same entry can mix a command of halves.  Every command the *)
(* controller runs succeeds; NvmeQueue has the other statuses.  Local      *)
(* variables go back to zero after their last use.                         *)
(***************************************************************************)
EXTENDS NvmeRing

CONSTANTS
  Tasks,     \* the tasks that may call the driver
  SqLen,     \* entries of the submission queue
  CqLen,     \* entries of the completion queue
  Polls,     \* bound: polls of one nvme_wait (500 in the code)
  MaxCalls,  \* bound: number of calls
  MaxMixed,  \* bound: calls after which none is made once two have overlapped
  Kinds      \* transfers that occur: "direct"; "staged", which puts data or a
             \* page list into nvme_dma_buffer first; "bounceRead"

ASSUME TaskAssumption ==
  /\ SqLen \in Nat /\ SqLen >= 2 /\ CqLen \in Nat /\ CqLen >= 2
  /\ Polls \in Nat /\ MaxCalls \in Nat /\ MaxMixed \in Nat
  /\ Kinds \subseteq {"direct", "staged", "bounceRead"}

\* The lengths are powers of two, for which the driver's masks are made.
ASSUME WrapAssumption == Wraps(SqLen) /\ Wraps(CqLen)

VARIABLES
  sqHead, sqTail, sqDb, sqe,     \* the submission queue and its doorbell
  cqHead, cqPhase, cqDb, cqe,    \* the completion queue and its doorbell
  dma,                           \* the call whose data nvme_dma_buffer holds
  fetchHead, executing,          \* the controller: its head, the entries it holds,
  postTail, postPhase,           \* its completion queue tail and phase,
  moved,                         \* and the calls whose data it has moved
  pc,                            \* where each task is
  call, kind,                    \* its call and the transfer it makes
  slot,                          \* io_read: the entry it got
  nextTail,                      \* the tail nvme_commit_sqe is about to store
  polls,                         \* polls left of nvme_wait
  entry, nextHead,               \* cqe and cq_next_head of nvme_consume_cqe
  res,                           \* whether its last call succeeded
  calls,                         \* calls made so far
  overlap,                       \* two calls were in the driver at once
  lost                           \* some call timed out

submission == <<sqHead, sqTail, sqDb, sqe>>
completion == <<cqHead, cqPhase, cqDb, cqe>>
controller == <<fetchHead, executing, postTail, postPhase, moved>>
local      == <<call, kind, slot, nextTail, polls, entry, nextHead>>
history    == <<calls, overlap, lost>>
vars == <<submission, completion, dma, controller, pc, local, res, history>>

SqIndex == 0..(SqLen - 1)
CqIndex == 0..(CqLen - 1)
Serial  == 0..MaxCalls
Zeroes  == [data |-> 0, lba |-> 0, kind |-> "zero"]
Entry   == [data : Serial, lba : Serial, kind : Kinds \cup {"zero"}]

TypeOK ==
  /\ sqHead \in SqIndex /\ sqTail \in SqIndex /\ sqDb \in SqIndex
  /\ sqe \in [SqIndex -> Entry]
  /\ cqHead \in CqIndex /\ cqPhase \in 0..1 /\ cqDb \in CqIndex
  /\ cqe \in [CqIndex -> [p : 0..1, sqHead : SqIndex]]
  /\ dma \in Serial
  /\ fetchHead \in SqIndex /\ executing \subseteq (SqIndex \X Entry)
  /\ postTail \in CqIndex /\ postPhase \in 0..1
  /\ moved \subseteq Serial
  /\ pc \in [Tasks -> {"idle", "stage", "get", "take", "null", "fill", "commit", "store",
                       "ring", "wait", "consume", "flip", "advance", "sqhead",
                       "release", "copy", "crashed"}]
  /\ call \in [Tasks -> Serial] /\ kind \in [Tasks -> Kinds \cup {"zero"}]
  /\ slot \in [Tasks -> SqIndex]
  /\ nextTail \in [Tasks -> SqIndex]
  /\ polls \in [Tasks -> 0..Polls]
  /\ entry \in [Tasks -> CqIndex] /\ nextHead \in [Tasks -> CqIndex]
  /\ res \in [Tasks -> {"none", "ok", "bad", "failed"}]
  /\ calls \in Serial
  /\ overlap \in BOOLEAN /\ lost \in BOOLEAN

Init ==
  /\ sqHead = 0 /\ sqTail = 0 /\ sqDb = 0
  /\ sqe = [i \in SqIndex |-> Zeroes]
  /\ cqHead = 0 /\ cqPhase = 1 /\ cqDb = 0
  /\ cqe = [i \in CqIndex |-> [p |-> 0, sqHead |-> 0]]
  /\ dma = 0
  /\ fetchHead = 0 /\ executing = {}
  /\ postTail = 0 /\ postPhase = 1 /\ moved = {}
  /\ pc = [t \in Tasks |-> "idle"]
  /\ call = [t \in Tasks |-> 0] /\ kind = [t \in Tasks |-> "zero"]
  /\ slot = [t \in Tasks |-> 0] /\ nextTail = [t \in Tasks |-> 0]
  /\ polls = [t \in Tasks |-> 0]
  /\ entry = [t \in Tasks |-> 0] /\ nextHead = [t \in Tasks |-> 0]
  /\ res = [t \in Tasks |-> "none"]
  /\ calls = 0 /\ overlap = FALSE /\ lost = FALSE

At(t, step) == pc[t] = step
Goto(t, step) == pc' = [pc EXCEPT ![t] = step]
Busy(t) == pc[t] \notin {"idle", "crashed"}

(***************************************************************************)
(* nvme_prpl_xfer, nvme_bounce_xfer, nvme_io_xfer                          *)
(***************************************************************************)

\* A task enters with a transfer of some kind.
Enter(t, k) ==
  /\ At(t, "idle")
  /\ calls < MaxCalls /\ (overlap => calls < MaxMixed)
  /\ calls' = calls + 1
  /\ call' = [call EXCEPT ![t] = calls + 1]
  /\ kind' = [kind EXCEPT ![t] = k]
  /\ res' = [res EXCEPT ![t] = "none"]
  /\ overlap' = (overlap \/ \E u \in Tasks \ {t} : Busy(u))
  /\ Goto(t, IF k = "staged" THEN "stage" ELSE "get")
  /\ UNCHANGED <<submission, completion, dma, controller, slot, nextTail, polls,
                 entry, nextHead, lost>>

\* A bounced write, or the loop that builds a page list, fills nvme_dma_buffer.
Stage(t) ==
  /\ At(t, "stage")
  /\ dma' = call[t]
  /\ Goto(t, "get")
  /\ UNCHANGED <<submission, completion, controller, local, res, history>>

(***************************************************************************)
(* nvme_get_next_sqe: NULL, or the entry at the tail, cleared and given    *)
(* its opcode and data pointer.                                            *)
(***************************************************************************)
GetsNull == NextIndex(sqHead, SqLen) = sqTail

TestFull(t) ==
  /\ At(t, "get")
  /\ Goto(t, IF GetsNull THEN "null" ELSE "take")
  /\ UNCHANGED <<submission, completion, dma, controller, local, res, history>>

GetSqe(t) ==
  /\ At(t, "take")
  /\ slot' = [slot EXCEPT ![t] = sqTail]
  /\ sqe' = [sqe EXCEPT ![sqTail] = [data |-> call[t], lba |-> 0, kind |-> kind[t]]]
  /\ Goto(t, "fill")
  /\ UNCHANGED <<sqHead, sqTail, sqDb, completion, dma, controller, call, kind,
                 nextTail, polls, entry, nextHead, res, history>>

\* nsid, dword[10..12]: the rest of the command.
Fill(t) ==
  /\ At(t, "fill")
  /\ sqe' = [sqe EXCEPT ![slot[t]].lba = call[t]]
  /\ slot' = [slot EXCEPT ![t] = 0]
  /\ Goto(t, "commit")
  /\ UNCHANGED <<sqHead, sqTail, sqDb, completion, dma, controller, call, kind,
                 nextTail, polls, entry, nextHead, res, history>>

\* The same stores through NULL trap, or land in memory the driver does not use.
FillNull(t) ==
  /\ At(t, "null")
  /\ \/ Goto(t, "commit") \/ Goto(t, "crashed")
  /\ UNCHANGED <<submission, completion, dma, controller, local, res, history>>

(***************************************************************************)
(* nvme_commit_sqe: load the tail, store the next one, ring the doorbell   *)
(* with what the tail is by then.                                          *)
(***************************************************************************)

\* Mutant: the tail is not masked.
LoadTailUnmasked(t) ==
  /\ At(t, "commit")
  /\ nextTail' = [nextTail EXCEPT ![t] = sqTail + 1]
  /\ Goto(t, "store")
  /\ UNCHANGED <<submission, completion, dma, controller, call, kind, slot, polls,
                 entry, nextHead, res, history>>

LoadTail(t) ==
  /\ At(t, "commit")
  /\ nextTail' = [nextTail EXCEPT ![t] = NextIndex(sqTail, SqLen)]
  /\ Goto(t, "store")
  /\ UNCHANGED <<submission, completion, dma, controller, call, kind, slot, polls,
                 entry, nextHead, res, history>>

StoreTail(t) ==
  /\ At(t, "store")
  /\ sqTail' = nextTail[t]
  /\ nextTail' = [nextTail EXCEPT ![t] = 0]
  /\ Goto(t, "ring")
  /\ UNCHANGED <<sqHead, sqDb, sqe, completion, dma, controller, call, kind, slot,
                 polls, entry, nextHead, res, history>>

RingDoorbell(t) ==
  /\ At(t, "ring")
  /\ sqDb' = sqTail
  /\ polls' = [polls EXCEPT ![t] = Polls]
  /\ Goto(t, "wait")
  /\ UNCHANGED <<sqHead, sqTail, sqe, completion, dma, controller, call, kind, slot,
                 nextTail, entry, nextHead, res, history>>

(***************************************************************************)
(* nvme_wait and nvme_consume_cqe                                          *)
(***************************************************************************)
PollCq == cqe[cqHead].p = cqPhase

\* Mutant: the loop does not count down.
PollEmptyForever(t) ==
  /\ At(t, "wait")
  /\ polls[t] > 0
  /\ ~PollCq
  /\ UNCHANGED vars

PollEmpty(t) ==
  /\ At(t, "wait")
  /\ polls[t] > 0
  /\ ~PollCq
  /\ polls' = [polls EXCEPT ![t] = @ - 1]
  /\ UNCHANGED <<submission, completion, dma, controller, pc, call, kind, slot,
                 nextTail, entry, nextHead, res, history>>

PollHit(t) ==
  /\ At(t, "wait")
  /\ polls[t] > 0
  /\ PollCq
  /\ polls' = [polls EXCEPT ![t] = 0]
  /\ Goto(t, "consume")
  /\ UNCHANGED <<submission, completion, dma, controller, call, kind, slot, nextTail,
                 entry, nextHead, res, history>>

Timeout(t) ==
  /\ At(t, "wait")
  /\ polls[t] = 0
  /\ lost' = TRUE
  /\ res' = [res EXCEPT ![t] = "failed"]
  /\ Goto(t, "idle")
  /\ UNCHANGED <<submission, completion, dma, controller, local, calls, overlap>>

\* nvme_consume_cqe polls again: another task may have been faster.
ConsumeNone(t) ==
  /\ At(t, "consume")
  /\ ~PollCq
  /\ res' = [res EXCEPT ![t] = "failed"]
  /\ Goto(t, "idle")
  /\ UNCHANGED <<submission, completion, dma, controller, local, history>>

\* cqe = &cq->cqe[cq->head]; cq_next_head = (cq->head + 1) & mask
Consume(t) ==
  /\ At(t, "consume")
  /\ PollCq
  /\ entry' = [entry EXCEPT ![t] = cqHead]
  /\ nextHead' = [nextHead EXCEPT ![t] = NextIndex(cqHead, CqLen)]
  /\ Goto(t, "flip")
  /\ UNCHANGED <<submission, completion, dma, controller, call, kind, slot, nextTail,
                 polls, res, history>>

\* Mutant: the phase stays.
FlipNever(t) ==
  /\ At(t, "flip")
  /\ Goto(t, "advance")
  /\ UNCHANGED <<submission, completion, dma, controller, local, res, history>>

\* if (cq_next_head < cq->head) cq->phase = ~cq->phase;
FlipPhase(t) ==
  /\ At(t, "flip")
  /\ cqPhase' = IF nextHead[t] < cqHead THEN 1 - cqPhase ELSE cqPhase
  /\ Goto(t, "advance")
  /\ UNCHANGED <<submission, cqHead, cqDb, cqe, dma, controller, local, res, history>>

\* cq->head = cq_next_head;
StoreHead(t) ==
  /\ At(t, "advance")
  /\ cqHead' = nextHead[t]
  /\ nextHead' = [nextHead EXCEPT ![t] = 0]
  /\ Goto(t, "sqhead")
  /\ UNCHANGED <<submission, cqPhase, cqDb, cqe, dma, controller, call, kind, slot,
                 nextTail, polls, entry, res, history>>

\* if (cqe->sq_head != sq->head) sq->head = cqe->sq_head;
UpdateSqHead(t) ==
  /\ At(t, "sqhead")
  /\ sqHead' = cqe[entry[t]].sqHead
  /\ entry' = [entry EXCEPT ![t] = 0]
  /\ Goto(t, "release")
  /\ UNCHANGED <<sqTail, sqDb, sqe, completion, dma, controller, call, kind, slot,
                 nextTail, polls, nextHead, res, history>>

\* writel(cq->common.dbl, cq->head);
ReleaseCqe(t) ==
  /\ At(t, "release")
  /\ cqDb' = cqHead
  /\ Goto(t, "copy")
  /\ UNCHANGED <<submission, cqHead, cqPhase, cqe, dma, controller, local, res,
                 history>>

\* The call returns its count; a bounced read first copies what the page holds.
\* "bad" is a success whose blocks are not the ones asked for.
Return(t) ==
  /\ At(t, "copy")
  /\ res' = [res EXCEPT ![t] =
               IF call[t] \in moved /\ (kind[t] = "bounceRead" => dma = call[t])
               THEN "ok" ELSE "bad"]
  /\ Goto(t, "idle")
  /\ UNCHANGED <<submission, completion, dma, controller, local, history>>

(***************************************************************************)
(* The controller                                                          *)
(***************************************************************************)
Fetch ==
  /\ fetchHead # sqDb
  /\ \A e \in executing : e[1] # fetchHead
  /\ executing' = executing \cup {<<fetchHead, sqe[fetchHead]>>}
  /\ fetchHead' = CtlNext(fetchHead, SqLen)
  /\ UNCHANGED <<submission, completion, dma, postTail, postPhase, moved, pc, local,
                 res, history>>

\* It moves the data of a command and completes it.  A call is served when both
\* halves of the command are its own and the page held its data.
Whole(c) == c.data = c.lba /\ c.data > 0 /\ (c.kind = "staged" => dma = c.data)

Complete ==
  \E e \in executing :
    /\ CtlNext(postTail, CqLen) # cqDb
    /\ cqe' = [cqe EXCEPT ![postTail] = [p |-> postPhase, sqHead |-> fetchHead]]
    /\ postTail' = CtlNext(postTail, CqLen)
    /\ postPhase' = IF postTail' = 0 THEN 1 - postPhase ELSE postPhase
    /\ executing' = executing \ {e}
    /\ moved' = IF Whole(e[2]) THEN moved \cup {e[2].data} ELSE moved
    /\ dma' = IF e[2].kind = "bounceRead" THEN e[2].lba ELSE dma
    /\ UNCHANGED <<submission, cqHead, cqPhase, cqDb, fetchHead, pc, local, res,
                   history>>

Step(t) == \/ Stage(t) \/ TestFull(t) \/ GetSqe(t) \/ Fill(t) \/ FillNull(t)
           \/ LoadTail(t) \/ StoreTail(t) \/ RingDoorbell(t)
           \/ PollEmpty(t) \/ PollHit(t) \/ Timeout(t)
           \/ ConsumeNone(t) \/ Consume(t) \/ FlipPhase(t) \/ StoreHead(t)
           \/ UpdateSqHead(t) \/ ReleaseCqe(t) \/ Return(t)

Next == \/ \E t \in Tasks : (\E k \in Kinds : Enter(t, k)) \/ Step(t)
        \/ Fetch \/ Complete

\* Every task inside the driver gets the processor again and again.
Spec == Init /\ [][Next]_vars /\ \A t \in Tasks : WF_vars(Step(t))

(***************************************************************************)
(* Properties                                                              *)
(***************************************************************************)

\* Tasks that take turns share the queue safely: while no two calls overlapped and
\* none timed out, a call that succeeds got its own blocks, and none fails.
TurnsAreSafe == ~overlap /\ ~lost => \A t \in Tasks : res[t] \in {"none", "ok"}

\* Every call ends, however the tasks interleave: it returns or traps.
CallsEnd == \A t \in Tasks : Busy(t) ~> ~Busy(t)

\* nvme_io_xfer "reads count sectors into buf": a call that reports success
\* transferred its own sectors, as long as no command timed out.
ReadsItsSectors == ~lost => \A t \in Tasks : res[t] # "bad"

=============================================================================
