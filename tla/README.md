# LARTS: TLA+ models, checks and proofs

LARTS is published as an artifact: prebuilt kernel images, the RTEMS test suites, a few user
applications, and the code the authors added to run them. The kernel itself is not in the
repository. What carries logic of its own, and is modelled here, is

* the **NVMe driver and block device** that the LARTS authors added to the `hello` sample
  (`src/testsuites/samples/hello/nvme-bsp.h` and `nvmedisk.h`),
* **tinyexpr**, the expression compiler that the memory, timing and migration experiments run
  as user program (`tinyexpr.c`, four byte-identical copies), and
* the **workspace memory monitor** of the kernel, whose code `src/memory_usage/README.md` lists.

Everything below can be repeated with `tlc -config X.cfg M` and `tlapm M.tla`.

## 1. Inventory

### NVMe queue pair (`nvme-bsp.h` 85-425)

*State:* `struct nvme_sq`, `struct nvme_cq`: head, tail, phase, mask, ring memory shared with
the controller, doorbell registers. *Operations:* `nvme_get_next_sqe`, `nvme_commit_sqe`,
`nvme_poll_cq`, `nvme_consume_cqe`, `nvme_wait`. *Interaction:* the controller reads the
submission ring up to the doorbell, and writes completions at its own pace. *Hard:* a
completion may arrive after `nvme_wait` gave up; identifiers are never compared; the phase
bit must stay in step over wraps; the entry is read after the doorbell released it; the
caller of the I/O queue does not test for NULL. *Correct when:* a call returns the status of
its own command and a queue that timed out cannot mix up answers.

### NVMe bring-up and registration (`nvme-bsp.h` 427-855, 981-1017, `nvmedisk.h` 50-89)

*State:* what has been allocated, CC.EN, CSTS, the globals `ctrl`, `ns`, `nvme_dma_buffer`.
*Operations:* `nvme_scan`, `nvme_controller_setup`, `nvme_controller_enable`,
`nvme_wait_csts_rdy`, `nvme_admin_identify`, `nvme_create_io_cq/sq/queues`, `nvme_probe_ns`,
and `nvmedisk_initialize`, which registers the disks and then calls `nvme_scan`.
*Interaction:* synchronous admin commands; the controller writes into buffers that the
commands name. *Hard:* every step may fail and has its own label to jump to; memory is freed
while the controller may still write to it; disks are registered before anything is known of
the controller, and nobody asks what `nvme_scan` achieved. *Correct when:* nothing is freed
twice or leaked, a usable namespace rests on live queues that exist, requests find a live
namespace, and initialisation always ends.

### NVMe transfer and block device (`nvme-bsp.h` 857-974, `nvmedisk.h` 100-211)

*State:* the request and the position in it, `nvme_dma_buffer` (bounce buffer *and* page
list), host memory, the medium. *Operations:* `nvmedisk_ioctl`, `nvmedisk_read`,
`nvmedisk_write`, `nvme_prpl_xfer`, `nvme_bounce_xfer`, `nvme_io_xfer`. *Interaction:* called
by the RTEMS buffer cache, from the reading task and from its swap-out task, which waits for
`rtems_blkdev_request_done`. *Hard:* nothing below the cache is locked; four ways to describe a
buffer with their boundaries; requests cut into several commands, one of which
fails; two block sizes; a late command that uses the shared page. *Correct when:* a completed
request copied exactly its blocks, and every request is completed.

### tinyexpr (`tinyexpr.c`)

*State:* the lexer's `state`, the C call stack, the nodes on the heap. *Operations:*
`te_compile` (`next_token`, `base`, `power`, `factor`, `term`, `expr`, `list`, `optimize`),
`find_lookup`, `find_builtin`, `te_eval`, `te_free`, `te_interp`. *Interaction:* the programs
`main.c`, `image1.c`, `example*.c` compile, evaluate and free. *Hard:* any malloc may fail in
the middle of the mutual recursion; an error is only a token type; after an error the tree has
NULL parameters; `optimize` calls functions early; names that begin other names in a table
searched by halving; `fac` and `ncr` guard their own unsigned arithmetic. *Correct when:* nodes
have one owner and none leaks, exactly the grammar is accepted, a compiled tree is complete and
still calls what is impure, the C stack is bounded by what the text holds, a name is found when it
exists, a finite factorial or coefficient is the right one up to the rounding of doubles.

### Workspace memory monitor (listing in `memory_usage/README.md` 24-144)

*State:* `g_samples`, `g_sample_count`, the loop's `base` and `next`. *Operations:*
`record_workspace_for_4000ticks_then_print`, `take_one_sample`, `dump_samples_once`.
*Interaction:* the kernel's tick counter and heap information. *Hard:* the counter may wrap during
the measurement; the task may be kept from running for several periods. *Correct when:* no sample
is early, late by more than the task was, or dropped, and the measurement ends.

### Not modelled

| part | why |
|---|---|
| `te_eval`, `te_print`, the functions of libm | floating-point values and printing |
| which characters make a token | the lexer's control (skip blanks, number, name, operator) delivers a token; only names have content in a model (TeSearch) |
| `nvme_self_test`, `fs-test.h`, `init.c` | clients that write a pattern and compare; the disk properties state what they look at |
| `io.h` | single loads and stores, atomic accesses in the models |
| system call dispatcher | a listing of a bounds test, a table lookup and one call; table and functions are in the kernel, which is not in the repository |
| measurement and fault images, kernel samples | straight-line programs whose effect is the kernel's |
| RTEMS test suites | upstream tests of a kernel that is not in the repository |
| images, CMake files, `build.sh` | binaries and build recipes |

Nearly all lines of the repository are in the last two rows: 2300 of its source files are test
programs of the RTEMS project, many of them images in the form of C arrays. A test program is a
script that calls the kernel and compares; without the kernel there is no behaviour to model
behind those calls, and a model of the script alone would hold by construction. The code with
logic of its own is about 2000 lines, and these are what the modules cover.

## 2. Modules and how they correspond to the code

| module | models | state / actions |
|---|---|---|
| `NvmeRing` | mask arithmetic of the rings | `NextIndex` is `(i + 1) & mask` on 16 bits, `CtlNext` the controller's |
| `NvmeQueue` | one queue pair and its controller | `Submit`, `Refuse`, `NullStore`, `NullCrash` are the callers with and without a test for NULL; `PollEmpty`, `ConsumeCqe`, `CopyCqe`, `Timeout` are `nvme_wait`; `Fetch`, `Complete` the controller |
| `NvmeSync` | *abstract:* a synchronous command interface | `Begin`, `Run`, `Finish`, `GiveUp`, `Refuse` |
| `NvmeXfer` | PRP entries of a transfer, and the controller's reading of them | pure definitions: `Way`, `Blocks`, `Prp1`, `Prp2`, `ListEntries`, `HostAddr` |
| `NvmePrp` | calls of `nvme_prpl_xfer` with every buffer and count | the arguments |
| `NvmeDisk` | block device on `NvmeXfer` | `Ioctl`, `NextBuffer`, `Xfer...`, `RequestDone`, `LateRun` |
| `NvmeTasks` | several tasks in the driver | one action per access to what tasks share: `TestFull`, `GetSqe`, `Fill`, `LoadTail`, `StoreTail`, `RingDoorbell`, `Poll...`, `Consume`, `FlipPhase`, `StoreHead`, ... |
| `NvmeCtrl` | bring-up on `NvmeSync` | one action per step and per failure, `Device...` the controller |
| `NvmeBoot` | `nvmedisk_initialize` over `NvmeCtrl`, and the requests after it | `InitializeIo`, `Calloc`, `CreateDisk`, `ScanGoesOn`, `ScanMeetsFault`, `ReturnOk`, `Request` |
| `TeCompile` | the parser as a machine with an explicit stack | `list`, `expr`, `term`, `factor` have one shape and are the four levels of the `Chain...` actions; `Power...`, `Base...`, `Arg...` the rest; `Compile...` is `te_compile`; `FreeExpr` the end of the program |
| `TeGrammar` | the grammar in the comments of `base`, `power`, `factor`, `term`, `expr` and `list`, as a reference definition | pure definitions: `Words`, the texts of each nonterminal by their length; the instance of `te_compile` |
| `TeNames` | table of builtins, comparison of names | pure definitions |
| `TeSearch` | `find_lookup`, then `find_builtin` | one action per branch of the loops |
| `TeNum` | `fac`, `ncr`, `npr` in w-bit unsigned arithmetic | the loops, one action per branch; the two calls of `npr` in a row |
| `TeCall` | a name from its lookup to the call: `TeSearch`, then `TeNum` | `Search` in `next_token`, `Call` and `Compute` in `te_eval` |
| `MemSampler` | the memory monitor | `Sample`, `NotDue`, `Wake`, `Dump` |
| `NvmeQueueProofs`, `NvmeDiskProofs`, `NvmeBootProofs`, `NvmeTasksProofs`, `TeCompileProofs`, `TeNumProofs`, `TeCallProofs`, `MemSamplerProofs` | theorems | |
| `MC...` | instances | |

Composition: `NvmeBoot` extends `NvmeCtrl`: its `ScanGoesOn` and `ScanMeetsFault` are the steps of
the bring-up, told apart by whether they are a failure. `NvmeCtrl` instantiates the *abstract* `NvmeSync` for its admin commands, which is
sound because `NvmeQueue` with `ChecksNull = TRUE` is shown to implement it. `NvmeDisk` extends
`NvmeXfer` and uses the result about the I/O queue: a command gets its own completion until one
times out; the next call then writes through NULL, and later calls may take another command's
completion (`queue` = "ok", then "lost", then "shifted"). `NvmeTasks` has the queue of `NvmeQueue`
again at the grain of single stores, with the shared page; there every command succeeds, and a
call may still time out. `TeCall` puts `TeSearch` and `TeNum` in a row: the entry that the lookup found is the
function that is called, and a variable of the program with its name hides it.

External parts, modelled from how the driver uses them: the NVMe controller (it fetches,
completes in any order, late or never, and leaves one completion entry free), the RTEMS buffer
cache (one request at a time in `NvmeDisk`, any task at any time in `NvmeTasks`), `malloc` (may
fail), `strncmp`, the kernel's tick counter.

Abstractions. Queue entries carry the number of the call instead of the command; addresses are
cells, a page is 4 or 16 cells; medium and memory hold one value per block; the write through
NULL either traps (`NullCrash`) or hits memory the driver never reads (`NullStore`). tinyexpr's
text is chosen token by token while it is read, so that one run covers every text; operators
that the parser treats alike have one token (`mul` for `* / %`); closures behave as functions.
The position part of `*error` is 1. `TE_POW_FROM_RIGHT` and `TE_NAT_LOG` are off, as in every
build file. In `NvmeTasks` an entry has two halves, data pointer and block address, which
two tasks may mix; the kinds of transfer are the ones that use the shared page before the command
("staged"), after it ("bounceRead") or not at all ("direct"). An argument of `TeNum` is NaN or counted in halves; converting NaN to an integer is undefined and gives any value. Its results are doubles with a
mantissa of their own: `Round` is round-to-nearest-even, made where `fac` and `ncr` convert unsigned long to
double (139, 153) and where `npr` multiplies (155). An FPU that keeps more bits in between, as on i386, rounds
less often than that. `optimize` and `te_free` are one step each in `TeCompile`; how deep they recurse is the
explicit measure `Depth`. `TeNames` keeps the names of the table spelled out, since `SearchAssumption` is about
the table as it is: order and prefixes are computed from the spelling by `strncmp`, not written down.

## 3. Runs

| run | shows |
|---|---|
| `queue_admin` | callers that test for NULL: the command is in one place and the phases agree over two wraps (`RingInv`), a timeout closes the queue (`LostIsFinal`), and the queue implements `NvmeSync` (`SyncSpec`, its fairness included), so that every call gets its own completion |
| `queue_io` | `nvme_io_xfer`'s queue: own completions until a NULL is written through; the entry copied after the doorbell is stable also afterwards, while the controller fills the completion ring and starts again; every wait ends |
| `prp` | 1360 combinations of buffer address and count: the controller finds exactly the buffer; up to 64 KiB in one command (`ListSuffices`) |
| `disk` | requests of every shape, two in a row, with errors and timeouts: exact copies while every command is answered, no block outside a request touched, loops end |
| `boot` | two disks; every registration, allocation, command and wait failing: freed once, no leak, DMA into freed memory only after a timeout, sound namespace, bring-up goes on only when both I/O queues were answered with a status code of zero (`QueuesAnswered`, for statuses of either code type), a request finds a live namespace unless something failed (`RequestsReachNs`), initialisation ends |
| `tasks` | two tasks interleaved between any two accesses: indices stay in the rings; tasks that take turns get their own blocks; every call ends, however they overlap |
| `te_compile` | texts of four tokens of every kind and of six of the core ones, any malloc failing: one owner per node, no leak, nothing freed twice, no NULL in `optimize`, complete trees; the grammar of the comments is accepted and the parser stops at the first impossible token; impure functions are not folded; the descent is no deeper than the nesting (`DescentBound`), the walks of `te_free`, `optimize` and `te_eval` no deeper than operators, signs and functions (`WalkBound`); error codes, sticky error, termination |
| `te_call` | the real table: every builtin, beginning and extension of a builtin, is found when it is there; then `fac`, `ncr` and `npr` with every pair of arguments of a 3-bit int, NaN and fractions included, long of 3 and of 6 bits, doubles of 3 bits: finite results right up to the rounding and exact while a double holds them, infinity only when needed, no division by zero; every name and every call is answered (`Answers`) |
| `sampler` | every start of the tick counter, so that it wraps anywhere in the measurement, sleeps longer than a period: samples neither early nor late, none dropped, rounding, termination |

The type invariants `TypeOK` (`BootTypeOK` of `NvmeBoot`) hold under the same configurations; all but those
of `NvmeDisk` and `TeCompile` are proved below (of these two the part that the proofs need, inside
`Loop` and `Control`), and `tasks` keeps its own, since an index that two tasks advance at once is the
one that could leave its ring.

Disagreements between the code and what its comments or tests say, each with a counterexample:

| run | what happens |
|---|---|
| `disk_hung` | a failed request is never completed, which test block09 expects of a driver |
| `boot_status` | "Returns 0 on success" (588, 635): `nvme_is_cqe_success` looks at the status code and not at its type, so a queue whose creation failed with type 1, code 0 (0x100) counts as made, and the bring-up goes on (`QueuesMade`) |
| `tasks_overlap` | "Reads count sectors into buf" (857): two calls overlap, all commands are answered in time, and a call that reports success has not got its sectors |

The same modules show more with other constants or formulas, for which no run is kept:

* "Returns the next submission queue entry (or NULL if the queue is full)" (`nvme-bsp.h` 395): the test of line
  400 returns NULL with one command outstanding in a ring of any length. It is also what keeps a
  timed-out queue closed: the mutant `GetsNullIfFull`, which asks what the comment says, lets a
  late completion answer another command.
* "Call this after you've filled out an sqe" (418): in `queue_io` the step `NullStore`, which follows
  a timeout, commits an entry that `nvme_io_xfer` did not fill. `NvmeDisk` without `queue = "ok"` in
  `CopiedWhileAnswered` shows the consequence: a request may be completed that was never transferred.
* "This is inverted after each wrap" (100): `NvmeQueueIo.cfg` with rings of six entries and
  `PhaseIsCurrent`: with a length that is no power of two (1 + CAP.MQES is used as it comes) the
  driver's phase and the controller's differ.
* `NvmeDisk.cfg` with `BlockSize = 4` and `DiskBlock = 2` violates `CopiedWhileAnswered`: a namespace
  with larger blocks than the registered disk is read and written at the wrong place
  (`nvmedisk.h` 124). The theorems about the disk say so: they assume `Registered`.
* `TeNum` with `ULongMax = UIntMax`, as on ARMv7: `ncr(NaN, UINT_MAX)` may divide by zero, which is
  why `DivisorsNonzero` leaves NaN out there.
* "here it could also simply be written as now >= next" (`memory_usage/README.md` 133): the mutant
  `DuePlain` is that test, and breaks `NeverEarly` and `SamplesFit` when the counter wraps.
* `NvmeDisk.cfg` with `MaxReq = 0`, which line 555 computes for mdts from 20 to 31, violates
  `NoStray`: `count - 1` becomes 2^16 - 1. Hence `MaxReq > 0` in the hypothesis `Served`.
* `<function-0> {"(" ")"}` (`tinyexpr.c` 311): braces repeat what they hold in every other production
  (`{"," <expr>}`), but `base` takes one pair of parentheses after a function without arguments at most
  (340-346), so that `pi()()` is refused. `TeGrammar` reads these braces as "at most once", so that
  `AcceptsGrammar` compares the parser with the rest of the comments.

### Bounds and why they are enough

* `SqLen` 4 and `CqLen` 8 with 9 calls: both rings wrap, the submission ring twice, at different
  times. Two status values: success and failure. 1 or 2 polls instead of 500: the loop's first,
  last and middle turn. `queue_io` has a completion ring of four entries and five calls: the fifth completion
  goes into an entry that was used before, so that `CopyStable` depends on the doorbell and on the entry
  the controller leaves free (without this guard of the controller TLC finds a violation; with four calls it
  does not). The proofs remove these bounds.
* `prp`: block = 1/8 page as with 512-byte blocks; buffers start anywhere in the first two pages
  and have up to 39 blocks, nearly five pages; lists hold three entries, so all four ways and
  the overflow of the list occur. `CountMod` 40 stands for 2^16.
* `disk`: seven shapes (inside a page, two pages, list, list too long, unaligned, misaligned,
  two buffers) in both directions, and one ioctl of another kind; two requests, so that one
  meets what the other left.
* `boot`: statuses 0, 2 (a code) and 256 (a type without a code); two disks, so that registration can fail half way; two namespaces, so that the second meets the first one's `ns` and `nvme_dma_buffer`;
  `MaxTo` 2 polls: a controller that becomes ready after the last
  poll takes the branch that CAP.TO = 0 takes at once.
* `tasks`: two tasks, rings of two entries that wrap at once, three calls of which the third is made
  only while calls have not overlapped (`MaxMixed`). The proofs remove the bounds for tasks that take
  turns.
* `te_compile`: four tokens reach every function of the parser and every CHECK_NULL; a whole call of
  two arguments needs six, with one token of each kind that the grammar tells apart (`Core`). All
  texts of eight tokens with calls only were also checked once.
* `te_call`: the whole table; two variables, so that the first of two equal names counts. `UIntMax` 7; factorials and coefficients pass both values of `ULongMax`. `MaxExact` 8 lies between
  them as 2^53 lies between ULONG_MAX of 32 and of 64 bits, so that the wide machine rounds and the narrow one
  rounds only products of `npr`. The proofs remove the bounds.
* `sampler`: a period of 3 in a window of 10 that it does not divide; sleeps of up to 4 ticks; a
  counter of 26 values, the smallest that `TickAssumption` allows. The proofs remove the bounds.

`CHECK_DEADLOCK FALSE` everywhere: the number of calls or requests is bounded, bring-up and
compilation end, and the device may be idle.

### Fairness

Only running tasks are assumed to go on: `WF` of the driver's own steps inside `nvme_wait`, inside
the request loop, of `nvmedisk_initialize`, of each task inside the driver (the scheduler lets it run
again), of the sampler, which the kernel wakes, and of the sequential parser, search and arithmetic.
Nothing is assumed of the controller or of the callers; the liveness properties hold against a
controller that never answers, because every wait in the code counts polls.

## 4. Proofs

| theorem | statement |
|---|---|
| `NvmeQueueProofs!TypeCorrect` | indices stay inside the rings |
| `RingCorrect`, `OwnCompletionCorrect` | the command is in one place; answers are not mixed up |
| `LostIsFinalCorrect`, `CopyStableCorrect`, `PhaseCorrect` | action properties and phases |
| `ImplementsSync` | the queue implements the safety part of `NvmeSync` |
| `NvmeDiskProofs!DescribesBufferCorrect`, `ListSufficesCorrect` | PRP1, PRP2 and list name exactly the buffer; a page-aligned buffer that fits the list takes one command |
| `NoStrayCorrect`, `OnlyTheRequestCorrect`, `CopiedWhileAnsweredCorrect` | while commands are answered, the disk touches the blocks of its request and no others, and a completed request has copied all of them |
| `NvmeBootProofs!FreedOnceCorrect`, `DmaIntoLiveCorrect`, `NsSoundCorrect`, `RequestsReachNsCorrect` | bring-up owns its memory; requests reach a namespace unless something failed |
| `QueuesAnsweredCorrect` | a namespace is used only after the creation of both I/O queues was answered, each by its own completion, with a status code of zero |
| `TeCompileProofs!ErrorStickyCorrect`, `ErrorCodeCorrect` | an error token is final, and `*error` says what happened, for texts of any length |
| `OwnedCorrect`, `CompleteCorrect` | whichever malloc fails: every node has one owner, none leaks, is freed twice or followed when NULL; a compiled expression has no NULL parameter |
| `ImpureSurvivesCorrect` | `optimize` folds no call of a function that is not pure |
| `DescentBoundCorrect` | the parser's recursion is bounded by the parentheses that are open and the functions that were read |
| `WalkBoundCorrect` | expressions, and the parts of them that error paths free, are no deeper than the operators, signs and functions of the text |
| `AcceptsGrammarCorrect` | while memory lasts, `te_compile` accepts only texts of the grammar and gives up only at a token that no text of the grammar has there, for every set of tokens and every bound on the texts |
| `TeCallProofs!SearchTypeCorrect`, `FindsCorrect` | the two searches find what is there |
| `NvmeTasksProofs!TasksTypeCorrect`, `TurnsAreSafeCorrect` | any number of tasks: indices stay inside the rings; tasks that take turns get their own blocks |
| `TeCallProofs!NumTypeCorrect`, `NumExactCorrect` | finite results of `fac` and `ncr` have a relative error of at most 2^-53 (1/`MaxExact`), of `npr` four times that, and those up to 2^53 are exact, for every size of int, long and double |
| `DivisorsNonzeroCorrect`, `InfinityNeededCorrect` | no loop divides by zero; infinity is returned only when the value, or a product on the way, does not fit |
| `MemSamplerProofs!SamplerTypeCorrect`, `SamplesFitCorrect`, `NeverEarlyCorrect`, `NeverLateCorrect`, `UsageNearestCorrect` | the sampler, for every period, window, width and delay |

*Queue.* `OwnCompletion` is not inductive: that a completion is one's own depends on where the
command is. `RingInv` says so: driver and controller share at most one command, which is
`Queued`, `InFlight`, `Posted` or nowhere (`Drained`), the entries below the controller's tail
carry its phase, and after a timeout the command stays in one of the first three places, so that
`GetsNull` refuses every later call. `IInv` is `TypeOK /\ RingInv /\ OwnCompletion`; TLC checks
its conjuncts first. Assumptions: lengths of at least 2 on which masking wraps
(`WrapAssumption`), which rings of six entries show to be necessary. `LostIsFinal`,
`PhaseCorrect` and `ImplementsSync` add that callers test for NULL. `CopyStable` needs neither:
`CopyInv` (the doorbell is one past the entry being copied) and one free entry suffice, so that
it holds also after a NULL store.

*Transfers.* `DescribesBuffer` follows for every page size, block size that divides it, offset
and count, from division with remainder: cell k lies in page `k \div PageSize` of the buffer,
and the list has that page at that place. No bound on the count is left but its width.

*Disk.* `Loop` is the position in the request, and that no command is late while the queue is in
order; `SoFar` says that the blocks of the buffers before `sg`, and those before `id` of the buffer at
`sg`, hold what the medium holds. One command extends `SoFar` by the blocks it describes, which
is where `Describes` (transfers) is used, and spoils none before: hence `Separate`, blocks of one request
share no address in memory or on the medium, which the buffer cache guarantees since each of its
buffers holds one block. `Served` asks that the request limit is not zero and that a buffer's count
of blocks fits 16 bits; `Registered` that disk and namespace have the same block size. TLC finds
counterexamples without the last two (see above). `NoStray` needs only `Served`,
`OnlyTheRequest` only `Registered`.

*Bring-up.* `FreedOnce` and `NsSound` say what is allocated at the end of a path; the invariant says
it of every step: `Owns` gives each allocation the set of places `pc` at which it is live, `Waits`
the places where a command may be under way and the memory it names (what that step allocated, hence
live until the command is given up), `Probes` that the namespaces so far hold the shared page.
`Reached` adds that, as long as nothing failed, `ns` is the namespace probed last. `IInv` is their
conjunction with the types; TLC checked it as an invariant first. Assumptions: `CtrlAssumption`
(the bound on calls leaves room for one command per step) and `DiskAssumption`, nothing on the
status values. `QueuesAnswered` is a separate argument, `Told`: what the last
command was answered with is what the queue it names was answered with, the bring-up went past a queue only
with a status whose code is zero, and no command still to run names a queue that it went past. Nothing is
assumed of the status values; that a code of zero is not yet a success is the finding of `boot_status`.

*Error token.* Most calls of `next_token` follow a test of the token. `Reads` covers the two that do
not: `te_compile`'s first one, and the one in the loop over arguments, which is reached only with
"(" or ",". `ErrorCode` rests on `Control`, what each call on the stack holds and where a
value is on its way back, and on `Told`: NULL comes back exactly when memory has run out.

*Trees.* `Owned` and `Complete` speak of walks through the heap. `Reach` is a `Closure`, as many
rounds as there are nodes; that these are enough, so that the result is the least set which holds the start and is
closed under parameters, is shown by taking the least round that violates a bound on what the rounds
have gathered (`WFMin` of the library, in place of an induction). The invariant avoids walks: `Pt` puts the parameters of live nodes, the nodes
held by calls, the value on its way back and the result in one table, and `Own(Pt, Live)` says
that entries lead to live nodes, no two to the same one, and that every nonempty set of live nodes
is pointed at from outside the set, which excludes cycles and leaks at once. Attaching, detaching
and freeing a tree keep it (`AddOwn`, `FreeOwn` and the lemmas before them). `Filling` says which
parameters of a call under construction are still NULL, `Filled` that without an error only those nodes
have any: this is what keeps `optimize` and `Complete` from NULL. `HeapInv` is their conjunction.
`ImpureSurvives` adds a count, `Tally`: until the last token, nodes of impure calls are as many as the
tokens that name such functions, and nothing is freed while memory lasts.

*Depth of the recursion.* `DescentBound` compares the stack with the text. `Kinds` are the kinds of
calls on the stack, `Slack` how much deeper each kind gets without a new "(" or function; `Deep` bounds every
prefix of the stack, so that returns need no argument. `Nested` adds that open parentheses and functions of
the text are at least those the stack stands for; `Pending` corrects by the parenthesis that `base` has
read ahead or not read yet. `Calling` says who calls whom, `Latest` that the token is the last of the text.
TLC checked `HeapInv`, `Tally` and `Nested` as invariants before they were proved.

This bounds the parser only. An operator chain makes a tree that is as deep as it is long, and `te_free`, `optimize`
and `te_eval` recurse down its left side: for `a+a+...+a` the C stack does grow with the length of the text, and
the caller has to bound the text. `WalkBound` says how much: one level for each operator, sign and function with
arguments, whichever part of an expression is walked. The proof has two halves. No node stands in two levels of an
expression, since by `Own` it has one holder: the least level that shared a node with another would have a holder
in common one level up. So every level but the first hangs below an inner node of its own, and the depth is at most
one more than the inner nodes (`DepthInner`). And `Paid` says that inner nodes, with the calls that have read an
operator or minus sign and have not made its node yet (`Owing`), are no more than the tokens that pay for them: a
step that takes on a debt has just read the token (`Reads`, `Latest`), a step that makes a node settles one.

*Grammar.* The reference definition is a table: `Words[n]` has the texts of each nonterminal of up to `n`
tokens, each level made of the ones below. The proof goes from it to the parser in three parts. First,
`Der(w, x, p, q)`, "`w` from `p` up to `q` is a text of `x`", is shown to obey the productions of the
comments, and `Iter` those of the operands still to come in a chain; what is needed of all lengths is had
from the least length that would violate it, as with walks. Second, a call is described by what it waits
for: `Ahead(w, x, F)` is where the operand, list or argument it waits for may end, if the call itself may end
at `F`; `Left` is what the innermost call has to read next; `Follow` which tokens may come after what it reads, and
these sets are what makes one token of lookahead enough. `Agrees` joins the calls of the stack: the text
is a sentence just when what is left can be read. There are four moves, `Down` (a call starts), `Over`
(the innermost goes on), `Up` (it returns) and `Stuck` (it can get nowhere), and each branch of each
function of the parser is shown to be one of them. Third, `Parses` says, while memory lasts, that *every*
text which goes on as the tokens read so far agrees (`Open`), or that an error has been set and none of
them is a sentence (`Refused`). It speaks of all continuations because the text is chosen while it is read, and
because giving up is right only when no continuation is a sentence. The invariant is
`Parses` with `Told`, `Latest`, `Calling`, `Narrow` (no node has more than two parameters), `Fed` (the text read
keeps to the bounds) and, from above, `HeapInv`: the function whose arguments are read is known only from
its node in the heap. `TokenAssumption` is all that is assumed.

*Search.* `Narrowed` says that entries before `imin` are less than the name, those after `imax`
greater; it needs the table in order (`SearchAssumption`, which TLC evaluates on the real table
of 24 names in `te_call`).

*Tasks.* `TurnsAreSafe` needs to know where the one command is while its task goes through the
stores: `InTurn` says, for each place the task may be at, what the indices, doorbells, entries, phases
and the page are, and that every other task is idle; `Phases` says which completion entries carry the
controller's phase. `IInv` is `TypeOK /\ Phases /\ (Turns => InTurn)`, where `Turns` is the absence of
overlap and timeout. TLC checked it as an invariant first. Assumptions: `TaskAssumption`,
`WrapAssumption`.

*Arithmetic.* In `fac`'s loop `result` is `Fact[i - 1]`, and the test against ULONG_MAX keeps the next
product from wrapping. In `ncr`'s loop `result` is the coefficient of `un - ur + i - 1` over `i - 1`, so that the
product is `i` times the next coefficient and the division leaves no remainder. What is returned is that result, rounded: `RoundNear` bounds one rounding by
half the distance of neighbouring doubles, hence by `1 / MaxExact` of the value, `RoundProduct` the three of `npr`
together. `RoundAssumption` says that the distances are powers of two and that doubles reach beyond every
product. Factorials and
coefficients are constants with their recurrences as assumptions (`FactAssumption`,
`BinomAssumption`); TLC evaluates these on the tables of `MCTeCall`. `DivisorsNonzero` includes NaN where
unsigned long is wider: the conversion may then give an r greater than n, the difference wraps, and
`WideLoop` says why the loop stops before a factor wraps to zero: the result is at least `i`, and the
overflow test fails first. `WidthAssumption` therefore says that unsigned long is as wide as unsigned int or has
more bits. `InfinityNeeded` reads the tests the other way round: a test that fails shows that
the product is beyond ULONG_MAX, and `KeptBeyond` keeps this for the factor that `npr` multiplies. `TeNumProofs` shows this of
calls one after another (`Calls`); `TeCallProofs` shows that `TeCall` makes such calls (`CallsAre`), so that the
theorems are about the specification that `te_call` checks.

*Sampler.* The invariant keeps `real` apart from the counter: while the loop goes on `real` is less
than the window, so `elapsed` is `real`, and `next` is `Len(samples)` periods after `base`, wrapped.
`TickAssumption` (the window and a period fit half the counter) makes `Due` the comparison of the
values that were not wrapped.

Only model-checked: liveness (`WaitEnds`, `LoopEnds`, `BootEnds`, `CallsEnd`, `Ends`, `Answers`,
fairness of `SyncSpec`), which the prover does not do. Every other property of the passing
runs has a theorem.

## 5. Plan

Done in this order: queue and its abstract interface; transfer descriptions; block device; bring-up;
parser; name lookup; two tasks in the driver; registration over bring-up; `fac`, `ncr` and `npr`; the
memory monitor. Left:

* tinyexpr: `optimize` preserves the value of an expression (`TeEval`), characters to tokens
  (`TeSyntax`).
