------------------------------ MODULE NvmeCtrl ------------------------------
(***************************************************************************)
(* Bring-up of an NVMe controller (hello/nvme-bsp.h): nvme_scan,           *)
(* nvme_controller_setup, nvme_controller_enable, nvme_create_io_queues    *)
(* and nvme_probe_ns, with every allocation that may fail, every wait that *)
(* may time out, and the error paths that release what was acquired.       *)
(*                                                                         *)
(* Admin commands go through the synchronous interface NvmeSync, which the *)
(* admin queue implements (NvmeQueue).                                     *)
(***************************************************************************)
EXTENDS Integers

CONSTANTS
  MaxNs,     \* bound: namespaces a controller reports
  MaxTo,     \* polls of nvme_wait_csts_rdy: 500 * CAP.TO
  Statuses,  \* status fields the controller may post
  MaxCalls   \* bound: admin commands

ASSUME CtrlAssumption == /\ MaxNs \in Nat /\ MaxTo \in Nat
                         /\ Statuses \subseteq Nat
                         /\ MaxCalls \in Nat /\ MaxCalls >= MaxNs + 3

VARIABLES
  pc,        \* the step of the bring-up
  heap,      \* state of each buffer or structure the driver allocates
  nsHeap,    \* the same for the structure of each namespace
  bad,       \* something was freed that was not live
  en,        \* CC.EN
  csts,      \* CSTS.RDY and CSTS.CFS
  polls,     \* polls left of nvme_wait_csts_rdy
  nsCount,   \* ctrl->ns_count
  idx,       \* ns_idx
  ns,        \* the global ns: 0 for NULL, else the namespace it was allocated for
  names,     \* the memory the command in the controller's hands names
  answer,    \* the status each command that creates an I/O queue was answered with
  stray,     \* the controller wrote to memory that had been freed
  calls, cur, open, outcome, lost, ret   \* the admin queue: NvmeSync

admin  == <<calls, cur, open, outcome, lost, ret>>
regs   == <<en, csts, polls>>
memory == <<heap, bad>>
spaces == <<nsHeap, nsCount, idx, ns>>
device == <<names, answer, stray>>
vars == <<pc, memory, regs, spaces, device, admin>>

Admin == INSTANCE NvmeSync

Namespaces == 1..MaxNs
Queues == {"iocq", "iosq"}
Object == {"ctrl", "acq", "asq", "ident", "iocq", "iosq", "dma"}

Steps == {"scan", "setup", "off", "acq", "asq", "on", "ident", "iocq", "iosq",
          "probe", "ready", "failed", "exited"}

TypeOK ==
  /\ pc \in Steps
  /\ heap \in [Object -> {"none", "live", "freed"}]
  /\ nsHeap \in [Namespaces -> {"none", "live", "freed"}]
  /\ names \in {"none", "ident", "iocq", "iosq"}
  /\ answer \in [Queues -> Statuses \cup {-1}]
  /\ bad \in BOOLEAN /\ en \in BOOLEAN /\ stray \in BOOLEAN
  /\ csts \in [rdy : 0..1, fatal : BOOLEAN]
  /\ polls \in 0..MaxTo
  /\ nsCount \in 0..MaxNs /\ idx \in 0..MaxNs /\ ns \in 0..MaxNs
  /\ calls \in 0..MaxCalls /\ cur \in 0..MaxCalls
  /\ open \in BOOLEAN /\ lost \in BOOLEAN
  /\ outcome \in Statuses \cup {-1}

\* The firmware may have left the controller enabled.
Init ==
  /\ pc = "scan"
  /\ heap = [o \in Object |-> "none"]
  /\ nsHeap = [n \in Namespaces |-> "none"]
  /\ names = "none" /\ answer = [q \in Queues |-> -1]
  /\ bad = FALSE /\ stray = FALSE
  /\ en \in BOOLEAN
  /\ csts = [rdy |-> IF en THEN 1 ELSE 0, fatal |-> FALSE]
  /\ polls = 0
  /\ nsCount = 0 /\ idx = 0 /\ ns = 0
  /\ Admin!Init

(***************************************************************************)
(* The heap                                                                *)
(***************************************************************************)
Live(h, o) == [h EXCEPT ![o] = "live"]

\* free() of each object of the set, from the heap h.
Free(h, objects) ==
  /\ heap' = [o \in Object |-> IF o \in objects THEN "freed" ELSE h[o]]
  /\ bad' = (bad \/ \E o \in objects : h[o] # "live")

\* Mutant: a queue released by the command's own error path is released again.
CleanupTwice ==
  CASE pc \in {"off", "acq"}          -> {"ctrl"}
    [] pc = "asq"                     -> {"acq", "ctrl"}
    [] pc \in {"on", "ident", "iocq"} -> {"asq", "acq", "ctrl"}
    [] pc = "iosq"                    -> {"iosq", "iocq", "asq", "acq", "ctrl"}
    [] OTHER                          -> {}

\* What the error labels release, from the step where the failure is noticed:
\* err_free_cq, err_destroy_admin_sq, err_destroy_admin_cq, err_free_ctrl.
Cleanup ==
  CASE pc \in {"off", "acq"}          -> {"ctrl"}
    [] pc = "asq"                     -> {"acq", "ctrl"}
    [] pc \in {"on", "ident", "iocq"} -> {"asq", "acq", "ctrl"}
    [] pc = "iosq"                    -> {"iocq", "asq", "acq", "ctrl"}
    [] OTHER                          -> {}

(***************************************************************************)
(* nvme_scan, nvme_controller_setup                                        *)
(***************************************************************************)
Scan ==
  /\ pc = "scan"
  /\ pc' \in {"setup", "exited"}     \* no such PCI device: exit(0)
  /\ UNCHANGED <<memory, regs, spaces, device, admin>>

\* No register file, no NVMe command set, or no memory for ctrl.
SetupFails ==
  /\ pc = "setup"
  /\ pc' = "failed"
  /\ UNCHANGED <<memory, regs, spaces, device, admin>>

\* ctrl is allocated and nvme_controller_enable turns the controller off.
Setup ==
  /\ pc = "setup"
  /\ heap' = Live(heap, "ctrl")
  /\ en' = FALSE
  /\ polls' = MaxTo
  /\ pc' = "off"
  /\ UNCHANGED <<bad, csts, spaces, device, admin>>

(***************************************************************************)
(* nvme_wait_csts_rdy, waiting for RDY = 0 at "off" and RDY = 1 at "on"    *)
(***************************************************************************)
Awaited == IF pc = "off" THEN 0 ELSE 1

ReadyPolled ==
  /\ pc \in {"off", "on"}
  /\ polls > 0
  /\ csts.rdy = Awaited
  /\ pc' = IF pc = "off" THEN "acq" ELSE "ident"
  /\ UNCHANGED <<memory, regs, spaces, device, admin>>

\* Mutant: the loop does not count down.
PolledForever ==
  /\ pc \in {"off", "on"}
  /\ polls > 0
  /\ csts.rdy # Awaited /\ ~csts.fatal
  /\ UNCHANGED vars

NotReadyPolled ==
  /\ pc \in {"off", "on"}
  /\ polls > 0
  /\ csts.rdy # Awaited /\ ~csts.fatal
  /\ polls' = polls - 1
  /\ UNCHANGED <<pc, memory, en, csts, spaces, device, admin>>

\* CSTS.CFS is set, or the time is up.
ReadyFails ==
  /\ pc \in {"off", "on"}
  /\ polls = 0 \/ (csts.rdy # Awaited /\ csts.fatal)
  /\ Free(heap, Cleanup)
  /\ pc' = "failed"
  /\ UNCHANGED <<regs, spaces, device, admin>>

(***************************************************************************)
(* The admin rings and CC.EN                                               *)
(***************************************************************************)
InitAdminCq ==
  /\ pc = "acq"
  /\ heap' = Live(heap, "acq")
  /\ pc' = "asq"
  /\ UNCHANGED <<bad, regs, spaces, device, admin>>

InitAdminSq ==
  /\ pc = "asq"
  /\ heap' = Live(heap, "asq")
  /\ en' = TRUE
  /\ polls' = MaxTo
  /\ pc' = "on"
  /\ UNCHANGED <<bad, csts, spaces, device, admin>>

InitAdminFails ==
  /\ pc \in {"acq", "asq"}
  /\ Free(heap, Cleanup)
  /\ pc' = "failed"
  /\ UNCHANGED <<regs, spaces, device, admin>>

(***************************************************************************)
(* Admin commands: each first allocates the memory it names, and releases  *)
(* it when the command cannot be issued, fails or times out.               *)
(***************************************************************************)
Commanding == pc \in {"ident", "iocq", "iosq"} \/ (pc = "probe" /\ idx < nsCount)

Memory == IF pc = "probe" THEN "ident" ELSE pc

\* What follows a failed command: nvme_probe_ns goes on to the next namespace,
\* everything else gives up the bring-up.
AfterFailure ==
  IF pc = "probe" THEN pc' = "probe" /\ idx' = idx + 1
  ELSE pc' = "failed" /\ UNCHANGED idx

NoMemory ==
  /\ Commanding /\ ~open
  /\ Free(heap, Cleanup)
  /\ AfterFailure
  /\ UNCHANGED <<regs, nsHeap, nsCount, ns, device, admin>>

Issue ==
  /\ Commanding
  /\ Admin!Begin
  /\ heap' = Live(heap, Memory)
  /\ names' = Memory
  /\ UNCHANGED <<pc, bad, regs, spaces, answer, stray>>

\* nvme_get_next_sqe returned NULL.
Refused ==
  /\ Commanding
  /\ Admin!Refuse
  /\ Free(Live(heap, Memory), {Memory} \cup Cleanup)
  /\ AfterFailure
  /\ UNCHANGED <<regs, nsHeap, nsCount, ns, device>>

\* Mutant: every answer counts as success.
AnsweredAtAll == outcome >= 0

\* nvme_is_cqe_success looks at the eight bits of the status code only.
Succeeded == outcome >= 0 /\ outcome % 256 = 0

CommandFails ==
  /\ Commanding
  /\ (Admin!Finish /\ ~Succeeded) \/ Admin!GiveUp
  /\ Free(heap, {Memory} \cup Cleanup)
  /\ AfterFailure
  /\ UNCHANGED <<regs, nsHeap, nsCount, ns, device>>

\* Mutant: success falls through to the error labels.
IdentifiedFallsThrough ==
  /\ pc = "ident"
  /\ Admin!Finish /\ Succeeded
  /\ nsCount' \in 0..MaxNs
  /\ Free(heap, {"ident"} \cup Cleanup)
  /\ pc' = IF nsCount' = 0 THEN "failed" ELSE "iocq"
  /\ UNCHANGED <<regs, nsHeap, idx, ns, device>>

\* Identify controller: take nn, release the buffer; no namespaces is a failure.
Identified ==
  /\ pc = "ident"
  /\ Admin!Finish /\ Succeeded
  /\ nsCount' \in 0..MaxNs
  /\ Free(heap, {"ident"} \cup (IF nsCount' = 0 THEN Cleanup ELSE {}))
  /\ pc' = IF nsCount' = 0 THEN "failed" ELSE "iocq"
  /\ UNCHANGED <<regs, nsHeap, idx, ns, device>>

\* Create I/O completion queue, then submission queue.
QueueCreated ==
  /\ pc \in {"iocq", "iosq"}
  /\ Admin!Finish /\ Succeeded
  /\ pc' = IF pc = "iocq" THEN "iosq" ELSE "probe"
  /\ UNCHANGED <<memory, regs, spaces, device>>

(***************************************************************************)
(* nvme_probe_ns once the namespace was identified                         *)
(***************************************************************************)
ProbeEnds == /\ pc = "probe" /\ idx < nsCount
             /\ Admin!Finish /\ Succeeded
             /\ idx' = idx + 1
             /\ UNCHANGED <<pc, regs, nsCount, device>>

\* A bad LBA format, an inactive namespace, or no memory for nvme_dma_buffer.
ProbeSkips == /\ ProbeEnds
              /\ Free(heap, {"ident"})
              /\ UNCHANGED <<nsHeap, ns>>

\* ns = malloc(...) returns NULL: the global no longer names an earlier namespace.
ProbeNoNs == /\ ProbeEnds
             /\ Free(Live(heap, "dma"), {"ident"})
             /\ ns' = 0
             /\ UNCHANGED nsHeap

\* A block does not fit nvme_dma_buffer: the structure is freed, ns still names it.
ProbeTooLarge == /\ ProbeEnds
                 /\ Free(Live(heap, "dma"), {"ident"})
                 /\ ns' = idx + 1
                 /\ nsHeap' = [nsHeap EXCEPT ![idx + 1] = "freed"]

\* Mutant: nvme_dma_buffer is not allocated.
ProbeFoundNoDma == /\ ProbeEnds
                   /\ Free(heap, {"ident"})
                   /\ ns' = idx + 1
                   /\ nsHeap' = [nsHeap EXCEPT ![idx + 1] = "live"]

\* Mutant: the namespace is left in a local variable.
ProbeFoundShadowed == /\ ProbeEnds
                      /\ Free(Live(heap, "dma"), {"ident"})
                      /\ nsHeap' = [nsHeap EXCEPT ![idx + 1] = "live"]
                      /\ UNCHANGED ns

ProbeFound == /\ ProbeEnds
              /\ Free(Live(heap, "dma"), {"ident"})
              /\ ns' = idx + 1
              /\ nsHeap' = [nsHeap EXCEPT ![idx + 1] = "live"]

Complete ==
  /\ pc = "probe" /\ idx = nsCount
  /\ pc' = "ready"
  /\ UNCHANGED <<memory, regs, spaces, device, admin>>

(***************************************************************************)
(* The controller                                                          *)
(***************************************************************************)

\* RDY follows EN, in its own time; a fatal status may appear at any moment.
DeviceReady ==
  /\ csts.rdy # (IF en THEN 1 ELSE 0)
  /\ csts' = [csts EXCEPT !.rdy = IF en THEN 1 ELSE 0]
  /\ UNCHANGED <<pc, memory, en, polls, spaces, device, admin>>

DeviceFatal ==
  /\ ~csts.fatal
  /\ csts' = [csts EXCEPT !.fatal = TRUE]
  /\ UNCHANGED <<pc, memory, en, polls, spaces, device, admin>>

\* It runs the command it was given: an identify command writes the identify
\* buffer, a create command makes the queue if its status is zero, and every command
\* is answered in the admin completion queue.
DeviceRun ==
  /\ Admin!Run
  /\ stray' = \/ stray \/ heap["acq"] # "live"
              \/ names = "ident" /\ heap["ident"] # "live"
  /\ answer' = IF names \in Queues THEN [answer EXCEPT ![names] = outcome'] ELSE answer
  /\ UNCHANGED <<pc, memory, regs, spaces, names>>

Driver == \/ Scan \/ SetupFails \/ Setup
          \/ ReadyPolled \/ NotReadyPolled \/ ReadyFails
          \/ InitAdminCq \/ InitAdminSq \/ InitAdminFails
          \/ NoMemory \/ Issue \/ Refused \/ CommandFails
          \/ Identified \/ QueueCreated
          \/ ProbeSkips \/ ProbeNoNs \/ ProbeTooLarge \/ ProbeFound \/ Complete

Device == DeviceReady \/ DeviceFatal \/ DeviceRun

Next == Driver \/ Device

\* The initialising task runs; the controller need not do anything.
Spec == Init /\ [][Next]_vars /\ WF_vars(Driver)

(***************************************************************************)
(* Properties                                                              *)
(***************************************************************************)

\* No error path frees what is not allocated or frees it twice, and a failed
\* bring-up leaves nothing allocated: every label of the error paths releases
\* exactly what was acquired before the jump.
FreedOnce == /\ ~bad
             /\ pc = "failed" => /\ \A o \in Object : heap[o] # "live"
                                /\ \A n \in Namespaces : nsHeap[n] # "live"

\* The controller writes to freed memory only after a command was given up: the
\* driver frees the identify buffer and the admin rings of a command that timed
\* out, and leaves CC.EN set.
DmaIntoLive == stray => lost

\* A namespace that can be used rests on live queues: ns never outlives the
\* controller structure, the rings and the bounce buffer its transfers use.
NsSound ==
  ns # 0 /\ nsHeap[ns] = "live"
    => /\ pc \in {"probe", "ready"}
       /\ \A o \in {"ctrl", "acq", "asq", "iocq", "iosq", "dma"} : heap[o] = "live"

\* Bring-up goes on only with I/O queues whose creation the controller answered, and
\* with a status code of zero: never after a command that was refused or given up,
\* and never with the late answer to another one.
QueuesAnswered ==
  pc \in {"probe", "ready"} => \A q \in Queues : answer[q] >= 0 /\ answer[q] % 256 = 0

\* nvme_create_io_cq and nvme_create_io_sq "return 0 on success": bring-up goes on
\* only with I/O queues that the controller has created, its status zero in the status
\* code type as well.
QueuesMade == pc \in {"probe", "ready"} => \A q \in Queues : answer[q] = 0

=============================================================================
