------------------------------ MODULE NvmeBoot ------------------------------
(***************************************************************************)
(* nvmedisk_initialize (hello/nvmedisk.h) over the bring-up of NvmeCtrl,   *)
(* and the first requests on the disks it registered.  The disks are       *)
(* registered before nvme_scan looks for a controller, nobody asks what    *)
(* nvme_scan achieved, and every request of every disk goes to the global  *)
(* ns, whatever that is by then.                                           *)
(***************************************************************************)
EXTENDS NvmeCtrl

CONSTANTS MaxDisks   \* rtems_nvmedisk_configuration_size

ASSUME DiskAssumption == MaxDisks \in Nat \ {0}

VARIABLES
  step,    \* where nvmedisk_initialize is
  disks,   \* disks registered so far
  table,   \* whether calloc delivered the table of disks
  rc,      \* what nvmedisk_initialize returned
  fault,   \* something failed, or some namespace could not be used
  served   \* what the last request found ns to be

boot == <<step, disks, table, rc, fault, served>>
bootVars == <<vars, boot>>

BootTypeOK ==
  /\ step \in {"io", "calloc", "create", "scan", "returned", "crashed"}
  /\ disks \in 0..MaxDisks
  /\ table \in BOOLEAN /\ fault \in BOOLEAN
  /\ rc \in {"none", "ok", "error"}
  /\ served \in {"none", "live", "null", "freed"}

BootInit ==
  /\ Init
  /\ step = "io" /\ disks = 0 /\ table = FALSE
  /\ rc = "none" /\ fault = FALSE /\ served = "none"

(***************************************************************************)
(* nvmedisk_initialize                                                     *)
(***************************************************************************)
InitializeIo ==
  /\ step = "io"
  /\ step' = "calloc"
  /\ UNCHANGED <<vars, disks, table, rc, fault, served>>

\* "return rc": from rtems_disk_io_initialize, or from rtems_disk_create_phys for
\* one of the disks, the ones before it staying registered.
GiveUpBoot ==
  /\ step \in {"io", "create"}
  /\ disks < MaxDisks
  /\ step' = "returned" /\ rc' = "error" /\ fault' = TRUE
  /\ UNCHANGED <<vars, disks, table, served>>

\* The result of calloc is not tested.
Calloc ==
  /\ step = "calloc"
  /\ table' \in BOOLEAN
  /\ fault' = ~table'
  /\ step' = "create"
  /\ UNCHANGED <<vars, disks, rc, served>>

\* One turn of the loop.  Without a table its stores go through NULL: they trap,
\* or hit memory nobody reads.
CreateDisk ==
  /\ step = "create"
  /\ disks < MaxDisks
  /\ \/ disks' = disks + 1 /\ UNCHANGED step
     \/ ~table /\ step' = "crashed" /\ UNCHANGED disks
  /\ UNCHANGED <<vars, table, rc, fault, served>>

StartScan ==
  /\ step = "create"
  /\ disks = MaxDisks
  /\ step' = "scan"
  /\ UNCHANGED <<vars, disks, table, rc, fault, served>>

\* nvme_scan: the steps of the bring-up, told apart by whether they are a failure.
ScanGoesOn ==
  /\ step = "scan"
  /\ \/ Scan \/ Setup \/ ReadyPolled \/ NotReadyPolled \/ InitAdminCq \/ InitAdminSq
     \/ Issue \/ QueueCreated \/ ProbeFound \/ Complete
     \/ Identified /\ nsCount' > 0
  /\ UNCHANGED boot

ScanMeetsFault ==
  /\ step = "scan"
  /\ \/ SetupFails \/ ReadyFails \/ InitAdminFails \/ NoMemory \/ Refused
     \/ CommandFails \/ ProbeSkips \/ ProbeNoNs \/ ProbeTooLarge
     \/ Identified /\ nsCount' = 0
  /\ fault' = TRUE
  /\ UNCHANGED <<step, disks, table, rc, served>>

\* "return RTEMS_SUCCESSFUL", also when the bring-up failed.
ReturnOk ==
  /\ step = "scan"
  /\ pc \in {"ready", "failed"}
  /\ step' = "returned" /\ rc' = "ok"
  /\ UNCHANGED <<vars, disks, table, fault, served>>

(***************************************************************************)
(* A request on a registered disk: nvmedisk_read and nvmedisk_write start  *)
(* with ns->block_size.                                                    *)
(***************************************************************************)
Request ==
  /\ step = "returned"
  /\ disks > 0
  /\ served' = IF ns = 0 THEN "null" ELSE nsHeap[ns]
  /\ UNCHANGED <<vars, step, disks, table, rc, fault>>

Initialize == \/ InitializeIo \/ GiveUpBoot \/ Calloc \/ CreateDisk \/ StartScan
              \/ ScanGoesOn \/ ScanMeetsFault \/ ReturnOk

BootNext == Initialize \/ Request \/ (Device /\ UNCHANGED boot)

BootSpec == BootInit /\ [][BootNext]_bootVars /\ WF_bootVars(Initialize)

(***************************************************************************)
(* Properties                                                              *)
(***************************************************************************)

\* When nothing failed, every request on every disk reaches a live namespace, in
\* spite of disks that are registered before anything is known about the device,
\* and of one ns for all disks that each namespace probed overwrites.
RequestsReachNs == served \in {"null", "freed"} => fault

\* nvmedisk_initialize comes to an end, whatever the controller does or does not
\* do: it returns, or the program exits or traps.
BootEnds == <>(step \in {"returned", "crashed"} \/ pc = "exited")

=============================================================================
