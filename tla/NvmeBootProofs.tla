--------------------------- MODULE NvmeBootProofs ---------------------------
(***************************************************************************)
(* Bring-up owns its memory for every number of namespaces, disks, polls   *)
(* and commands, and every set of status values: each error path frees     *)
(* exactly what was acquired, the controller writes to live memory until a *)
(* command is given up, and requests reach a namespace unless something    *)
(* failed.                                                                 *)
(***************************************************************************)
EXTENDS NvmeBoot, TLAPS

Ended   == {"scan", "setup", "failed", "exited"}
Enabled == {"on", "ident", "iocq", "iosq", "probe", "ready"}
Using   == {"probe", "ready"}

\* What is allocated at each step of the bring-up.
Owns ==
  /\ heap["ctrl"] = "live" <=> pc \notin Ended
  /\ heap["acq"] = "live" <=> pc \in Enabled \cup {"asq"}
  /\ heap["asq"] = "live" <=> pc \in Enabled
  /\ heap["ident"] = "live" <=> open /\ pc \in {"ident", "probe"}
  /\ heap["iocq"] = "live" <=> pc \in Using \cup {"iosq"} \/ (open /\ pc = "iocq")
  /\ heap["iosq"] = "live" <=> pc \in Using \/ (open /\ pc = "iosq")
  /\ heap["dma"] = "live" => pc \in Using

\* A command is under way only where one is waited for, and names what the step
\* allocated; one that was given up names something too.
Waits == /\ open => /\ pc \in {"ident", "iocq", "iosq", "probe"}
                    /\ pc = "probe" => idx < nsCount
                    /\ names = Memory
         /\ lost => names # "none"

\* Namespaces are probed in order, after their number was learnt.
Probes == /\ pc \notin Using => idx = 0
          /\ pc \in Using \cup {"iocq", "iosq"} => nsCount > 0
          /\ pc = "ready" => idx = nsCount
          /\ \A n \in Namespaces : nsHeap[n] = "live" => heap["dma"] = "live"

CtrlInv == TypeOK /\ Owns /\ Waits /\ Probes /\ ~bad /\ DmaIntoLive

\* While nothing fails, ns is the namespace probed last, and live.
Reached == ~fault => /\ pc # "failed"
                     /\ step = "returned" => pc = "ready"
                     /\ pc \in Using /\ idx > 0 => ns = idx /\ nsHeap[idx] = "live"

IInv == /\ CtrlInv
        /\ BootTypeOK /\ Reached /\ RequestsReachNs
        /\ served # "none" => step = "returned"
        /\ step \in {"io", "calloc", "create"} => pc = "scan"

\* free() keeps the types.
LEMMA FreeType ==
  ASSUME TypeOK, NEW h \in [Object -> {"none", "live", "freed"}], NEW S \in SUBSET Object,
         Free(h, S)
  PROVE  heap' \in [Object -> {"none", "live", "freed"}] /\ bad' \in BOOLEAN
  BY DEF Free, TypeOK

\* What free() leaves of one object, and when it is legal.
LEMMA FreeEffect ==
  ASSUME NEW h \in [Object -> {"none", "live", "freed"}], NEW S \in SUBSET Object,
         Free(h, S), ~bad, \A o \in S : h[o] = "live"
  PROVE  ~bad' /\ \A o \in Object : heap'[o] = IF o \in S THEN "freed" ELSE h[o]
  BY DEF Free

\* Steps that neither allocate nor free.
LEMMA PlainSteps ==
  ASSUME CtrlInv,
         Scan \/ SetupFails \/ ReadyPolled \/ NotReadyPolled \/ QueueCreated \/ Complete
  PROVE  CtrlInv'
<1> USE CtrlAssumption DEF memory, regs, spaces, device, admin, vars
<1>1. CASE Scan
  BY <1>1
    DEF Scan, CtrlInv, TypeOK, Owns, Waits, Probes, DmaIntoLive, Ended, Enabled, Using,
        Steps, Memory
<1>2. CASE SetupFails
  BY <1>2
    DEF SetupFails, CtrlInv, TypeOK, Owns, Waits, Probes, DmaIntoLive, Ended, Enabled,
        Using, Steps, Memory
<1>3. CASE ReadyPolled
  BY <1>3
    DEF ReadyPolled, CtrlInv, TypeOK, Owns, Waits, Probes, DmaIntoLive, Ended, Enabled,
        Using, Steps, Memory
<1>4. CASE NotReadyPolled
  BY <1>4
    DEF NotReadyPolled, CtrlInv, TypeOK, Owns, Waits, Probes, DmaIntoLive, Ended,
        Enabled, Using, Steps, Memory
<1>5. CASE QueueCreated
  BY <1>5
    DEF QueueCreated, Admin!Finish, CtrlInv, TypeOK, Owns, Waits, Probes, DmaIntoLive,
        Ended, Enabled, Using, Steps, Memory
<1>6. CASE Complete
  BY <1>6
    DEF Complete, CtrlInv, TypeOK, Owns, Waits, Probes, DmaIntoLive, Ended, Enabled,
        Using, Steps, Memory
<1> QED BY <1>1, <1>2, <1>3, <1>4, <1>5, <1>6

\* Steps that allocate.
LEMMA AllocSteps ==
  ASSUME CtrlInv, Setup \/ InitAdminCq \/ InitAdminSq \/ Issue
  PROVE  CtrlInv'
<1> USE CtrlAssumption DEF memory, regs, spaces, device, admin, vars
<1>1. CASE Setup
  <2>5. en' \in BOOLEAN
    BY <1>1, Zenon DEF Setup
  <2>4. /\ heap' = Live(heap, "ctrl") /\ polls' = MaxTo /\ pc' = "off"
        /\ UNCHANGED <<bad, csts, nsHeap, nsCount, idx, ns, names, answer, stray, calls, cur,
                       open, outcome, lost, ret>>
    BY <1>1 DEF Setup
  <2>1. TypeOK'
    <3>1. heap' \in [Object -> {"none", "live", "freed"}]
      BY <2>4 DEF Live, CtrlInv, TypeOK
    <3> QED BY <2>5, <2>4, <3>1 DEF CtrlInv, TypeOK, Steps
  <2>2. Owns'
    BY <1>1 DEF Setup, Live, CtrlInv, TypeOK, Owns, Waits, Ended, Enabled, Using, Object
  <2>3. Waits' /\ Probes' /\ DmaIntoLive' /\ ~bad'
    BY <1>1 DEF Setup, Live, CtrlInv, TypeOK, Waits, Probes, DmaIntoLive, Using, Object
  <2> QED BY <2>1, <2>2, <2>3 DEF CtrlInv
<1>2. CASE InitAdminCq
  BY <1>2
    DEF InitAdminCq, Live, CtrlInv, TypeOK, Owns, Waits, Probes, DmaIntoLive, Ended,
        Enabled, Using, Steps, Memory, Object
<1>3. CASE InitAdminSq
  BY <1>3
    DEF InitAdminSq, Live, CtrlInv, TypeOK, Owns, Waits, Probes, DmaIntoLive, Ended,
        Enabled, Using, Steps, Memory, Object
<1>4. CASE Issue
  BY <1>4
    DEF Issue, Commanding, Admin!Begin, Admin!NotRun, Live, CtrlInv, TypeOK, Owns,
        Waits, Probes, DmaIntoLive, Ended, Enabled, Using, Steps, Memory, Object
<1> QED BY <1>1, <1>2, <1>3, <1>4

\* The controller.
LEMMA DeviceSteps ==
  ASSUME CtrlInv, Device
  PROVE  CtrlInv'
<1> USE CtrlAssumption DEF memory, regs, spaces, device, admin, vars
<1>1. CASE DeviceReady \/ DeviceFatal
  <2>1. csts' \in [rdy : 0..1, fatal : BOOLEAN]
    <3>1. csts \in [rdy : 0..1, fatal : BOOLEAN]
      BY DEF CtrlInv, TypeOK
    <3>2. CASE DeviceReady
      BY <3>1, <3>2 DEF DeviceReady
    <3>3. CASE DeviceFatal
      BY <3>1, <3>3, Zenon DEF DeviceFatal
    <3> QED BY <1>1, <3>2, <3>3
  <2>2. UNCHANGED <<pc, heap, nsHeap, bad, en, polls, nsCount, idx, ns, names, answer,
                    stray, calls, cur, open, outcome, lost, ret>>
    BY <1>1 DEF DeviceReady, DeviceFatal
  <2> QED
    BY <2>1, <2>2 DEF CtrlInv, TypeOK, Owns, Waits, Probes, DmaIntoLive, Memory
<1>2. CASE DeviceRun
  <2>1. TypeOK'
    BY <1>2 DEF DeviceRun, Admin!Run, CtrlInv, TypeOK, Waits, Memory
  <2>2. DmaIntoLive'
    BY <1>2
      DEF DeviceRun, Admin!Run, CtrlInv, TypeOK, Owns, Waits, DmaIntoLive, Memory,
          Enabled
  <2> QED
    BY <1>2, <2>1, <2>2 DEF DeviceRun, Admin!Run, CtrlInv, Owns, Waits, Probes, Memory
<1> QED BY <1>1, <1>2 DEF Device

\* What the error paths release is what is allocated, apart from the memory of the
\* command itself.
LEMMA CleanupLive ==
  ASSUME CtrlInv
  PROVE  /\ Cleanup \in SUBSET Object
         /\ \A o \in Cleanup : heap[o] = "live" /\ o # Memory
         /\ pc \in {"off", "acq", "asq", "on"} =>
              \A o \in Object : heap[o] = "live" => o \in Cleanup
         /\ pc \in {"ident", "iocq", "iosq"} =>
              \A o \in Object : heap[o] = "live" => o \in Cleanup \cup {Memory}
  BY DEF CtrlInv, TypeOK, Owns, Cleanup, Object, Memory, Ended, Enabled, Using, Steps

\* A failure before any command, or of a command without memory.
LEMMA EarlyFailures ==
  ASSUME CtrlInv, ReadyFails \/ InitAdminFails \/ NoMemory
  PROVE  CtrlInv'
<1> USE CtrlAssumption DEF memory, regs, spaces, device, admin, vars
<1>1. Free(heap, Cleanup) /\ heap \in [Object -> {"none", "live", "freed"}] /\ ~bad
  BY DEF ReadyFails, InitAdminFails, NoMemory, CtrlInv, TypeOK
<1>2. /\ ~bad' /\ bad' \in BOOLEAN /\ heap' \in [Object -> {"none", "live", "freed"}]
      /\ \A o \in Object : heap'[o] = IF o \in Cleanup THEN "freed" ELSE heap[o]
  BY <1>1, CleanupLive, FreeType, FreeEffect DEF CtrlInv
<1>3. CASE pc # "probe"
  <2>1. pc' = "failed" /\ ~open
    BY <1>3 DEF ReadyFails, InitAdminFails, NoMemory, AfterFailure, CtrlInv, Waits
  <2>2. UNCHANGED <<regs, spaces, device, admin>>
    BY <1>3 DEF ReadyFails, InitAdminFails, NoMemory, AfterFailure
  <2>3. pc \in {"off", "acq", "asq", "on", "ident", "iocq", "iosq"}
    BY <1>3 DEF ReadyFails, InitAdminFails, NoMemory, Commanding
  <2>4. \A o \in Object : heap'[o] # "live"
    <3> SUFFICES ASSUME NEW o \in Object, heap[o] = "live"
                 PROVE  o \in Cleanup
      BY <1>2
    <3>1. o = Memory => pc \notin {"ident", "iocq", "iosq"}
      BY <2>1 DEF CtrlInv, Owns, Memory, Using
    <3> QED BY <2>3, <3>1, CleanupLive
  <2>5. TypeOK'
    BY <1>2, <2>1, <2>2 DEF CtrlInv, TypeOK, Steps
  <2>6. Owns'
    BY <2>1, <2>4 DEF Owns, Ended, Enabled, Using, Object
  <2>7. Waits' /\ Probes' /\ DmaIntoLive'
    BY <2>1, <2>2, <2>3, <2>4
      DEF CtrlInv, Owns, Waits, Probes, DmaIntoLive, Using, Object, Memory
  <2> QED BY <1>2, <2>5, <2>6, <2>7 DEF CtrlInv
<1>4. CASE pc = "probe"
  <2>1. /\ pc' = "probe" /\ idx' = idx + 1 /\ idx < nsCount /\ ~open
        /\ UNCHANGED <<regs, nsHeap, nsCount, ns, device, admin>>
    BY <1>4 DEF ReadyFails, InitAdminFails, NoMemory, AfterFailure, Commanding
  <2>2. \A o \in Object : heap'[o] = heap[o]
    BY <1>2, <1>4 DEF Cleanup
  <2>3. TypeOK'
    BY <1>2, <2>1 DEF CtrlInv, TypeOK, Steps
  <2> QED
    BY <1>2, <1>4, <2>1, <2>2, <2>3
    DEF CtrlInv, Owns, Waits, Probes, DmaIntoLive, Ended, Enabled, Using, Object,
        Memory, TypeOK
<1> QED BY <1>3, <1>4

\* A command that is refused, fails or is given up: its memory is released, and
\* what was acquired before it unless a namespace was probed.
LEMMA LateFailures ==
  ASSUME CtrlInv, Refused \/ CommandFails
  PROVE  CtrlInv'
<1> USE CtrlAssumption DEF memory, regs, spaces, device, admin, vars
<1> DEFINE S == {Memory} \cup Cleanup
<1>1. /\ Commanding /\ AfterFailure /\ open' \in BOOLEAN /\ ~open'
      /\ lost' \in BOOLEAN /\ (lost => lost') /\ (lost' => lost \/ open)
      /\ calls' \in 0..MaxCalls
      /\ UNCHANGED <<en, csts, polls, nsHeap, nsCount, ns, names, answer, stray, cur, outcome>>
  <2>1. CASE Refused
    BY <2>1, SMT DEF Refused, Admin!Refuse, CtrlInv, TypeOK
  <2>2. CASE CommandFails /\ Admin!Finish
    <3>1. open' \in BOOLEAN
      BY <2>2, Zenon DEF Admin!Finish
    <3> QED BY <2>2, <3>1, SMT DEF CommandFails, Admin!Finish, CtrlInv, TypeOK
  <2>3. CASE CommandFails /\ Admin!GiveUp
    <3>1. open' \in BOOLEAN /\ lost' \in BOOLEAN
      BY <2>3, Zenon DEF Admin!GiveUp
    <3> QED BY <2>3, <3>1, SMT DEF CommandFails, Admin!GiveUp, CtrlInv, TypeOK
  <2> QED BY <2>1, <2>2, <2>3 DEF CommandFails
<1>2. Memory \in Object /\ pc \in {"ident", "iocq", "iosq", "probe"}
  BY <1>1 DEF Commanding, Memory, Object
<1>3. /\ ~bad' /\ bad' \in BOOLEAN /\ heap' \in [Object -> {"none", "live", "freed"}]
      /\ \A o \in Object : heap'[o] = IF o \in S THEN "freed" ELSE heap[o]
  <2>1. PICK h \in [Object -> {"none", "live", "freed"}] :
          /\ Free(h, S) /\ h[Memory] = "live"
          /\ \A o \in Object : o # Memory => h[o] = heap[o]
    <3>1. heap \in [Object -> {"none", "live", "freed"}]
      BY DEF CtrlInv, TypeOK
    <3>2. CASE Refused
      <4>1. Live(heap, Memory) \in [Object -> {"none", "live", "freed"}]
            /\ Live(heap, Memory)[Memory] = "live"
            /\ \A o \in Object : o # Memory => Live(heap, Memory)[o] = heap[o]
        BY <1>2, <3>1 DEF Live
      <4>2. Free(Live(heap, Memory), S)
        BY <3>2 DEF Refused
      <4> QED BY <4>1, <4>2
    <3>3. CASE CommandFails
      <4>1. Free(heap, S) /\ open
        BY <3>3 DEF CommandFails, Admin!Finish, Admin!GiveUp
      <4>2. heap[Memory] = "live"
        BY <1>2, <4>1 DEF CtrlInv, Owns, Memory
      <4> QED BY <3>1, <4>1, <4>2
    <3> QED BY <3>2, <3>3
  <2>2. S \in SUBSET Object /\ \A o \in S : h[o] = "live"
    BY <1>2, <2>1, CleanupLive
  <2> QED
    BY <2>1, <2>2, FreeType, FreeEffect DEF CtrlInv
<1>4. CASE pc # "probe"
  <2>1. pc' = "failed" /\ idx' = idx
    BY <1>1, <1>4 DEF AfterFailure
  <2>2. \A o \in Object : heap'[o] # "live"
    BY <1>2, <1>3, <1>4, CleanupLive
  <2>3. TypeOK'
    BY <1>1, <1>3, <2>1 DEF CtrlInv, TypeOK, Steps
  <2>4. Owns'
    BY <1>1, <2>1, <2>2 DEF Owns, Ended, Enabled, Using, Object
  <2>5. Waits' /\ Probes' /\ DmaIntoLive'
    BY <1>1, <1>2, <1>4, <2>1, <2>2
    DEF CtrlInv, Owns, Waits, Probes, DmaIntoLive, Using, Object, Memory
  <2> QED BY <1>3, <2>3, <2>4, <2>5 DEF CtrlInv
<1>5. CASE pc = "probe"
  <2>1. pc' = "probe" /\ idx' = idx + 1 /\ idx < nsCount /\ S = {"ident"}
    BY <1>1, <1>5 DEF AfterFailure, Commanding, Memory, Cleanup
  <2>2. TypeOK'
    BY <1>1, <1>3, <2>1 DEF CtrlInv, TypeOK, Steps
  <2>3. Owns'
    BY <1>1, <1>3, <1>5, <2>1 DEF CtrlInv, Owns, Ended, Enabled, Using, Object
  <2>4. Waits' /\ Probes' /\ DmaIntoLive'
    BY <1>1, <1>3, <1>5, <2>1
    DEF CtrlInv, TypeOK, Owns, Waits, Probes, DmaIntoLive, Using, Object, Memory
  <2> QED BY <1>3, <2>2, <2>3, <2>4 DEF CtrlInv
<1> QED BY <1>4, <1>5

\* The controller was identified: the buffer is released, and everything else when
\* there is no namespace.
LEMMA IdentifiedStep ==
  ASSUME CtrlInv, Identified
  PROVE  CtrlInv'
<1> USE CtrlAssumption DEF memory, regs, spaces, device, admin, vars
<1> DEFINE S == {"ident"} \cup (IF nsCount' = 0 THEN Cleanup ELSE {})
<1>1. /\ pc = "ident" /\ open /\ ~open' /\ nsCount' \in 0..MaxNs
      /\ Free(heap, S) /\ pc' = IF nsCount' = 0 THEN "failed" ELSE "iocq"
      /\ UNCHANGED <<en, csts, polls, nsHeap, idx, ns, names, answer, stray, calls, cur,
                     outcome, lost>>
  BY DEF Identified, Admin!Finish
<1>2. open' \in BOOLEAN
  BY Zenon DEF Identified, Admin!Finish
<1>3. S \in SUBSET Object /\ \A o \in S : heap[o] = "live"
  BY <1>1, CleanupLive DEF CtrlInv, Owns, Object
<1>4. /\ ~bad' /\ bad' \in BOOLEAN /\ heap' \in [Object -> {"none", "live", "freed"}]
      /\ \A o \in Object : heap'[o] = IF o \in S THEN "freed" ELSE heap[o]
  <2>1. heap \in [Object -> {"none", "live", "freed"}]
    BY DEF CtrlInv, TypeOK
  <2>2. Free(heap, S) /\ TypeOK /\ ~bad
    BY <1>1 DEF CtrlInv
  <2> HIDE DEF S
  <2> QED BY <1>3, <2>1, <2>2, FreeType, FreeEffect
<1>5. TypeOK'
  BY <1>1, <1>2, <1>4 DEF CtrlInv, TypeOK, Steps
<1>6. Owns'
  <2>1. CASE nsCount' = 0
    <3>1. \A o \in Object : heap'[o] # "live"
      BY <1>1, <1>4, <2>1, CleanupLive DEF Memory
    <3> QED BY <1>1, <2>1, <3>1 DEF Owns, Ended, Enabled, Using, Object
  <2>2. CASE nsCount' # 0
    BY <1>1, <1>4, <2>2 DEF CtrlInv, Owns, Ended, Enabled, Using, Object
  <2> QED BY <2>1, <2>2
<1>7. Waits' /\ DmaIntoLive'
  BY <1>1 DEF CtrlInv, Waits, DmaIntoLive
<1>8. Probes'
  BY <1>1 DEF CtrlInv, TypeOK, Owns, Probes, Using
<1> QED BY <1>4, <1>5, <1>6, <1>7, <1>8 DEF CtrlInv

\* A namespace was identified: the buffer is released, the page may be allocated.
LEMMA ProbeSteps ==
  ASSUME CtrlInv, ProbeSkips \/ ProbeNoNs \/ ProbeTooLarge \/ ProbeFound
  PROVE  CtrlInv'
<1> USE CtrlAssumption DEF memory, regs, spaces, device, admin, vars
<1>1. /\ pc = "probe" /\ idx < nsCount /\ open /\ ~open' /\ idx' = idx + 1
      /\ UNCHANGED <<pc, en, csts, polls, nsCount, names, answer, stray, calls, cur,
                     outcome, lost>>
  BY DEF ProbeSkips, ProbeNoNs, ProbeTooLarge, ProbeFound, ProbeEnds, Admin!Finish
<1>2. open' \in BOOLEAN
  <2>1. Admin!Finish
    BY DEF ProbeSkips, ProbeNoNs, ProbeTooLarge, ProbeFound, ProbeEnds
  <2> QED BY <2>1, Zenon DEF Admin!Finish
<1>3. heap \in [Object -> {"none", "live", "freed"}] /\ idx \in Nat /\ idx + 1 \in Namespaces
      /\ nsHeap \in [Namespaces -> {"none", "live", "freed"}]
  BY <1>1 DEF CtrlInv, TypeOK, Namespaces
<1>4. PICK h \in [Object -> {"none", "live", "freed"}] :
        /\ Free(h, {"ident"})
        /\ \A o \in Object : o # "dma" => h[o] = heap[o]
        /\ h["dma"] = heap["dma"] \/ h["dma"] = "live"
        /\ \A n \in Namespaces : nsHeap'[n] = "live" => nsHeap[n] = "live" \/ h["dma"] = "live"
  <2>1. CASE ProbeSkips
    BY <1>3, <2>1 DEF ProbeSkips
  <2>2. CASE ProbeNoNs \/ ProbeTooLarge \/ ProbeFound
    <3>1. Live(heap, "dma") \in [Object -> {"none", "live", "freed"}]
          /\ Live(heap, "dma")["dma"] = "live"
          /\ \A o \in Object : o # "dma" => Live(heap, "dma")[o] = heap[o]
      BY <1>3 DEF Live, Object
    <3>2. Free(Live(heap, "dma"), {"ident"})
      BY <2>2 DEF ProbeNoNs, ProbeTooLarge, ProbeFound
    <3> QED BY <3>1, <3>2
  <2> QED BY <2>1, <2>2
<1>5. {"ident"} \in SUBSET Object /\ \A o \in {"ident"} : h[o] = "live"
  BY <1>1, <1>4 DEF CtrlInv, Owns, Object
<1>6. /\ ~bad' /\ bad' \in BOOLEAN /\ heap' \in [Object -> {"none", "live", "freed"}]
      /\ \A o \in Object : heap'[o] = IF o \in {"ident"} THEN "freed" ELSE h[o]
  BY <1>4, <1>5, FreeType, FreeEffect DEF CtrlInv
<1>7. ns' \in 0..MaxNs /\ nsHeap' \in [Namespaces -> {"none", "live", "freed"}]
  <2>1. idx + 1 \in 0..MaxNs /\ 0 \in 0..MaxNs /\ ns \in 0..MaxNs
    BY <1>3 DEF CtrlInv, TypeOK, Namespaces
  <2>2. CASE ProbeSkips \/ ProbeNoNs
    BY <1>3, <2>1, <2>2 DEF ProbeSkips, ProbeNoNs
  <2>3. CASE ProbeTooLarge \/ ProbeFound
    BY <1>3, <2>1, <2>3 DEF ProbeTooLarge, ProbeFound
  <2> QED BY <2>2, <2>3
<1>8. TypeOK'
  BY <1>1, <1>2, <1>6, <1>7 DEF CtrlInv, TypeOK
<1>9. Owns'
  BY <1>1, <1>4, <1>6 DEF CtrlInv, Owns, Ended, Enabled, Using, Object
<1>10. Waits' /\ DmaIntoLive'
  BY <1>1 DEF CtrlInv, Waits, DmaIntoLive
<1>11. Probes'
  BY <1>1, <1>4, <1>6 DEF CtrlInv, Probes, Using, Object, Namespaces
<1> QED BY <1>6, <1>8, <1>9, <1>10, <1>11 DEF CtrlInv

\* The bring-up starts with nothing and keeps its invariant.
LEMMA CtrlInit == Init => CtrlInv
<1> SUFFICES ASSUME Init PROVE CtrlInv
  OBVIOUS
<1> USE CtrlAssumption DEF Init, Admin!Init, Admin!NotRun
<1>1. csts \in [rdy : 0..1, fatal : BOOLEAN]
  <2>1. [rdy |-> IF en THEN 1 ELSE 0, fatal |-> FALSE] \in [rdy : 0..1, fatal : BOOLEAN]
    OBVIOUS
  <2> QED BY <2>1
<1>2. bad \in BOOLEAN /\ stray \in BOOLEAN /\ open \in BOOLEAN /\ lost \in BOOLEAN
  BY Zenon
<1>3. TypeOK
  BY <1>1, <1>2 DEF TypeOK, Steps
<1>4. Owns
  BY DEF Owns, Ended, Enabled, Using, Object
<1>5. Waits /\ Probes /\ DmaIntoLive /\ ~bad
  BY DEF Waits, Probes, DmaIntoLive, Using, Namespaces
<1> QED BY <1>3, <1>4, <1>5 DEF CtrlInv

\* Every step of the bring-up and of the controller keeps the invariant.
LEMMA CtrlStep ==
  ASSUME CtrlInv, Driver \/ Device
  PROVE  CtrlInv'
  BY PlainSteps, AllocSteps, DeviceSteps, EarlyFailures, LateFailures, IdentifiedStep,
     ProbeSteps
  DEF Driver

\* So does a step that leaves the bring-up alone.
LEMMA CtrlStutter ==
  ASSUME CtrlInv, UNCHANGED vars
  PROVE  CtrlInv'
  BY DEF vars, memory, regs, spaces, device, admin, CtrlInv, TypeOK, Owns, Waits, Probes,
         DmaIntoLive, Memory

\* A step of the bring-up that is no failure keeps ns at the namespace probed last.
LEMMA ScanReaches ==
  ASSUME IInv, ScanGoesOn
  PROVE  Reached'
<1> USE CtrlAssumption DEF memory, regs, spaces, device, admin, vars, boot
<1>1. step = "scan" /\ UNCHANGED boot
  BY DEF ScanGoesOn
<1>2. SUFFICES ASSUME ~fault
               PROVE  pc' # "failed" /\ (pc' \in Using /\ idx' > 0
                                            => ns' = idx' /\ nsHeap'[idx'] = "live")
  BY <1>1 DEF Reached
<1>3. pc # "failed" /\ (pc \in Using /\ idx > 0 => ns = idx /\ nsHeap[idx] = "live")
  BY <1>2 DEF IInv, Reached
<1>4. pc \notin Using => idx = 0
  BY DEF IInv, CtrlInv, Probes
<1>5. CASE ProbeFound
  <2>1. idx + 1 \in Namespaces /\ nsHeap \in [Namespaces -> {"none", "live", "freed"}]
    BY <1>5 DEF ProbeFound, ProbeEnds, IInv, CtrlInv, TypeOK, Namespaces
  <2> QED BY <1>5, <2>1 DEF ProbeFound, ProbeEnds
<1>6. CASE Scan \/ Setup \/ ReadyPolled \/ NotReadyPolled \/ InitAdminCq \/ InitAdminSq
  BY <1>3, <1>4, <1>6
  DEF Scan, Setup, ReadyPolled, NotReadyPolled, InitAdminCq, InitAdminSq, Using
<1>7. CASE Issue \/ QueueCreated \/ Complete \/ (Identified /\ nsCount' > 0)
  BY <1>3, <1>4, <1>7 DEF Issue, QueueCreated, Complete, Identified, Using
<1> QED BY <1>5, <1>6, <1>7 DEF ScanGoesOn

\* Before nvmedisk_initialize nothing is registered and nothing has failed.
LEMMA BootStart == BootInit => IInv
<1> SUFFICES ASSUME BootInit PROVE IInv
  OBVIOUS
<1>1. CtrlInv
  BY CtrlInit DEF BootInit
<1>2. table \in BOOLEAN /\ fault \in BOOLEAN
  BY Zenon DEF BootInit
<1>3. BootTypeOK
  BY <1>2, DiskAssumption DEF BootInit, BootTypeOK
<1>4. Reached /\ RequestsReachNs /\ served = "none" /\ pc = "scan"
  BY DEF BootInit, Init, Reached, RequestsReachNs, Using
<1> QED BY <1>1, <1>3, <1>4 DEF IInv

\* Every step of nvmedisk_initialize, of a request and of the controller.
LEMMA BootStep ==
  ASSUME IInv, [BootNext]_bootVars
  PROVE  IInv'
<1> USE DiskAssumption DEF boot
<1>1. /\ CtrlInv /\ BootTypeOK /\ Reached /\ RequestsReachNs
      /\ served # "none" => step = "returned"
      /\ step \in {"io", "calloc", "create"} => pc = "scan"
  BY DEF IInv
<1>2. CASE \/ InitializeIo \/ StartScan \/ GiveUpBoot \/ Calloc \/ CreateDisk \/ ReturnOk
           \/ Request \/ UNCHANGED bootVars
  <2>1. CtrlInv' /\ UNCHANGED <<pc, idx, ns, nsHeap, nsCount>>
    <3>1. UNCHANGED vars
      BY <1>2
        DEF InitializeIo, StartScan, GiveUpBoot, Calloc, CreateDisk, ReturnOk, Request,
                  bootVars
    <3> QED BY <1>1, <3>1, CtrlStutter DEF vars, spaces
  <2>2. CASE InitializeIo \/ StartScan \/ UNCHANGED bootVars
    BY <1>1, <2>1, <2>2
    DEF bootVars, InitializeIo, StartScan, IInv, BootTypeOK, Reached, RequestsReachNs, Using
  <2>3. CASE GiveUpBoot
    <3>1. fault' \in BOOLEAN /\ fault'
      BY <2>3, Zenon DEF GiveUpBoot
    <3> QED BY <1>1, <2>1, <2>3, <3>1
        DEF GiveUpBoot, IInv, BootTypeOK, Reached, RequestsReachNs
  <2>4. CASE Calloc
    <3>1. fault' \in BOOLEAN /\ table' \in BOOLEAN
      BY <2>4, Zenon DEF Calloc
    <3>2. /\ step' = "create" /\ served = "none" /\ pc = "scan"
          /\ UNCHANGED <<disks, rc, served>>
      BY <1>1, <2>4 DEF Calloc
    <3> QED BY <1>1, <2>1, <3>1, <3>2
        DEF IInv, BootTypeOK, Reached, RequestsReachNs, Using
  <2>5. CASE CreateDisk
    BY <1>1, <2>1, <2>5 DEF CreateDisk, IInv, BootTypeOK, Reached, RequestsReachNs, Using
  <2>6. CASE ReturnOk
    BY <1>1, <2>1, <2>6 DEF ReturnOk, IInv, BootTypeOK, Reached, RequestsReachNs
  <2>7. CASE Request
    <3>1. ~fault => pc = "ready" /\ idx > 0 /\ ns > 0 /\ nsHeap[ns] = "live"
      BY <1>1, <2>7 DEF Request, Reached, CtrlInv, Probes, TypeOK, Using
    <3>2. served' \in {"live", "null", "freed"} \cup {"none"}
      BY <1>1, <2>7 DEF Request, CtrlInv, TypeOK, Namespaces
    <3>3. UNCHANGED <<step, disks, table, rc, fault>> /\ step = "returned"
      BY <2>7 DEF Request
    <3>4. RequestsReachNs'
      BY <2>7, <3>1 DEF Request, RequestsReachNs
    <3> QED BY <1>1, <2>1, <3>2, <3>3, <3>4 DEF IInv, BootTypeOK, Reached
  <2> QED
    BY <1>2, <2>2, <2>3, <2>4, <2>5, <2>6, <2>7
<1>3. CASE Device /\ UNCHANGED boot
  <2>1. CtrlInv'
    BY <1>1, <1>3, CtrlStep
  <2>2. UNCHANGED <<pc, idx, ns, nsHeap>>
    BY <1>3 DEF Device, DeviceReady, DeviceFatal, DeviceRun, spaces
  <2> QED BY <1>1, <1>3, <2>1, <2>2 DEF IInv, BootTypeOK, Reached, RequestsReachNs
<1>4. CASE ScanGoesOn
  <2>1. CtrlInv'
    BY <1>1, <1>4, CtrlStep DEF ScanGoesOn, Driver
  <2>2. Reached' /\ UNCHANGED boot /\ step = "scan"
    BY <1>4, ScanReaches DEF ScanGoesOn
  <2> QED BY <1>1, <2>1, <2>2 DEF IInv, BootTypeOK, RequestsReachNs
<1>5. CASE ScanMeetsFault
  <2>1. CtrlInv'
    BY <1>1, <1>5, CtrlStep DEF ScanMeetsFault, Driver
  <2>2. fault' \in BOOLEAN /\ fault'
    BY <1>5, Zenon DEF ScanMeetsFault
  <2>3. UNCHANGED <<step, disks, table, rc, served>> /\ step = "scan"
    BY <1>5 DEF ScanMeetsFault
  <2> QED BY <1>1, <2>1, <2>2, <2>3 DEF IInv, BootTypeOK, Reached, RequestsReachNs
<1> QED
  BY <1>2, <1>3, <1>4, <1>5 DEF BootNext, Initialize

\* The invariant holds throughout.
LEMMA BootInv == BootSpec => []IInv
  BY BootStart, BootStep, PTL DEF BootSpec

\* Every error path of the bring-up frees exactly what was acquired.
THEOREM FreedOnceCorrect == BootSpec => []FreedOnce
<1>1. IInv => FreedOnce
  BY DEF IInv, CtrlInv, FreedOnce, Owns, Probes, Ended, Enabled, Using, Object
<1> QED BY <1>1, BootInv, PTL

\* Until a command is given up, the controller writes to live memory only.
THEOREM DmaIntoLiveCorrect == BootSpec => []DmaIntoLive
<1>1. IInv => DmaIntoLive
  BY DEF IInv, CtrlInv
<1> QED BY <1>1, BootInv, PTL

\* A namespace that can be used rests on live queues and a live page.
THEOREM NsSoundCorrect == BootSpec => []NsSound
<1>1. IInv => NsSound
  BY DEF IInv, CtrlInv, TypeOK, NsSound, Owns, Probes, Ended, Enabled, Using, Object,
         Namespaces
<1> QED BY <1>1, BootInv, PTL

\* When nothing failed, every request reaches a live namespace.
THEOREM RequestsReachNsCorrect == BootSpec => []RequestsReachNs
<1>1. IInv => RequestsReachNs
  BY DEF IInv
<1> QED BY <1>1, BootInv, PTL

(***************************************************************************)
(* The I/O queues were answered for                                        *)
(***************************************************************************)

\* A status that nvme_is_cqe_success takes for a success.
Passing(status) == status >= 0 /\ status % 256 = 0

\* What the last command was answered with is what its queue was answered with, until
\* the next command; the bring-up went past a queue only with such a status; and no
\* command that is still to run names a queue that it went past.
Told ==
  /\ outcome # -1 /\ names \in Queues => answer[names] = outcome
  /\ pc \in Using \cup {"iosq"} => Passing(answer["iocq"])
  /\ pc \in Using => Passing(answer["iosq"])
  /\ outcome = -1 /\ pc \in Using => names = "ident"
  /\ outcome = -1 /\ pc = "iosq" => names # "iocq"

\* Every step keeps Told: a command that names a queue is the first one to name it.
LEMMA ToldStep ==
  ASSUME IInv, Told, [BootNext]_bootVars
  PROVE  Told'
<1> USE DEF memory, regs, spaces, device, admin, vars
<1>1. CASE \/ InitializeIo \/ StartScan \/ GiveUpBoot \/ Calloc \/ CreateDisk \/ ReturnOk
           \/ Request \/ UNCHANGED bootVars
  BY <1>1 DEF InitializeIo, StartScan, GiveUpBoot, Calloc, CreateDisk, ReturnOk, Request,
              bootVars, Told
<1>2. CASE DeviceRun
  <2>1. /\ outcome = -1 /\ outcome' \in Statuses /\ UNCHANGED <<pc, names>>
        /\ answer' = IF names \in Queues THEN [answer EXCEPT ![names] = outcome'] ELSE answer
    BY <1>2 DEF DeviceRun, Admin!Run, Admin!NotRun
  <2>2. answer \in [Queues -> Statuses \cup {-1}] /\ outcome' # -1
    BY <2>1, CtrlAssumption DEF IInv, CtrlInv, TypeOK
  <2>3. \A q \in Queues : answer'[q] = IF q = names THEN outcome' ELSE answer[q]
    BY <2>1, <2>2
  <2>4. names \in Queues => answer'[names] = outcome'
    BY <2>3
  <2> QED BY <2>1, <2>2, <2>3, <2>4 DEF Told, Using, Queues
<1>3. CASE DeviceReady \/ DeviceFatal
  BY <1>3 DEF DeviceReady, DeviceFatal, Told
<1>4. CASE Scan \/ SetupFails \/ Setup \/ ReadyPolled \/ NotReadyPolled \/ ReadyFails
           \/ InitAdminCq \/ InitAdminSq \/ InitAdminFails \/ Complete
  BY <1>4 DEF Scan, SetupFails, Setup, ReadyPolled, NotReadyPolled, ReadyFails, InitAdminCq,
              InitAdminSq, InitAdminFails, Complete, Told, Using
<1>5. CASE NoMemory \/ Refused \/ CommandFails
  BY <1>5 DEF NoMemory, Refused, CommandFails, AfterFailure, Admin!Refuse, Admin!Finish,
              Admin!GiveUp, Told, Using
<1>6. CASE Issue
  BY <1>6 DEF Issue, Admin!Begin, Admin!NotRun, Told, Commanding, Memory, Using
<1>7. CASE Identified
  BY <1>7 DEF Identified, Admin!Finish, Told, Using
<1>8. CASE QueueCreated
  <2>1. pc \in {"iocq", "iosq"} /\ open /\ Succeeded /\ outcome # -1
        /\ pc' = (IF pc = "iocq" THEN "iosq" ELSE "probe")
        /\ UNCHANGED <<names, answer, outcome>>
    BY <1>8 DEF QueueCreated, Admin!Finish, Admin!NotRun
  <2>2. names = pc
    BY <2>1 DEF IInv, CtrlInv, Waits, Memory
  <2>3. answer[pc] = outcome /\ Passing(outcome)
    BY <2>1, <2>2 DEF Told, Queues, Succeeded, Passing
  <2> QED BY <2>1, <2>2, <2>3 DEF Told, Using
<1>9. CASE ProbeSkips \/ ProbeNoNs \/ ProbeTooLarge \/ ProbeFound
  BY <1>9 DEF ProbeSkips, ProbeNoNs, ProbeTooLarge, ProbeFound, ProbeEnds, Admin!Finish, Told
<1> QED
  BY <1>1, <1>2, <1>3, <1>4, <1>5, <1>6, <1>7, <1>8, <1>9
  DEF BootNext, Initialize, ScanGoesOn, ScanMeetsFault, Device

\* Bring-up goes on only with I/O queues whose creation the controller answered with a
\* status code of zero, whatever statuses it knows and whichever commands it delays.
THEOREM QueuesAnsweredCorrect == BootSpec => []QueuesAnswered
<1>1. BootInit => Told
  BY DEF BootInit, Init, Admin!Init, Admin!NotRun, Told, Using
<1>2. IInv /\ Told /\ [BootNext]_bootVars => Told'
  BY ToldStep
<1>3. IInv /\ Told => QueuesAnswered
  BY DEF Told, Using, QueuesAnswered, Queues, Passing
<1> QED BY <1>1, <1>2, <1>3, BootInv, PTL DEF BootSpec

=============================================================================
