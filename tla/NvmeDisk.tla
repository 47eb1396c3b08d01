------------------------------ MODULE NvmeDisk ------------------------------
(***************************************************************************)
(* The block device of hello/nvmedisk.h on top of nvme_prpl_xfer: ioctl    *)
(* requests that are lists of buffers, the loop that cuts each buffer into *)
(* commands, the page nvme_dma_buffer that serves as bounce buffer and as  *)
(* PRP list, and the medium the commands read and write.                   *)
(*                                                                         *)
(* Requests come one at a time.  The task that issued a request waits for  *)
(* rtems_blkdev_request_done, whatever nvmedisk_ioctl returned (external:  *)
(* the buffer cache of RTEMS); another task may then issue the next one.   *)
(*                                                                         *)
(* The I/O queue is taken from NvmeQueue with ChecksNull = FALSE: a        *)
(* command is answered by its own completion until one times out; the      *)
(* call after that writes its command through a NULL entry, and from then  *)
(* on a call may return on somebody else's completion.                     *)
(***************************************************************************)
EXTENDS NvmeXfer, Sequences, Functions, FiniteSets

CONSTANTS
  DiskBlock,  \* nvmed->block_size, the block size registered with RTEMS
  MemSize,    \* cells of host memory that hold the buffers
  DiskSize,   \* cells of the medium
  Requests,   \* the requests tasks may issue
  MaxRequests \* bound: requests issued

\* A buffer of a request: rtems_blkdev_sg_buffer.
SgBuffer == [block : Nat, length : Nat, buffer : Nat]

ASSUME RequestAssumption ==
  /\ DiskBlock \in Nat \ {0} /\ MemSize \in Nat /\ DiskSize \in Nat
  /\ MemSize <= DmaBuffer
  /\ MaxRequests \in Nat
  /\ \A r \in Requests :
       /\ r.op \in {"read", "write", "other"}
       /\ r.bufs \in Seq(SgBuffer)
       /\ \A i \in DOMAIN r.bufs :
            /\ r.bufs[i].buffer + r.bufs[i].length <= MemSize
            /\ r.bufs[i].block * DiskBlock + r.bufs[i].length <= DiskSize

VARIABLES
  host,     \* contents of host memory, by the address of each block of a buffer
  dma,      \* what nvme_dma_buffer holds: blocks, a page list, or zeroes
  medium,   \* contents of the namespace, by block
  pc,       \* "idle", "loop" inside nvmedisk_read/write, or "crashed"
  req,      \* the request being served
  sg, id,   \* position in it: the buffer, and its blocks transferred
  issued,   \* requests issued so far
  done,     \* whether the last request was completed with request_done
  queue,    \* "ok"; "lost" after a timeout; "shifted" after a NULL entry
  late,     \* commands the controller may still run
  past,     \* commands whose entries linger in the ring
  wild      \* some command touched memory it was not meant to touch

vars == <<host, dma, medium, pc, req, sg, id, issued, done, queue, late, past, wild>>

CeilDiv(a, b) == (a + b - 1) \div b

AllBuffers == UNION {{r.bufs[i] : i \in DOMAIN r.bufs} : r \in Requests}

BlocksOf(b) == {b.buffer + j * BlockSize : j \in 0..(CeilDiv(b.length, BlockSize) - 1)}

HostBlocks == UNION {BlocksOf(b) : b \in AllBuffers}
DiskBlocks == 0..((DiskSize \div BlockSize) - 1)

Junk    == [src |-> "junk", at |-> 0]
Content == [src : {"host", "disk"}, at : Nat] \cup {Junk}
Zeroes  == [kind |-> "zero"]
DmaBlocks(f)   == [kind |-> "blocks", blocks |-> f]
DmaList(b, n)  == [kind |-> "list", base |-> b, entries |-> n]

NoRequest == [op |-> "none", bufs |-> <<>>]

TypeOK ==
  /\ host \in [HostBlocks -> Content]
  /\ medium \in [DiskBlocks -> Content]
  /\ dma.kind \in {"zero", "blocks", "list"}
  /\ pc \in {"idle", "loop", "crashed"}
  /\ req \in Requests \cup {NoRequest}
  /\ sg \in 1..(Len(req.bufs) + 1) /\ id \in Nat
  /\ issued \in 0..MaxRequests
  /\ done \in BOOLEAN /\ wild \in BOOLEAN
  /\ queue \in {"ok", "lost", "shifted"}
  /\ late \subseteq past

Init ==
  /\ host = [a \in HostBlocks |-> [src |-> "host", at |-> a]]
  /\ medium = [b \in DiskBlocks |-> [src |-> "disk", at |-> b]]
  /\ dma = Zeroes
  /\ pc = "idle" /\ req = NoRequest /\ sg = 1 /\ id = 0
  /\ issued = 0 /\ done = TRUE
  /\ queue = "ok" /\ late = {} /\ past = {}
  /\ wild = FALSE

(***************************************************************************)
(* A command and what it does when the controller runs it.  Its blocks are *)
(* at consecutive host addresses, or in nvme_dma_buffer; a list command    *)
(* goes astray if the page no longer holds its list, and a command that    *)
(* asks for more blocks than the caller did overruns its buffer.           *)
(***************************************************************************)
Cmd(base, count, lba) ==
  [base |-> base, way |-> Way(base, count), lba |-> lba,
   blocks |-> Blocks(base, count), write |-> req.op = "write"]

Covers(c, lba) == lba \in c.lba..(c.lba + c.blocks - 1)

Strays(c, d) ==
  \/ CmdBlocks(c.blocks) # c.blocks
  \/ c.way = "list" /\ ~(d.kind = "list" /\ d.base = c.base)

Fetched(c, d, lba) ==
  IF c.way = "bounce"
  THEN IF d.kind = "blocks" /\ lba - c.lba \in DOMAIN d.blocks
       THEN d.blocks[lba - c.lba] ELSE Junk
  ELSE host[c.base + (lba - c.lba) * BlockSize]

MediumAfter(c, d) ==
  [b \in DiskBlocks |-> IF c.write /\ ~Strays(c, d) /\ Covers(c, b)
                        THEN Fetched(c, d, b) ELSE medium[b]]

HostAfter(c, d) ==
  [a \in HostBlocks |->
     IF ~c.write /\ c.way # "bounce" /\ ~Strays(c, d)
        /\ \E j \in 0..(c.blocks - 1) : a = c.base + j * BlockSize
     THEN medium[c.lba + (a - c.base) \div BlockSize]
     ELSE host[a]]

DmaAfter(c, d) ==
  IF ~c.write /\ c.way = "bounce"
  THEN DmaBlocks([j \in 0..(c.blocks - 1) |-> medium[c.lba + j]])
  ELSE d

(***************************************************************************)
(* nvme_prpl_xfer                                                          *)
(***************************************************************************)

\* nvme_dma_buffer when the command is issued: the page list, or the blocks a
\* bounced write copies there.
DmaBefore(base, count, c) ==
  IF c.write /\ c.way = "bounce"
  THEN DmaBlocks([j \in 0..(c.blocks - 1) |-> host[base + j * BlockSize]])
  ELSE IF BuildsList(base, count)
  THEN DmaList(base, Cardinality(DOMAIN ListEntries(base, count)))
  ELSE dma

\* The memcpy at the end of nvme_bounce_xfer: a bounced read that succeeded.
CopyBack(c, h, d) ==
  [a \in HostBlocks |->
     IF ~c.write /\ c.way = "bounce" /\ d.kind = "blocks"
        /\ \E j \in DOMAIN d.blocks : j < c.blocks /\ a = c.base + j * BlockSize
     THEN d.blocks[(a - c.base) \div BlockSize]
     ELSE h[a]]

(***************************************************************************)
(* nvmedisk_ioctl, nvmedisk_read, nvmedisk_write                           *)
(***************************************************************************)

\* A task issues a request.  A request that neither reads nor writes is turned
\* down with EINVAL, and nobody completes it.
Ioctl(r) ==
  /\ pc = "idle"
  /\ issued < MaxRequests
  /\ issued' = issued + 1
  /\ req' = r /\ sg' = 1 /\ id' = 0
  /\ done' = FALSE
  /\ pc' = IF r.op \in {"read", "write"} THEN "loop" ELSE "idle"
  /\ UNCHANGED <<host, dma, medium, queue, late, past, wild>>

Buf == req.bufs[sg]
Cnt == Buf.length \div BlockSize

\* The buffer is through: go to the next one.
NextBuffer ==
  /\ pc = "loop"
  /\ sg <= Len(req.bufs)
  /\ id >= Cnt
  /\ sg' = sg + 1
  /\ id' = 0
  /\ UNCHANGED <<host, dma, medium, pc, req, issued, done, queue, late, past, wild>>

\* rtems_blkdev_request_done(req, RTEMS_SUCCESSFUL); return 0.
RequestDone ==
  /\ pc = "loop"
  /\ sg > Len(req.bufs)
  /\ done' = TRUE
  /\ pc' = "idle"
  /\ UNCHANGED <<host, dma, medium, req, sg, id, issued, queue, late, past, wild>>

\* Mutants: every command gets the whole count, or the start of the buffer; the
\* loop does not advance.
RemainingAll   == U16(Cnt)
OpBufAtStart   == Buf.buffer
AdvanceNowhere == UNCHANGED <<id, pc>>

\* The next call of nvme_prpl_xfer(ns, lba + id, op_buf, blocks_remaining, ...).
InBuffer  == pc = "loop" /\ sg <= Len(req.bufs) /\ id < Cnt
Remaining == U16(Cnt - id)
OpBuf     == Buf.buffer + id * BlockSize
ThisCmd   == Cmd(OpBuf, Remaining, Buf.block + id)
ThisDma   == DmaBefore(OpBuf, Remaining, ThisCmd)

\* nvme_prpl_xfer returned blocks >= 0 (advance) or -1 (return -1 at once).
Advance == id' = id + ThisCmd.blocks /\ UNCHANGED pc
Abandon == pc' = "idle" /\ UNCHANGED id

\* nvme_io_xfer turns down an unaligned buffer before it touches the queue.
XferMisaligned ==
  /\ InBuffer
  /\ Misaligned(OpBuf, Remaining)
  /\ dma' = ThisDma
  /\ Abandon
  /\ UNCHANGED <<host, medium, req, sg, issued, done, queue, late, past, wild>>

\* The controller ran the command and the call got its completion.
XferOk ==
  /\ InBuffer
  /\ ~Misaligned(OpBuf, Remaining)
  /\ queue = "ok"
  /\ dma' = DmaAfter(ThisCmd, ThisDma)
  /\ host' = CopyBack(ThisCmd, HostAfter(ThisCmd, ThisDma), dma')
  /\ medium' = MediumAfter(ThisCmd, ThisDma)
  /\ wild' = (wild \/ Strays(ThisCmd, ThisDma))
  /\ past' = past \cup {ThisCmd}
  /\ Advance
  /\ UNCHANGED <<req, sg, issued, done, queue, late>>

\* The controller answered with an error status, before or after moving data.
XferError ==
  /\ InBuffer
  /\ ~Misaligned(OpBuf, Remaining)
  /\ queue = "ok"
  /\ \/ /\ dma' = DmaAfter(ThisCmd, ThisDma)
        /\ host' = HostAfter(ThisCmd, ThisDma)
        /\ medium' = MediumAfter(ThisCmd, ThisDma)
        /\ wild' = (wild \/ Strays(ThisCmd, ThisDma))
     \/ dma' = ThisDma /\ UNCHANGED <<host, medium, wild>>
  /\ past' = past \cup {ThisCmd}
  /\ Abandon
  /\ UNCHANGED <<req, sg, issued, done, queue, late>>

\* nvme_wait gave up; the controller still has the command.
XferTimeout ==
  /\ InBuffer
  /\ ~Misaligned(OpBuf, Remaining)
  /\ queue = "ok"
  /\ dma' = ThisDma
  /\ queue' = "lost"
  /\ late' = late \cup {ThisCmd}
  /\ past' = past \cup {ThisCmd}
  /\ Abandon
  /\ UNCHANGED <<host, medium, req, sg, issued, done, wild>>

\* The command goes through a NULL entry instead of into the ring.  The store
\* traps, or the commit hands over what the entry at the tail held before, and
\* the call returns on a completion that is not its own, or on a timeout.
XferNull ==
  /\ InBuffer
  /\ ~Misaligned(OpBuf, Remaining)
  /\ queue # "ok"
  /\ dma' = ThisDma
  /\ \/ pc' = "crashed" /\ UNCHANGED <<host, id, queue, late>>
     \/ /\ queue' = "shifted"
        /\ late' \in {late} \cup {late \cup {c} : c \in past}
        /\ \/ Advance /\ host' = CopyBack(ThisCmd, host, ThisDma)
           \/ Abandon /\ UNCHANGED host
  /\ UNCHANGED <<medium, req, sg, issued, done, past, wild>>

\* Later the test may let a command through again, but the completions in the
\* queue are now ahead of the calls.
XferShifted ==
  /\ InBuffer
  /\ ~Misaligned(OpBuf, Remaining)
  /\ queue = "shifted"
  /\ dma' = ThisDma
  /\ late' = late \cup {ThisCmd}
  /\ past' = past \cup {ThisCmd}
  /\ \/ Advance /\ host' = CopyBack(ThisCmd, host, ThisDma)
     \/ Abandon /\ UNCHANGED host
  /\ UNCHANGED <<medium, req, sg, issued, done, queue, wild>>

\* The controller gets round to a command nobody waits for any more.
LateRun ==
  \E c \in late :
    /\ dma' = DmaAfter(c, dma)
    /\ host' = HostAfter(c, dma)
    /\ medium' = MediumAfter(c, dma)
    /\ wild' = (wild \/ Strays(c, dma))
    /\ late' = late \ {c}
    /\ UNCHANGED <<pc, req, sg, id, issued, done, queue, past>>

Xfer == XferMisaligned \/ XferOk \/ XferError \/ XferTimeout \/ XferNull \/ XferShifted

Serve == NextBuffer \/ RequestDone \/ Xfer

Next == (\E r \in Requests : Ioctl(r)) \/ Serve \/ LateRun

\* A task inside the driver keeps running.
Spec == Init /\ [][Next]_vars /\ WF_vars(Serve)

(***************************************************************************)
(* Properties                                                              *)
(***************************************************************************)

\* Cell k of a buffer and the medium cell it stands for: the registered disk has
\* blocks of DiskBlock cells.
HostCell(b, k) == <<host[b.buffer + (k \div BlockSize) * BlockSize], k % BlockSize>>
DiskCell(b, k) == LET at == b.block * DiskBlock + k
                  IN <<medium[at \div BlockSize], at % BlockSize>>

Copied(r) == \A i \in DOMAIN r.bufs : \A k \in 0..(r.bufs[i].length - 1) :
               HostCell(r.bufs[i], k) = DiskCell(r.bufs[i], k)

\* A completed request copied every cell of its buffers from, or to, the place
\* "sg->block * nvmed->block_size" of the disk, as the comments that the loops of
\* nvmedisk_read and nvmedisk_write replace say, while every command got its own
\* answer.  After a timeout a request may be completed that was never transferred.
CopiedWhileAnswered == queue = "ok" /\ done /\ req # NoRequest => Copied(req)

\* No command touches memory outside the buffer it was given: nvme_io_xfer
\* transfers "count sectors", and a list command finds its own list.
NoStray == queue = "ok" => ~wild

\* A read leaves the medium alone, a write leaves the buffers alone, and neither
\* touches blocks outside its request, however the loop cuts it up.
Mine(a)  == \E i \in DOMAIN req.bufs : a \in BlocksOf(req.bufs[i])
MyLba(b) == \E i \in DOMAIN req.bufs :
              b * BlockSize \in (req.bufs[i].block * DiskBlock)
                                  ..(req.bufs[i].block * DiskBlock + req.bufs[i].length - 1)

OnlyTheRequest ==
  [][queue' = "ok" =>
       /\ \A a \in HostBlocks : host'[a] # host[a] => req.op = "read" /\ Mine(a)
       /\ \A b \in DiskBlocks : medium'[b] # medium[b] => req.op = "write" /\ MyLba(b)]_vars

\* The loop over a buffer ends: every call transfers at least one block or fails.
LoopEnds == (pc = "loop") ~> (pc # "loop")

\* A request that was issued is completed, also when the device fails: the buffer
\* cache reports the status to the reader, as test block09 expects of a driver.
RequestCompleted == (pc = "loop") ~> done

=============================================================================
