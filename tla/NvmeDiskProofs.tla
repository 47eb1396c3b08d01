--------------------------- MODULE NvmeDiskProofs ---------------------------
(***************************************************************************)
(* nvme_prpl_xfer describes the right cells for every page size, block     *)
(* size, request limit and list length (NvmePrp), and the block device on  *)
(* top of it copies the blocks of its requests, and no others (NvmeDisk).  *)
(***************************************************************************)
EXTENDS NvmeDisk, NvmePrp, TLAPS

\* Division with remainder.
LEMMA DivMod ==
  ASSUME NEW a \in Nat, NEW b \in Nat \ {0}
  PROVE  /\ a \div b \in Nat /\ a % b \in Nat
         /\ a = b * (a \div b) + (a % b)
         /\ a % b < b
  BY SMT

\* Products of naturals are naturals and grow with their factors.
LEMMA MulMono ==
  ASSUME NEW a \in Nat, NEW b \in Nat, NEW p \in Nat, a <= b
  PROVE  a * p <= b * p /\ a * p \in Nat
  BY SMT

\* What divides goes into the quotient.
LEMMA DivLower ==
  ASSUME NEW n \in Nat, NEW a \in Nat, NEW b \in Nat \ {0}, n * b <= a
  PROVE  n <= a \div b
<1>1. a \div b \in Nat /\ a = b * (a \div b) + (a % b) /\ a % b < b /\ a % b \in Nat
  BY DivMod
<1>2. SUFFICES ASSUME (a \div b) + 1 <= n PROVE FALSE
  BY <1>1
<1>3. ((a \div b) + 1) * b <= n * b
  BY <1>1, <1>2, MulMono
<1>4. ((a \div b) + 1) * b = b * (a \div b) + b
  BY <1>1, SMT
<1> DEFINE q == b * (a \div b)
<1>5. q \in Nat /\ n * b \in Nat
  BY <1>1, MulMono, SMT
<1> HIDE DEF q
<1>6. q + b <= n * b /\ a = q + (a % b)
  BY <1>1, <1>3, <1>4 DEF q
<1> QED BY <1>1, <1>5, <1>6, SMT

\* Quotient and remainder are unique.
LEMMA Quotient ==
  ASSUME NEW y \in Nat, NEW z \in Nat, NEW b \in Nat \ {0}, z < b
  PROVE  (b * y + z) \div b = y /\ (b * y + z) % b = z
<1> DEFINE a == b * y + z
           q == a \div b
           m == a % b
<1>1. b * y \in Nat /\ a \in Nat
  BY SMT
<1>2. q \in Nat /\ m \in Nat /\ a = b * q + m /\ m < b /\ b * q \in Nat
  BY <1>1, DivMod, SMT
<1> HIDE DEF q, m
<1>3. CASE q >= y + 1
  <2>1. b * q >= b * y + b
    BY <1>2, <1>3, SMT
  <2> QED BY <1>1, <1>2, <2>1
<1>4. CASE q <= y - 1
  <2>1. b * q <= b * y - b
    BY <1>2, <1>4, SMT
  <2> QED BY <1>1, <1>2, <2>1
<1>5. q = y
  BY <1>2, <1>3, <1>4
<1>6. m = z
  BY <1>1, <1>2, <1>5
<1> QED BY <1>5, <1>6 DEF q, m

\* The clamped count and its size in cells are naturals.
LEMMA ClampNat ==
  ASSUME NEW n \in Nat
  PROVE  Clamp(n) \in Nat /\ Clamp(n) * BlockSize \in Nat
         /\ Clamp(n) <= n /\ Clamp(n) <= MaxReq
<1>1. Clamp(n) \in Nat /\ Clamp(n) <= n /\ Clamp(n) <= MaxReq
  BY GeometryAssumption DEF Clamp, Lesser
<1> QED BY <1>1, GeometryAssumption, MulMono

\* A bounced transfer fits the page nvme_dma_buffer.
LEMMA BounceFits ==
  ASSUME NEW n \in Nat
  PROVE  LET b == Lesser(Clamp(n), PageSize \div BlockSize)
         IN b \in Nat /\ b * BlockSize <= PageSize /\ b * BlockSize \in Nat
<1> DEFINE b == Lesser(Clamp(n), PageSize \div BlockSize)
           q == PageSize \div BlockSize
<1>1. q \in Nat /\ PageSize = BlockSize * q + (PageSize % BlockSize)
      /\ PageSize % BlockSize \in Nat
  BY DivMod, GeometryAssumption
<1>2. b \in Nat /\ b <= q
  BY <1>1, ClampNat DEF Lesser
<1> HIDE DEF b, q
<1>3. b * BlockSize <= q * BlockSize /\ b * BlockSize \in Nat
  BY <1>1, <1>2, MulMono, GeometryAssumption
<1>4. q * BlockSize <= PageSize
  BY <1>1, GeometryAssumption, SMT
<1>5. b * BlockSize <= PageSize
  BY <1>1, <1>3, <1>4, GeometryAssumption, MulMono, SMT
<1> QED BY <1>2, <1>3, <1>5 DEF b

\* One call of nvme_prpl_xfer describes the right cells.
LEMMA Describes ==
  ASSUME NEW b \in Nat, NEW n \in Nat, NEW k \in 0..(Blocks(b, n) * BlockSize - 1)
  PROVE  HostAddr(Prp1(b, n), Prp2(b, n), ListEntries(b, n),
                  Blocks(b, n) * BlockSize, k)
           = (IF Way(b, n) = "bounce" THEN DmaBuffer ELSE b) + k
<1> DEFINE len == Blocks(b, n) * BlockSize
           P    == PageSize
           size == Clamp(n) * BlockSize
           off  == b % P
<1>1. b \in Nat /\ n \in Nat /\ P \in Nat \ {0}
  BY GeometryAssumption
<1>2. size \in Nat /\ off \in Nat /\ off < P
  BY <1>1, ClampNat, DivMod
<1>3. CASE Way(b, n) = "bounce"
  <2>1. len \in Nat /\ len <= P
    BY <1>1, <1>3, BounceFits DEF Blocks
  <2>2. Prp1(b, n) = DmaBuffer /\ DmaBuffer % P = 0 /\ DmaBuffer \in Nat
    BY <1>3, GeometryAssumption DEF Prp1
  <2> QED
    BY <1>1, <1>3, <2>1, <2>2 DEF HostAddr
<1>4. CASE Way(b, n) # "bounce"
  <2>1. len = size /\ Prp1(b, n) = b /\ k \in Nat /\ k < size
    BY <1>2, <1>4 DEF Blocks, Prp1
  <2>2. CASE size + off <= P
    BY <1>1, <1>2, <1>4, <2>1, <2>2 DEF HostAddr
  <2>3. CASE size + off > P
    <3>1. off = 0 /\ (size <= 2 * P \/ Pages(size) - 1 <= MaxPrpl)
      BY <1>1, <1>2, <1>4, <2>3 DEF Way
    <3>2. CASE size <= 2 * P
      <4>1. Prp2(b, n) = b + P
        BY <1>1, <1>2, <2>3, <3>1, <3>2 DEF Prp2, Way
      <4> QED
        BY <1>1, <1>2, <1>4, <2>1, <3>1, <3>2, <4>1 DEF HostAddr
    <3>3. CASE size > 2 * P
      <4> DEFINE r == k - P
                 q == r \div P
                 z == Pages(size)
      <4>1. CASE k < P
        BY <1>1, <1>2, <1>4, <2>1, <3>1, <4>1 DEF HostAddr
      <4>2. CASE k >= P
        <5>1. r \in Nat /\ q \in Nat /\ r = P * q + (r % P) /\ r % P \in Nat
          BY <1>1, <2>1, <4>2, DivMod
        <5>2. q + 2 <= z /\ z \in Nat
          <6>1. (q + 2) * P = P * q + 2 * P
            BY <1>1, <5>1, SMT
          <6>2. P * q \in Nat
            BY <1>1, <5>1, SMT
          <6>3. (q + 2) * P <= size + P - 1
            BY <1>1, <1>2, <2>1, <5>1, <6>1, <6>2
          <6>4. q + 2 <= (size + P - 1) \div P
            BY <1>1, <1>2, <5>1, <6>3, DivLower
          <6>5. (size + P - 1) \div P \in Nat
            BY <1>1, <1>2, DivMod
          <6> QED BY <6>4, <6>5 DEF Pages
        <5>3. Lesser(z - 1, MaxPrpl) = z - 1
          BY <3>1, <3>3, <1>1, <1>2, <5>2, GeometryAssumption DEF Lesser
        <5>4. ListEntries(b, n)[q] = b + (q + 1) * P
          BY <5>1, <5>2, <5>3 DEF ListEntries
        <5>5. HostAddr(b, Prp2(b, n), ListEntries(b, n), size, k)
                = ListEntries(b, n)[q] + (r % P)
          BY <1>1, <1>2, <2>1, <3>1, <3>3, <4>2 DEF HostAddr
        <5>6. (q + 1) * P = P * q + P
          BY <1>1, <5>1, SMT
        <5>7. P * q \in Nat
          BY <1>1, <5>1, SMT
        <5> HIDE DEF q
        <5> QED
          BY <1>1, <1>4, <2>1, <5>1, <5>4, <5>5, <5>6, <5>7
      <4> QED BY <1>1, <2>1, <4>1, <4>2
    <3> QED BY <1>1, <1>2, <3>2, <3>3
  <2> QED BY <1>1, <1>2, <2>2, <2>3
<1> QED BY <1>3, <1>4

\* A list of MaxPrpl entries describes every page but the first of a page aligned
\* buffer of MaxPrpl + 1 pages.
LEMMA Suffices ==
  ASSUME NEW b \in Nat, NEW n \in Nat, b % PageSize = 0,
         n * BlockSize <= (MaxPrpl + 1) * PageSize
  PROVE  Blocks(b, n) = Clamp(n)
<1> SUFFICES ASSUME Way(b, n) = "bounce" PROVE FALSE
  BY DEF Blocks
<1> DEFINE P    == PageSize
           size == Clamp(n) * BlockSize
           q    == (size + P - 1) \div P
<1>1. b \in Nat /\ n \in Nat /\ P \in Nat \ {0} /\ MaxPrpl \in Nat
  BY GeometryAssumption
<1>2. size \in Nat /\ size <= n * BlockSize /\ n * BlockSize \in Nat
  BY <1>1, ClampNat, MulMono, GeometryAssumption
<1>3. Pages(size) - 1 > MaxPrpl
  BY <1>1, <1>2 DEF Way, Pages
<1>4. q \in Nat /\ size + P - 1 = P * q + ((size + P - 1) % P)
      /\ (size + P - 1) % P \in Nat
  <2>1. size + P - 1 \in Nat
    BY <1>1, <1>2
  <2> HIDE DEF size
  <2> QED BY <1>1, <2>1, DivMod
<1>5. q >= MaxPrpl + 2
  BY <1>1, <1>3, <1>4 DEF Pages
<1> HIDE DEF q
<1>6. (MaxPrpl + 2) * P <= q * P /\ q * P = P * q
  BY <1>1, <1>4, <1>5, MulMono, SMT
<1>7. (MaxPrpl + 2) * P = (MaxPrpl + 1) * P + P /\ (MaxPrpl + 1) * P \in Nat
  BY <1>1, SMT
<1>8. P * q \in Nat
  BY <1>1, <1>4, SMT
<1> QED BY <1>1, <1>2, <1>4, <1>6, <1>7, <1>8

(***************************************************************************)
(* nvme_prpl_xfer                                                          *)
(***************************************************************************)
\* The call's arguments are naturals.
LEMMA PrpType == PrpSpec => [](base \in Nat /\ count \in Nat)
<1>1. PrpInit => base \in Nat /\ count \in Nat
  BY DEF PrpInit
<1>2. base \in Nat /\ count \in Nat /\ [PrpNext]_prpVars => (base \in Nat /\ count \in Nat)'
  BY DEF PrpNext, CallNextBuffer, CallNextCount, prpVars
<1> QED BY <1>1, <1>2, PTL DEF PrpSpec

\* For every buffer and count, the controller finds exactly the buffer's cells.
THEOREM DescribesBufferCorrect == PrpSpec => []DescribesBuffer
<1>1. base \in Nat /\ count \in Nat => DescribesBuffer
  BY Describes DEF DescribesBuffer, Size
<1> QED BY <1>1, PrpType, PTL

\* Requests "up to 64kb" go out in one command, for every page and block size.
THEOREM ListSufficesCorrect == PrpSpec => []ListSuffices
<1>1. base \in Nat /\ count \in Nat => ListSuffices
  BY Suffices DEF ListSuffices
<1> QED BY <1>1, PrpType, PTL

(***************************************************************************)
(* The block device                                                        *)
(***************************************************************************)

\* The namespace can transfer something, and a count of blocks fits u16.  Line 555
\* computes a maximum of 0 for an mdts that no controller should report, and the
\* buffer cache keeps a request far below 2^16 blocks.
Served ==
  /\ MaxReq > 0
  /\ \A r \in Requests : \A i \in DOMAIN r.bufs : r.bufs[i].length \div BlockSize < CountMod

\* The disk is registered with the block size of the namespace.
Registered == DiskBlock = BlockSize

\* The blocks of a buffer, and block x of buffer i of a request.
Sectors(b) == 0..(b.length \div BlockSize - 1)
InSg(r, i, x) == i \in DOMAIN r.bufs /\ x \in Sectors(r.bufs[i])

\* Buffers of a request are made of blocks, no two of which share an address in
\* memory or on the disk: each is a buffer of the cache, which holds one block.
Separate ==
  \A r \in Requests :
    /\ \A i \in DOMAIN r.bufs :
         r.bufs[i].length = (r.bufs[i].length \div BlockSize) * BlockSize
    /\ \A i, j \in DOMAIN r.bufs :
         i # j => \A x \in Sectors(r.bufs[i]), y \in Sectors(r.bufs[j]) :
                    /\ r.bufs[i].buffer + x * BlockSize # r.bufs[j].buffer + y * BlockSize
                    /\ r.bufs[i].block + x # r.bufs[j].block + y

\* Block x of buffer b holds what block x of its place on the disk holds.
BlockCopied(b, x) == host[b.buffer + x * BlockSize] = medium[b.block + x]

\* Block x of buffer i was transferred by an earlier command of the request.
Before(i, x) == i < sg \/ (i = sg /\ x < id)

\* The state of the loop.
Loop ==
  /\ host = [a \in HostBlocks |-> host[a]] /\ medium = [b \in DiskBlocks |-> medium[b]]
  /\ sg \in Nat \ {0} /\ id \in Nat
  /\ req \in Requests \cup {NoRequest}
  /\ pc = "loop" => /\ req \in Requests /\ req.op \in {"read", "write"} /\ ~done
                    /\ sg <= Len(req.bufs) => id <= Cnt
  /\ queue = "ok" => late = {}

\* What the commands of a request have copied so far.
SoFar ==
  queue = "ok" /\ (pc = "loop" \/ (done /\ req # NoRequest)) =>
    \A i, x : InSg(req, i, x) /\ (pc = "loop" => Before(i, x)) => BlockCopied(req.bufs[i], x)

\* The requests of Requests.
LEMMA Bufs ==
  ASSUME NEW r \in Requests, NEW i \in DOMAIN r.bufs
  PROVE  /\ r.bufs[i].block \in Nat /\ r.bufs[i].length \in Nat /\ r.bufs[i].buffer \in Nat
         /\ r.bufs[i].block * DiskBlock + r.bufs[i].length <= DiskSize
         /\ i \in Nat \ {0} /\ i <= Len(r.bufs)
<1>1. r.bufs \in Seq(SgBuffer)
  BY RequestAssumption
<1>2. r.bufs[i] \in SgBuffer /\ i \in Nat \ {0} /\ i <= Len(r.bufs)
  BY <1>1
<1> QED BY <1>2, RequestAssumption DEF SgBuffer

\* The loop index of nvmedisk_read and nvmedisk_write is inside the request's buffers.
LEMMA BufsDomain ==
  ASSUME NEW r \in Requests, NEW i \in Nat \ {0}
  PROVE  i <= Len(r.bufs) <=> i \in DOMAIN r.bufs
<1>1. r.bufs \in Seq(SgBuffer)
  BY RequestAssumption
<1> QED BY <1>1

\* Products with the block size are told apart by their first factor.
LEMMA Cancel ==
  ASSUME NEW x \in Nat, NEW y \in Nat
  PROVE  /\ x * BlockSize \in Nat /\ (x + y) * BlockSize = x * BlockSize + y * BlockSize
         /\ x # y => x * BlockSize # y * BlockSize
         /\ (x * BlockSize) \div BlockSize = x
  BY GeometryAssumption, SMT

\* Blocks of a buffer have addresses of HostBlocks, and places on the medium.
LEMMA InMemory ==
  ASSUME Registered, NEW r \in Requests, NEW i, NEW x, InSg(r, i, x)
  PROVE  /\ r.bufs[i].buffer + x * BlockSize \in BlocksOf(r.bufs[i])
         /\ r.bufs[i].buffer + x * BlockSize \in HostBlocks
         /\ r.bufs[i].block + x \in DiskBlocks
         /\ (r.bufs[i].block + x) * BlockSize \in (r.bufs[i].block * DiskBlock)
                        ..(r.bufs[i].block * DiskBlock + r.bufs[i].length - 1)
<1> DEFINE b == r.bufs[i]
           n == b.length
           q == n \div BlockSize
           k == b.block
<1>1. /\ b.buffer \in Nat /\ n \in Nat /\ k \in Nat /\ k * DiskBlock + n <= DiskSize
      /\ i \in DOMAIN r.bufs /\ q \in Nat
  BY Bufs, DivMod, GeometryAssumption DEF InSg
<1>0. x \in Nat /\ x < q
  BY <1>1 DEF InSg, Sectors
<1>2. BlockSize \in Nat \ {0} /\ DiskBlock = BlockSize /\ DiskSize \in Nat
  BY GeometryAssumption, RequestAssumption DEF Registered
<1>3. q \in Nat /\ n = BlockSize * q + (n % BlockSize) /\ n % BlockSize \in Nat
  BY <1>1, <1>2, DivMod
<1> HIDE DEF b, n, q, k
<1>4. q <= CeilDiv(n, BlockSize) /\ CeilDiv(n, BlockSize) \in Nat
  <2>1. n + BlockSize - 1 \in Nat
    BY <1>1, <1>2
  <2>2. q * BlockSize <= n + BlockSize - 1
    <3>1. q * BlockSize = BlockSize * q /\ BlockSize * q \in Nat
      BY <1>2, <1>3, SMT
    <3> QED BY <1>2, <1>3, <3>1
  <2> QED BY <1>2, <1>3, <2>1, <2>2, DivLower, DivMod DEF CeilDiv
<1>5. b.buffer + x * BlockSize \in BlocksOf(b)
  BY <1>0, <1>1, <1>3, <1>4 DEF BlocksOf, n
<1>6. b \in AllBuffers
  BY <1>1 DEF AllBuffers, b
<1>7. b.buffer + x * BlockSize \in HostBlocks
  BY <1>5, <1>6 DEF HostBlocks
<1>8. (x + 1) * BlockSize <= n /\ (x + 1) * BlockSize = x * BlockSize + BlockSize
      /\ x * BlockSize \in Nat
  <2>1. (x + 1) * BlockSize <= q * BlockSize /\ q * BlockSize = BlockSize * q
        /\ BlockSize * q \in Nat
    BY <1>0, <1>2, <1>3, MulMono, SMT
  <2>2. (x + 1) * BlockSize = x * BlockSize + BlockSize /\ x * BlockSize \in Nat
    BY <1>0, <1>1, <1>2, SMT
  <2> QED BY <1>1, <1>2, <1>3, <2>1, <2>2
<1>9. (k + x) * BlockSize = k * BlockSize + x * BlockSize /\ k * BlockSize \in Nat
  BY <1>0, <1>1, Cancel
<1>10. k + x \in DiskBlocks
  <2>1. (k + x + 1) * BlockSize = k * BlockSize + (x + 1) * BlockSize
    BY <1>0, <1>1, <1>2, SMT
  <2>2. (k + x + 1) * BlockSize <= DiskSize
    BY <1>0, <1>1, <1>2, <1>8, <1>9, <2>1
  <2>3. k + x + 1 <= DiskSize \div BlockSize /\ DiskSize \div BlockSize \in Nat
    BY <1>0, <1>1, <1>2, <2>2, DivLower, DivMod
  <2> QED BY <1>0, <1>1, <2>3 DEF DiskBlocks
<1>11. (k + x) * BlockSize \in (k * DiskBlock)..(k * DiskBlock + n - 1)
  BY <1>0, <1>1, <1>2, <1>8, <1>9
<1> QED BY <1>5, <1>7, <1>10, <1>11 DEF b, n, k

\* How many blocks a command asks for.
LEMMA BlocksBound ==
  ASSUME NEW b, NEW n \in Nat
  PROVE  /\ Blocks(b, n) \in Nat /\ Blocks(b, n) <= n
         /\ n > 0 /\ MaxReq > 0 => Blocks(b, n) > 0
<1>1. /\ Clamp(n) \in Nat /\ Clamp(n) <= n /\ (n > 0 /\ MaxReq > 0 => Clamp(n) > 0)
  BY GeometryAssumption DEF Clamp, Lesser
<1>2. PageSize \div BlockSize \in Nat /\ 1 <= PageSize \div BlockSize
  <2>1. 1 * BlockSize <= PageSize /\ PageSize \in Nat /\ BlockSize \in Nat \ {0}
    BY GeometryAssumption
  <2> QED BY <2>1, DivLower, DivMod
<1>3. Blocks(b, n) = Clamp(n) \/ Blocks(b, n) = Lesser(Clamp(n), PageSize \div BlockSize)
  BY DEF Blocks
<1> QED BY <1>1, <1>2, <1>3 DEF Lesser

\* The command of the next call stays inside its buffer.
LEMMA ThisInside ==
  ASSUME Loop, InBuffer
  PROVE  /\ req \in Requests /\ sg \in DOMAIN req.bufs /\ req.op \in {"read", "write"}
         /\ Buf.block \in Nat /\ Buf.buffer \in Nat /\ Cnt \in Nat /\ id < Cnt
         /\ ThisCmd.base = Buf.buffer + id * BlockSize /\ ThisCmd.lba = Buf.block + id
         /\ ThisCmd.base \in Nat /\ ThisCmd.lba \in Nat
         /\ ThisCmd.write = (req.op = "write")
         /\ ThisCmd.blocks \in Nat /\ id + ThisCmd.blocks <= Cnt
         /\ ThisCmd.way = Way(OpBuf, Remaining) /\ ThisCmd.blocks = Blocks(OpBuf, Remaining)
         /\ Remaining \in Nat /\ Remaining < CountMod
<1>1. /\ pc = "loop" /\ sg <= Len(req.bufs) /\ id < Cnt /\ id \in Nat /\ sg \in Nat \ {0}
      /\ req \in Requests /\ req.op \in {"read", "write"}
  BY DEF InBuffer, Loop
<1>2. sg \in DOMAIN req.bufs
  BY <1>1, BufsDomain
<1>3. Buf.block \in Nat /\ Buf.buffer \in Nat /\ Buf.length \in Nat
  BY <1>1, <1>2, Bufs DEF Buf
<1>4. Cnt \in Nat
  BY <1>3, DivMod, GeometryAssumption DEF Cnt
<1>5. Cnt - id \in Nat /\ CountMod \in Nat \ {0}
  BY <1>1, <1>4, GeometryAssumption
<1>6. Remaining \in Nat /\ Remaining < CountMod /\ Remaining <= Cnt - id
  <2> DEFINE x == Cnt - id
  <2>1. x \in Nat
    BY <1>5
  <2> HIDE DEF x
  <2>2. x % CountMod \in Nat /\ x % CountMod < CountMod /\ x % CountMod <= x
    BY <1>5, <2>1, SMT
  <2> QED BY <2>2 DEF Remaining, U16, x
<1>7. Blocks(OpBuf, Remaining) \in Nat /\ Blocks(OpBuf, Remaining) <= Remaining
  BY <1>6, BlocksBound
<1>8. /\ ThisCmd.base = OpBuf /\ ThisCmd.lba = Buf.block + id
      /\ ThisCmd.write = (req.op = "write")
      /\ ThisCmd.way = Way(OpBuf, Remaining) /\ ThisCmd.blocks = Blocks(OpBuf, Remaining)
  BY DEF ThisCmd, Cmd
<1>9. OpBuf \in Nat /\ OpBuf = Buf.buffer + id * BlockSize
  <2>1. id * BlockSize \in Nat
    BY <1>1, GeometryAssumption, MulMono
  <2> QED BY <1>3, <2>1 DEF OpBuf
<1>10. id + ThisCmd.blocks <= Cnt
  BY <1>1, <1>4, <1>6, <1>7, <1>8
<1> QED BY <1>1, <1>2, <1>3, <1>4, <1>6, <1>7, <1>8, <1>9, <1>10

\* The next call's command stays within its buffer's memory: it transfers as many
\* blocks as the call asked for, and a page list is the one it needs.
LEMMA ThisKeeps ==
  ASSUME Served, Loop, InBuffer
  PROVE  ~Strays(ThisCmd, ThisDma)
<1>1. /\ req \in Requests /\ sg \in DOMAIN req.bufs /\ Cnt \in Nat /\ id < Cnt /\ id \in Nat
      /\ ThisCmd.way = Way(OpBuf, Remaining) /\ ThisCmd.blocks = Blocks(OpBuf, Remaining)
      /\ Remaining \in Nat /\ Remaining < CountMod /\ ThisCmd.base = OpBuf
  BY ThisInside DEF Loop, ThisCmd, Cmd
<1>2. CountMod \in Nat \ {0} /\ MaxReq \in Nat /\ MaxReq > 0
  BY GeometryAssumption DEF Served
<1>3. Cnt < CountMod
  BY <1>1 DEF Served, Cnt, Buf
<1>4. Remaining = Cnt - id /\ Remaining > 0
  <2> DEFINE x == Cnt - id
  <2>1. x \in Nat /\ x > 0 /\ x < CountMod
    BY <1>1, <1>2, <1>3
  <2> HIDE DEF x
  <2>2. x % CountMod = x
    BY <1>2, <2>1, SMT
  <2> QED BY <2>1, <2>2 DEF Remaining, U16, x
<1>5. CmdBlocks(ThisCmd.blocks) = ThisCmd.blocks
  <2> DEFINE k == ThisCmd.blocks
             y == k - 1
  <2>1. k \in Nat /\ k > 0 /\ k <= Remaining
    BY <1>1, <1>2, <1>4, BlocksBound
  <2>2. y \in Nat /\ y < CountMod /\ y + 1 = k
    BY <1>1, <1>2, <2>1
  <2> HIDE DEF k, y
  <2>3. y % CountMod = y
    BY <1>2, <2>2, SMT
  <2>4. CmdBlocks(k) = k
    BY <2>2, <2>3 DEF CmdBlocks, U16, y
  <2> QED BY <2>4 DEF k
<1>6. ASSUME ThisCmd.way = "list" PROVE ThisDma.kind = "list" /\ ThisDma.base = ThisCmd.base
  <2>1. BuildsList(OpBuf, Remaining)
    <3> DEFINE size == Clamp(Remaining) * BlockSize
    <3>1. /\ ~(size + (OpBuf % PageSize) <= PageSize) /\ OpBuf % PageSize = 0
          /\ ~(size <= 2 * PageSize)
      BY <1>1, <1>6 DEF Way
    <3>2. size \in Nat /\ PageSize \in Nat
      BY <1>1, ClampNat, GeometryAssumption
    <3> QED BY <3>1, <3>2 DEF BuildsList
  <2>2. ThisDma = DmaList(OpBuf, Cardinality(DOMAIN ListEntries(OpBuf, Remaining)))
    BY <1>6, <2>1 DEF ThisDma, DmaBefore
  <2> QED BY <1>1, <2>2 DEF DmaList
<1> QED BY <1>5, <1>6 DEF Strays

\* What a command changes in memory.
HostOk(c, d) == CopyBack(c, HostAfter(c, d), DmaAfter(c, d))

\* Only a read changes memory, and only the blocks it is for.
LEMMA HostChange ==
  ASSUME NEW c, NEW d, NEW a \in HostBlocks, c.blocks \in Nat
  PROVE  /\ HostAfter(c, d)[a] # host[a] =>
              ~c.write /\ \E j \in 0..(c.blocks - 1) : a = c.base + j * BlockSize
         /\ HostOk(c, d)[a] # host[a] =>
              ~c.write /\ \E j \in 0..(c.blocks - 1) : a = c.base + j * BlockSize
<1>1. HostAfter(c, d)[a] # host[a] =>
        ~c.write /\ \E j \in 0..(c.blocks - 1) : a = c.base + j * BlockSize
  BY DEF HostAfter
<1>2. ASSUME HostOk(c, d)[a] # HostAfter(c, d)[a]
      PROVE  ~c.write /\ \E j \in 0..(c.blocks - 1) : a = c.base + j * BlockSize
  <2>1. /\ ~c.write /\ c.way = "bounce"
        /\ \E j \in DOMAIN DmaAfter(c, d).blocks : j < c.blocks /\ a = c.base + j * BlockSize
    BY <1>2 DEF HostOk, CopyBack
  <2>2. DmaAfter(c, d).blocks = [j \in 0..(c.blocks - 1) |-> medium[c.lba + j]]
    BY <2>1 DEF DmaAfter, DmaBlocks
  <2> QED BY <2>1, <2>2
<1> QED BY <1>1, <1>2

\* A read that does not go astray puts the blocks of the medium into the buffer.
LEMMA HostRead ==
  ASSUME NEW c, NEW d, c.blocks \in Nat, c.base \in Nat, ~c.write, ~Strays(c, d),
         NEW j \in 0..(c.blocks - 1), c.base + j * BlockSize \in HostBlocks
  PROVE  HostOk(c, d)[c.base + j * BlockSize] = medium[c.lba + j]
<1> DEFINE p == j * BlockSize
           a == c.base + p
<1>1. p \in Nat /\ p \div BlockSize = j /\ j \in Nat /\ j < c.blocks
  <2>1. j \in Nat /\ j < c.blocks
    OBVIOUS
  <2> QED BY <2>1, Cancel
<1>2. a - c.base = p
  <2> HIDE DEF p
  <2> QED BY <1>1
<1>3. (a - c.base) \div BlockSize = j
  BY <1>1, <1>2
<1>4. CASE c.way = "bounce"
  <2>1. DmaAfter(c, d) = DmaBlocks([x \in 0..(c.blocks - 1) |-> medium[c.lba + x]])
    BY <1>4 DEF DmaAfter
  <2> DEFINE f == [x \in 0..(c.blocks - 1) |-> medium[c.lba + x]]
  <2>2. DmaAfter(c, d).kind = "blocks" /\ DmaAfter(c, d).blocks = f
    BY <2>1 DEF DmaBlocks
  <2>3. j \in DOMAIN f /\ f[j] = medium[c.lba + j]
    OBVIOUS
  <2> HIDE DEF f
  <2>4. HostOk(c, d)[a] = f[(a - c.base) \div BlockSize]
    BY <1>1, <1>4, <2>2, <2>3 DEF HostOk, CopyBack
  <2> QED BY <1>3, <2>3, <2>4
<1>5. CASE c.way # "bounce"
  <2>1. HostOk(c, d)[a] = HostAfter(c, d)[a]
    BY <1>5 DEF HostOk, CopyBack
  <2>2. HostAfter(c, d)[a] = medium[c.lba + ((a - c.base) \div BlockSize)]
    BY <1>5 DEF HostAfter
  <2> QED BY <1>3, <2>1, <2>2
<1> QED BY <1>4, <1>5

\* What a command changes on the medium.
LEMMA MediumChange ==
  ASSUME NEW c, NEW d, NEW b \in DiskBlocks
  PROVE  MediumAfter(c, d)[b] # medium[b] => c.write /\ b \in c.lba..(c.lba + c.blocks - 1)
  BY DEF MediumAfter, Covers

\* A write puts the blocks of the buffer onto the medium.
LEMMA MediumWrite ==
  ASSUME Served, Loop, InBuffer, req.op = "write",
         NEW j \in 0..(ThisCmd.blocks - 1), ThisCmd.lba + j \in DiskBlocks
  PROVE  MediumAfter(ThisCmd, ThisDma)[ThisCmd.lba + j] = host[ThisCmd.base + j * BlockSize]
<1> DEFINE c == ThisCmd
           d == ThisDma
           b == c.lba + j
<1>1. /\ c.write /\ c.blocks \in Nat /\ c.lba \in Nat /\ j \in Nat /\ b - c.lba = j
      /\ Covers(c, b) /\ c.base = OpBuf
  <2>1. c.write /\ c.blocks \in Nat /\ c.lba \in Nat /\ c.base = OpBuf
    BY ThisInside DEF ThisCmd, Cmd
  <2> HIDE DEF c
  <2>2. j \in Nat /\ b - c.lba = j /\ Covers(c, b)
    BY <2>1 DEF Covers, c
  <2> QED BY <2>1, <2>2
<1>2. ~Strays(c, d)
  BY ThisKeeps
<1>3. MediumAfter(c, d)[b] = Fetched(c, d, b)
  BY <1>1, <1>2 DEF MediumAfter
<1>4. CASE c.way = "bounce"
  <2> DEFINE f == [x \in 0..(c.blocks - 1) |-> host[OpBuf + x * BlockSize]]
  <2>1. d = DmaBlocks(f)
    BY <1>1, <1>4 DEF ThisDma, DmaBefore
  <2>2. d.kind = "blocks" /\ d.blocks = f
    BY <2>1 DEF DmaBlocks
  <2>3. j \in DOMAIN f /\ f[j] = host[OpBuf + j * BlockSize]
    OBVIOUS
  <2> HIDE DEF f
  <2>4. Fetched(c, d, b) = f[j]
    BY <1>1, <1>4, <2>2, <2>3 DEF Fetched
  <2> QED BY <1>1, <1>3, <2>3, <2>4
<1>5. CASE c.way # "bounce"
  BY <1>1, <1>3, <1>5 DEF Fetched
<1> QED BY <1>4, <1>5

\* The block count of a buffer is a number.
LEMMA CntNat ==
  ASSUME NEW r \in Requests, NEW s \in Nat \ {0}, s <= Len(r.bufs)
  PROVE  r.bufs[s].length \div BlockSize \in Nat
<1>1. r.bufs[s].length \in Nat
  BY BufsDomain, Bufs
<1> QED BY <1>1, DivMod, GeometryAssumption

\* The steps inside a buffer.
LEMMA XferStep ==
  ASSUME Loop, Xfer
  PROVE  /\ Loop' /\ InBuffer /\ UNCHANGED <<req, sg, done, issued>>
         /\ queue' = "ok" => queue = "ok"
<1>1. InBuffer
  BY DEF Xfer, XferMisaligned, XferOk, XferError, XferTimeout, XferNull, XferShifted
<1>2. UNCHANGED <<req, sg, done, issued>>
  BY DEF Xfer, XferMisaligned, XferOk, XferError, XferTimeout, XferNull, XferShifted
<1>3. /\ queue' = "ok" => queue = "ok" /\ late' = late
  BY DEF Xfer, XferMisaligned, XferOk, XferError, XferTimeout, XferNull, XferShifted
<1>4. /\ host' = [a \in HostBlocks |-> host'[a]] /\ medium' = [b \in DiskBlocks |-> medium'[b]]
  BY DEF Loop, Xfer, XferMisaligned, XferOk, XferError, XferTimeout, XferNull, XferShifted,
         HostAfter, CopyBack, MediumAfter
<1>5. Advance \/ (pc' # "loop" /\ id' = id)
  BY DEF Xfer, XferMisaligned, XferOk, XferError, XferTimeout, XferNull, XferShifted, Abandon
<1>6. id' \in Nat /\ (pc' = "loop" => pc = "loop" /\ id' <= Cnt)
  <2>1. CASE Advance
    <3>1. id' = id + ThisCmd.blocks /\ pc' = pc
      BY <2>1 DEF Advance
    <3> QED BY <1>1, <3>1, ThisInside DEF Loop
  <2>2. CASE pc' # "loop" /\ id' = id
    BY <2>2 DEF Loop
  <2> QED BY <1>5, <2>1, <2>2
<1>7. Cnt' = Cnt
  BY <1>2 DEF Cnt, Buf
<1> QED BY <1>1, <1>2, <1>3, <1>4, <1>6, <1>7 DEF Loop

\* The state of the loop stays what it is.
LEMMA LoopStep ==
  ASSUME Loop, [Next]_vars
  PROVE  Loop'
<1>1. ASSUME NEW r \in Requests, Ioctl(r) PROVE Loop'
  <2>1. /\ req' = r /\ sg' = 1 /\ id' = 0 /\ ~done' /\ UNCHANGED <<host, medium, queue, late>>
        /\ pc' = "loop" => r.op \in {"read", "write"}
    BY <1>1 DEF Ioctl
  <2>2. 1 <= Len(r.bufs) => 0 <= r.bufs[1].length \div BlockSize
    BY CntNat
  <2> QED BY <2>1, <2>2 DEF Loop, Cnt, Buf
<1>2. CASE NextBuffer
  <2>1. /\ pc = "loop" /\ sg' = sg + 1 /\ id' = 0
        /\ UNCHANGED <<host, medium, pc, req, done, queue, late>>
    BY <1>2 DEF NextBuffer
  <2>2. req \in Requests /\ sg + 1 \in Nat \ {0} /\ sg' \in Nat \ {0}
    BY <2>1 DEF Loop
  <2>3. sg + 1 <= Len(req.bufs) => 0 <= req.bufs[sg + 1].length \div BlockSize
    BY <2>2, CntNat
  <2>4. Cnt' = req.bufs[sg + 1].length \div BlockSize
    BY <2>1 DEF Cnt, Buf
  <2> QED BY <2>1, <2>2, <2>3, <2>4 DEF Loop
<1>3. CASE RequestDone
  <2>1. pc' = "idle" /\ UNCHANGED <<host, medium, req, sg, id, queue, late>>
    BY <1>3 DEF RequestDone
  <2> QED BY <2>1 DEF Loop
<1>4. CASE LateRun
  <2>1. PICK c \in late : /\ host' = HostAfter(c, dma) /\ medium' = MediumAfter(c, dma)
                          /\ UNCHANGED <<pc, req, sg, id, done, queue>>
    BY <1>4 DEF LateRun
  <2>2. queue # "ok" /\ Cnt' = Cnt
    BY <2>1 DEF Loop, Cnt, Buf
  <2>3. /\ host' = [a \in HostBlocks |-> host'[a]] /\ medium' = [b \in DiskBlocks |-> medium'[b]]
    BY <2>1 DEF HostAfter, MediumAfter
  <2> QED BY <2>1, <2>2, <2>3 DEF Loop
<1>5. CASE UNCHANGED vars
  BY <1>5 DEF vars, Loop, Cnt, Buf
<1> QED BY <1>1, <1>2, <1>3, <1>4, <1>5, XferStep DEF Next, Serve

\* Loop holds throughout.
LEMMA LoopInv == Spec => []Loop
<1>1. Init => Loop
  BY DEF Init, Loop
<1>2. Loop /\ [Next]_vars => Loop'
  BY LoopStep
<1> QED BY <1>1, <1>2, PTL DEF Spec

\* While every command gets its own answer no command touches memory outside the
\* buffer it was given, for every geometry, set of requests and number of requests.
THEOREM NoStrayCorrect ==
  ASSUME Served PROVE Spec => []NoStray
<1>1. Init => NoStray
  BY DEF Init, NoStray
<1>2. Loop /\ NoStray /\ [Next]_vars => NoStray'
  <2> SUFFICES ASSUME Loop, NoStray, [Next]_vars, queue' = "ok" PROVE ~wild'
    BY DEF NoStray
  <2>1. CASE Xfer
    <3>1. InBuffer /\ queue = "ok" /\ ~wild
      BY <2>1, XferStep DEF NoStray
    <3>2. wild' = wild \/ wild' = (wild \/ Strays(ThisCmd, ThisDma))
      BY <2>1, <3>1 DEF Xfer, XferMisaligned, XferOk, XferError, XferTimeout, XferNull, XferShifted
    <3> QED BY <3>1, <3>2, ThisKeeps
  <2>2. CASE LateRun
    BY <2>2 DEF LateRun, Loop
  <2>3. CASE \E r \in Requests : Ioctl(r)
    BY <2>3 DEF Ioctl, NoStray
  <2>4. CASE NextBuffer \/ RequestDone \/ UNCHANGED vars
    BY <2>4 DEF NextBuffer, RequestDone, vars, NoStray
  <2> QED BY <2>1, <2>2, <2>3, <2>4 DEF Next, Serve
<1> QED BY <1>1, <1>2, LoopInv, PTL DEF Spec

\* What changes in memory and on the medium belongs to the command of the step.
LEMMA XferChange ==
  ASSUME Loop, Xfer, queue' = "ok"
  PROVE  /\ \A a \in HostBlocks : host'[a] # host[a] =>
              req.op = "read" /\ \E j \in 0..(ThisCmd.blocks - 1) :
                                   a = Buf.buffer + (id + j) * BlockSize
         /\ \A b \in DiskBlocks : medium'[b] # medium[b] =>
              req.op = "write" /\ \E j \in 0..(ThisCmd.blocks - 1) : b = Buf.block + (id + j)
<1>0. /\ InBuffer /\ queue = "ok" /\ req.op \in {"read", "write"}
      /\ ThisCmd.write = (req.op = "write") /\ ThisCmd.blocks \in Nat
      /\ ThisCmd.base = Buf.buffer + id * BlockSize /\ ThisCmd.lba = Buf.block + id
      /\ Buf.buffer \in Nat /\ Buf.block \in Nat /\ id \in Nat
  BY XferStep, ThisInside DEF Loop
<1> DEFINE c == ThisCmd
           d == ThisDma
<1>1. /\ host' \in {host, HostAfter(c, d), HostOk(c, d)}
      /\ medium' \in {medium, MediumAfter(c, d)}
  BY <1>0 DEF Xfer, XferMisaligned, XferOk, XferError, XferTimeout, XferNull, XferShifted, HostOk
<1>2. ASSUME NEW j \in 0..(c.blocks - 1)
      PROVE  /\ c.base + j * BlockSize = Buf.buffer + (id + j) * BlockSize
             /\ c.lba + j = Buf.block + (id + j)
  <2>1. j \in Nat /\ id \in Nat
    BY <1>0
  <2>2. /\ (id + j) * BlockSize = id * BlockSize + j * BlockSize
        /\ id * BlockSize \in Nat /\ j * BlockSize \in Nat
    BY <2>1, Cancel
  <2> QED BY <1>0, <2>1, <2>2
<1> HIDE DEF c, d
<1>3. ASSUME NEW a \in HostBlocks, host'[a] # host[a]
      PROVE  req.op = "read" /\ \E j \in 0..(c.blocks - 1) :
                                  a = Buf.buffer + (id + j) * BlockSize
  <2>1. ~c.write /\ \E j \in 0..(c.blocks - 1) : a = c.base + j * BlockSize
    BY <1>0, <1>1, <1>3, HostChange DEF c
  <2> QED BY <1>0, <1>2, <2>1 DEF c
<1>4. ASSUME NEW b \in DiskBlocks, medium'[b] # medium[b]
      PROVE  req.op = "write" /\ \E j \in 0..(c.blocks - 1) : b = Buf.block + (id + j)
  <2>1. c.write /\ b \in c.lba..(c.lba + c.blocks - 1)
    BY <1>1, <1>4, MediumChange
  <2>2. b - c.lba \in 0..(c.blocks - 1) /\ b = c.lba + (b - c.lba)
    BY <1>0, <2>1 DEF c
  <2> QED BY <1>0, <1>2, <2>1, <2>2 DEF c
<1> QED BY <1>3, <1>4 DEF c

\* While every command gets its own answer a read leaves the medium alone, a write
\* leaves memory alone, and neither touches blocks outside its request.
THEOREM OnlyTheRequestCorrect ==
  ASSUME Registered PROVE Spec => OnlyTheRequest
<1> DEFINE A == queue' = "ok" =>
       /\ \A a \in HostBlocks : host'[a] # host[a] => req.op = "read" /\ Mine(a)
       /\ \A b \in DiskBlocks : medium'[b] # medium[b] => req.op = "write" /\ MyLba(b)
<1>1. Loop /\ [Next]_vars => [A]_vars
  <2> SUFFICES ASSUME Loop, Next, queue' = "ok"
               PROVE  /\ \A a \in HostBlocks : host'[a] # host[a] => req.op = "read" /\ Mine(a)
                      /\ \A b \in DiskBlocks : medium'[b] # medium[b] => req.op = "write" /\ MyLba(b)
    OBVIOUS
  <2>1. CASE Xfer
    <3>1. /\ InBuffer /\ req \in Requests /\ sg \in DOMAIN req.bufs /\ Cnt \in Nat /\ id \in Nat
          /\ ThisCmd.blocks \in Nat /\ id + ThisCmd.blocks <= Cnt
      BY <2>1, XferStep, ThisInside DEF Loop
    <3>2. ASSUME NEW j \in 0..(ThisCmd.blocks - 1)
          PROVE  InSg(req, sg, id + j)
      BY <3>1 DEF InSg, Sectors, Cnt, Buf
    <3>3. ASSUME NEW j \in 0..(ThisCmd.blocks - 1)
          PROVE  /\ Mine(Buf.buffer + (id + j) * BlockSize)
                 /\ MyLba(Buf.block + (id + j))
      <4> DEFINE x == id + j
      <4>1. InSg(req, sg, x)
        BY <3>2
      <4> HIDE DEF x
      <4>2. /\ Buf.buffer + x * BlockSize \in BlocksOf(req.bufs[sg])
            /\ (Buf.block + x) * BlockSize \in (req.bufs[sg].block * DiskBlock)
                        ..(req.bufs[sg].block * DiskBlock + req.bufs[sg].length - 1)
        BY <3>1, <4>1, InMemory DEF Buf
      <4>3. Mine(Buf.buffer + x * BlockSize) /\ MyLba(Buf.block + x)
        BY <3>1, <4>2 DEF Mine, MyLba
      <4> QED BY <4>3 DEF x
    <3> QED BY <2>1, <3>3, XferChange
  <2>2. CASE LateRun
    BY <2>2 DEF LateRun, Loop
  <2>3. CASE \E r \in Requests : Ioctl(r)
    BY <2>3 DEF Ioctl
  <2>4. CASE NextBuffer \/ RequestDone
    BY <2>4 DEF NextBuffer, RequestDone
  <2> QED BY <2>1, <2>2, <2>3, <2>4 DEF Next, Serve
<1> QED BY <1>1, LoopInv, PTL DEF Spec, OnlyTheRequest

\* A command that was answered copies its own blocks, and disturbs none that an
\* earlier command of the request copied.
LEMMA OkCopies ==
  ASSUME Served, Registered, Separate, Loop, SoFar, XferOk,
         NEW i, NEW x, InSg(req, i, x), Before(i, x)'
  PROVE  BlockCopied(req.bufs[i], x)'
<1> DEFINE c == ThisCmd
           d == ThisDma
           addr == req.bufs[i].buffer + x * BlockSize
           lba  == req.bufs[i].block + x
<1>1. /\ queue = "ok" /\ queue' = "ok" /\ pc = "loop" /\ UNCHANGED <<req, sg>>
      /\ host' = HostOk(c, d) /\ medium' = MediumAfter(c, d) /\ id' = id + c.blocks
  BY DEF XferOk, InBuffer, HostOk, Advance
<1>2. /\ InBuffer /\ req \in Requests /\ sg \in DOMAIN req.bufs /\ req.op \in {"read", "write"}
      /\ Buf.block \in Nat /\ Buf.buffer \in Nat /\ Cnt \in Nat /\ id \in Nat
      /\ c.base = Buf.buffer + id * BlockSize /\ c.lba = Buf.block + id
      /\ c.base \in Nat /\ c.lba \in Nat /\ c.write = (req.op = "write")
      /\ c.blocks \in Nat /\ id + c.blocks <= Cnt
  BY XferStep, ThisInside DEF Loop, Xfer
<1>3. ~Strays(c, d)
  BY <1>2, ThisKeeps
<1>4. /\ \A a \in HostBlocks : host'[a] # host[a] =>
           req.op = "read" /\ \E j \in 0..(c.blocks - 1) : a = Buf.buffer + (id + j) * BlockSize
      /\ \A b \in DiskBlocks : medium'[b] # medium[b] =>
           req.op = "write" /\ \E j \in 0..(c.blocks - 1) : b = Buf.block + (id + j)
  BY <1>1, XferChange DEF Xfer
<1>5. /\ x \in Nat /\ i \in Nat /\ i \in DOMAIN req.bufs /\ sg \in Nat
      /\ addr \in HostBlocks /\ lba \in DiskBlocks
  <2>1. i \in DOMAIN req.bufs /\ x \in Nat
    BY DEF InSg, Sectors
  <2> QED BY <1>2, <2>1, InMemory, Bufs
<1>6. BlockCopied(req.bufs[i], x)' = (host'[addr] = medium'[lba])
  BY <1>1 DEF BlockCopied
<1> HIDE DEF c, d
<1>7. CASE Before(i, x)
  <2>1. host[addr] = medium[lba]
    BY <1>1, <1>7 DEF SoFar, BlockCopied
  <2>2. ASSUME NEW j \in 0..(c.blocks - 1)
        PROVE  addr # Buf.buffer + (id + j) * BlockSize /\ lba # Buf.block + (id + j)
    <3> DEFINE y == id + j
    <3>1. y \in Nat /\ y >= id /\ InSg(req, sg, y)
      BY <1>2, <2>2 DEF InSg, Sectors, Cnt, Buf
    <3> HIDE DEF y
    <3>2. CASE i # sg
      <4>1. x \in Sectors(req.bufs[i]) /\ y \in Sectors(req.bufs[sg])
        BY <3>1 DEF InSg
      <4> QED BY <1>2, <1>5, <3>2, <4>1 DEF Separate, Buf, y
    <3>3. CASE i = sg
      <4>1. x < id /\ x # y
        BY <1>2, <1>5, <1>7, <3>1, <3>3 DEF Before
      <4>2. x * BlockSize # y * BlockSize /\ x * BlockSize \in Nat /\ y * BlockSize \in Nat
        BY <1>5, <3>1, <4>1, Cancel
      <4> QED BY <1>2, <1>5, <3>1, <3>3, <4>1, <4>2 DEF Buf, y
    <3> QED BY <3>2, <3>3
  <2>3. host'[addr] = host[addr] /\ medium'[lba] = medium[lba]
    BY <1>4, <1>5, <2>2
  <2> QED BY <1>6, <2>1, <2>3
<1>8. CASE ~Before(i, x)
  <2> DEFINE j == x - id
  <2>1. i = sg /\ x < id + c.blocks /\ ~(x < id)
    BY <1>1, <1>2, <1>5, <1>8 DEF Before
  <2>2. j \in 0..(c.blocks - 1) /\ id + j = x /\ j \in Nat
    BY <1>2, <1>5, <2>1
  <2>3. addr = c.base + j * BlockSize /\ lba = c.lba + j
    <3>1. /\ (id + j) * BlockSize = id * BlockSize + j * BlockSize
          /\ id * BlockSize \in Nat /\ j * BlockSize \in Nat
      <4> HIDE DEF j
      <4> QED BY <1>2, <2>2, Cancel
    <3> HIDE DEF j
    <3> QED BY <1>2, <2>1, <2>2, <3>1 DEF Buf
  <2> HIDE DEF j
  <2>4. CASE req.op = "read"
    <3>1. host'[addr] = medium[lba]
      <4>1. ~c.write /\ c.base + j * BlockSize \in HostBlocks
        BY <1>2, <1>5, <2>3, <2>4
      <4> HIDE DEF addr, lba
      <4>2. HostOk(c, d)[c.base + j * BlockSize] = medium[c.lba + j]
        BY <1>2, <1>3, <2>2, <4>1, HostRead
      <4> QED BY <1>1, <2>3, <4>2
    <3>2. medium'[lba] = medium[lba]
      BY <1>4, <1>5, <2>4
    <3> QED BY <1>6, <3>1, <3>2
  <2>5. CASE req.op = "write"
    <3>1. medium'[lba] = host[addr]
      BY <1>1, <1>2, <1>5, <2>2, <2>3, <2>5, MediumWrite DEF c, d
    <3>2. host'[addr] = host[addr]
      BY <1>4, <1>5, <2>5
    <3> QED BY <1>6, <3>1, <3>2
  <2> QED BY <1>2, <2>4, <2>5
<1> QED BY <1>7, <1>8

\* Every step keeps what was copied.
LEMMA SoFarStep ==
  ASSUME Served, Registered, Separate, Loop, SoFar, [Next]_vars
  PROVE  SoFar'
<1>1. ASSUME NEW r \in Requests, Ioctl(r) PROVE SoFar'
  <2> SUFFICES ASSUME pc' = "loop", NEW i, NEW x, InSg(r, i, x), Before(i, x)' PROVE FALSE
    BY <1>1 DEF Ioctl, SoFar
  <2>1. x \in Nat /\ i \in Nat \ {0}
    BY Bufs DEF InSg, Sectors
  <2>2. sg' = 1 /\ id' = 0
    BY <1>1 DEF Ioctl
  <2> QED BY <2>1, <2>2 DEF Before
<1>2. CASE NextBuffer
  <2>1. /\ pc = "loop" /\ sg <= Len(req.bufs) /\ id >= Cnt /\ sg' = sg + 1 /\ id' = 0
        /\ UNCHANGED <<host, medium, pc, req, done, queue>>
    BY <1>2 DEF NextBuffer
  <2> SUFFICES ASSUME queue = "ok", NEW i, NEW x, InSg(req, i, x), Before(i, x)'
               PROVE  BlockCopied(req.bufs[i], x)
    BY <2>1 DEF SoFar, BlockCopied
  <2>2. req \in Requests /\ sg \in Nat /\ id \in Nat /\ i \in Nat \ {0} /\ x \in Nat
    BY <2>1, Bufs DEF Loop, InSg, Sectors
  <2>3. i < sg \/ (i = sg /\ x < Cnt)
    <3>1. i < sg + 1
      BY <2>1, <2>2 DEF Before
    <3>2. i = sg => x < Cnt
      <4>1. ASSUME i = sg PROVE Cnt \in Nat
        BY <2>1, <2>2, <4>1, CntNat DEF Cnt, Buf
      <4> QED BY <2>2, <4>1 DEF InSg, Sectors, Cnt, Buf
    <3> QED BY <2>2, <3>1, <3>2
  <2>4. Before(i, x)
    <3>1. i = sg => Cnt \in Nat
      BY <2>1, <2>2, CntNat DEF Cnt, Buf
    <3> QED BY <2>1, <2>2, <2>3, <3>1 DEF Before
  <2> QED BY <2>1, <2>4 DEF SoFar
<1>3. CASE RequestDone
  <2>1. /\ pc = "loop" /\ sg > Len(req.bufs) /\ UNCHANGED <<host, medium, req, queue>>
        /\ pc' = "idle"
    BY <1>3 DEF RequestDone
  <2> SUFFICES ASSUME queue = "ok", NEW i, NEW x, InSg(req, i, x)
               PROVE  BlockCopied(req.bufs[i], x)
    BY <2>1 DEF SoFar, BlockCopied
  <2>2. req \in Requests /\ sg \in Nat /\ i \in Nat /\ i <= Len(req.bufs)
    BY <2>1, Bufs DEF Loop, InSg
  <2>3. Len(req.bufs) \in Nat
    BY <2>2, RequestAssumption
  <2>4. Before(i, x)
    BY <2>1, <2>2, <2>3 DEF Before
  <2> QED BY <2>1, <2>4 DEF SoFar
<1>4. CASE XferOk
  <2>1. pc' = "loop" /\ req' = req /\ queue' = "ok"
    BY <1>4 DEF XferOk, InBuffer, Advance
  <2>2. ASSUME NEW i, NEW x, InSg(req, i, x), Before(i, x)'
        PROVE  BlockCopied(req.bufs[i], x)'
    BY <1>4, <2>2, OkCopies
  <2> QED BY <2>1, <2>2 DEF SoFar
<1>5. CASE XferMisaligned \/ XferError
  <2>1. pc' = "idle" /\ done' = done /\ pc = "loop"
    BY <1>5 DEF XferMisaligned, XferError, Abandon, InBuffer
  <2> QED BY <2>1 DEF SoFar, Loop
<1>6. CASE XferTimeout \/ XferNull \/ XferShifted
  <2>1. queue' # "ok"
    BY <1>6 DEF XferTimeout, XferNull, XferShifted
  <2> QED BY <2>1 DEF SoFar
<1>7. CASE LateRun
  <2>1. queue' # "ok"
    BY <1>7 DEF LateRun, Loop
  <2> QED BY <2>1 DEF SoFar
<1>8. CASE UNCHANGED vars
  BY <1>8 DEF vars, SoFar, Before, BlockCopied
<1> QED BY <1>1, <1>2, <1>3, <1>4, <1>5, <1>6, <1>7, <1>8 DEF Next, Serve, Xfer

\* Where all blocks are copied, all cells are.
LEMMA CellsCopied ==
  ASSUME Registered, Separate, NEW r \in Requests,
         \A i, x : InSg(r, i, x) => BlockCopied(r.bufs[i], x)
  PROVE  Copied(r)
<1> SUFFICES ASSUME NEW i \in DOMAIN r.bufs, NEW k \in 0..(r.bufs[i].length - 1)
             PROVE  HostCell(r.bufs[i], k) = DiskCell(r.bufs[i], k)
  BY DEF Copied
<1> DEFINE b == r.bufs[i]
           n == b.length
           x == k \div BlockSize
           z == k % BlockSize
           q == n \div BlockSize
           o == b.block
<1>1. /\ o \in Nat /\ n \in Nat /\ BlockSize \in Nat \ {0} /\ DiskBlock = BlockSize
      /\ n = q * BlockSize
  BY Bufs, GeometryAssumption DEF Registered, Separate
<1>2. k \in Nat /\ k < n
  BY <1>1
<1>3. /\ x \in Nat /\ z \in Nat /\ z < BlockSize /\ k = BlockSize * x + z
      /\ q \in Nat
  BY <1>1, <1>2, DivMod
<1>4. x < q
  <2> HIDE DEF n, x, z, q
  <2> SUFFICES ASSUME q <= x PROVE FALSE
    BY <1>3
  <2>1. q * BlockSize <= x * BlockSize /\ x * BlockSize = BlockSize * x /\ BlockSize * x \in Nat
        /\ q * BlockSize \in Nat
    BY <1>1, <1>3, MulMono, SMT
  <2> QED BY <1>1, <1>2, <1>3, <2>1
<1>5. InSg(r, i, x)
  BY <1>3, <1>4 DEF InSg, Sectors
<1>6. host[b.buffer + x * BlockSize] = medium[o + x]
  BY <1>5 DEF BlockCopied
<1>7. (o * DiskBlock + k) \div BlockSize = o + x /\ (o * DiskBlock + k) % BlockSize = z
  <2> DEFINE y == o + x
             a == o * BlockSize + k
  <2>1. y \in Nat /\ a = BlockSize * y + z /\ a \in Nat
    <3> HIDE DEF o, x, z
    <3>1. /\ BlockSize * y = o * BlockSize + BlockSize * x
          /\ o * BlockSize \in Nat /\ BlockSize * x \in Nat
      BY <1>1, <1>3, SMT
    <3> QED BY <1>2, <1>3, <1>1, <3>1
  <2> HIDE DEF o, x, z, y, a
  <2>2. a \div BlockSize = y /\ a % BlockSize = z
    BY <1>1, <1>3, <2>1, Quotient
  <2> QED BY <1>1, <2>2 DEF y, a
<1> HIDE DEF x, z, o
<1>8. HostCell(b, k) = <<host[b.buffer + x * BlockSize], z>>
  BY DEF HostCell, x, z
<1>9. DiskCell(b, k) = <<medium[o + x], z>>
  BY <1>7 DEF DiskCell, o
<1> QED BY <1>6, <1>8, <1>9

\* A request that is completed while every command gets its own answer copied
\* every cell of its buffers, however the loop cut it up and whichever of its four
\* ways nvme_prpl_xfer took, for every geometry and set of requests.
THEOREM CopiedWhileAnsweredCorrect ==
  ASSUME Served, Registered, Separate PROVE Spec => []CopiedWhileAnswered
<1>1. Init => SoFar
  BY DEF Init, SoFar
<1>2. Loop /\ SoFar /\ [Next]_vars => SoFar'
  BY SoFarStep
<1>3. Loop /\ SoFar => CopiedWhileAnswered
  <2> SUFFICES ASSUME Loop, SoFar, queue = "ok", done, req # NoRequest PROVE Copied(req)
    BY DEF CopiedWhileAnswered
  <2>1. req \in Requests /\ pc # "loop"
    BY DEF Loop
  <2>2. \A i, x : InSg(req, i, x) => BlockCopied(req.bufs[i], x)
    BY <2>1 DEF SoFar
  <2> QED BY <2>1, <2>2, CellsCopied
<1> QED BY <1>1, <1>2, <1>3, LoopInv, PTL DEF Spec

=============================================================================
