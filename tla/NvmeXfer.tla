------------------------------ MODULE NvmeXfer ------------------------------
(***************************************************************************)
(* How nvme_prpl_xfer describes a host buffer to the controller            *)
(* (hello/nvme-bsp.h), and how a controller reads that description.        *)
(*                                                                         *)
(* Addresses and sizes are counted in cells.  A command names its buffer   *)
(* by PRP1, an address anywhere in a page, and PRP2, which is absent, the  *)
(* address of a second page, or the address of a list of page addresses    *)
(* kept in nvme_dma_buffer.                                                *)
(***************************************************************************)
EXTENDS Integers

CONSTANTS
  PageSize,   \* NVME_PAGE_SIZE
  Align,      \* alignment nvme_io_xfer asks of PRP1 and PRP2
  BlockSize,  \* ns->block_size
  MaxReq,     \* ns->max_req_size, in blocks
  MaxPrpl,    \* NVME_MAX_PRPL_ENTRIES
  CountMod,   \* 2^16: block counts are u16
  DmaBuffer   \* address of the page nvme_dma_buffer

ASSUME GeometryAssumption ==
  /\ PageSize \in Nat \ {0} /\ Align \in Nat \ {0}
  /\ BlockSize \in Nat \ {0} /\ BlockSize <= PageSize /\ PageSize % BlockSize = 0
  /\ MaxReq \in Nat /\ MaxPrpl \in 1..PageSize
  /\ CountMod \in Nat \ {0}
  /\ DmaBuffer \in Nat /\ DmaBuffer % PageSize = 0 /\ PageSize % Align = 0

\* (u16) x
U16(x) == x % CountMod

Lesser(a, b) == IF a < b THEN a ELSE b

\* Pages that a page aligned transfer of that size touches: the turns of the
\* loop that builds the list.
Pages(size) == (size + PageSize - 1) \div PageSize

\* The count after "if (count > ns->max_req_size) count = ns->max_req_size".
Clamp(count) == Lesser(count, MaxReq)

\* Mutant: the list is given up one entry too early.
WayShortList(base, count) ==
  LET size == Clamp(count) * BlockSize
      off  == base % PageSize
  IN IF size + off <= PageSize THEN "single"
     ELSE IF off # 0 THEN "bounce"
     ELSE IF size <= 2 * PageSize THEN "two"
     ELSE IF Pages(size) - 1 < MaxPrpl THEN "list"
     ELSE "bounce"

(***************************************************************************)
(* Which of its four ways nvme_prpl_xfer takes for a buffer and a count.   *)
(* The test that a full block fits the last chunk can never fail, as the   *)
(* size is a multiple of the block size.                                   *)
(***************************************************************************)
Way(base, count) ==
  LET size == Clamp(count) * BlockSize
      off  == base % PageSize
  IN IF size + off <= PageSize THEN "single"
     ELSE IF off # 0 THEN "bounce"
     ELSE IF size <= 2 * PageSize THEN "two"
     ELSE IF Pages(size) - 1 <= MaxPrpl THEN "list"
     ELSE "bounce"

\* Blocks the resulting command asks for.
Blocks(base, count) ==
  IF Way(base, count) = "bounce" THEN Lesser(Clamp(count), PageSize \div BlockSize)
  ELSE Clamp(count)

\* When the loop runs that writes page addresses to nvme_dma_buffer; it stops at
\* MaxPrpl entries, also when it then jumps to "bounce".
BuildsList(base, count) ==
  base % PageSize = 0 /\ Clamp(count) * BlockSize > 2 * PageSize

\* Mutant: the first page is not skipped.
ListFromFirstPage(base, count) ==
  [k \in 0..(Lesser(Pages(Clamp(count) * BlockSize), MaxPrpl) - 1)
     |-> base + k * PageSize]

\* Entry k of the list; the page PRP1 names is skipped.
ListEntries(base, count) ==
  [k \in 0..(Lesser(Pages(Clamp(count) * BlockSize) - 1, MaxPrpl) - 1)
     |-> base + (k + 1) * PageSize]

NoPrp == -1

Prp1(base, count) == IF Way(base, count) = "bounce" THEN DmaBuffer ELSE base

Prp2(base, count) ==
  LET way == Way(base, count)
  IN CASE way = "two"  -> base + PageSize
       [] way = "list" -> DmaBuffer
       [] OTHER        -> NoPrp

\* nvme_io_xfer's first test: it refuses an unaligned address.
Misaligned(base, count) ==
  \/ Prp1(base, count) % Align # 0
  \/ Prp2(base, count) # NoPrp /\ Prp2(base, count) % Align # 0

\* Mutant: the field holds the count.
CmdBlocksTooMany(blocks) == U16(blocks) + 1

\* Blocks the controller transfers: the field is the count minus one, 16 bits.
CmdBlocks(blocks) == U16(blocks - 1) + 1

(***************************************************************************)
(* The controller's reading of PRP1, PRP2 and the list for a transfer of   *)
(* size cells: the host address of cell k.                                 *)
(***************************************************************************)
HostAddr(prp1, prp2, list, size, k) ==
  LET first == PageSize - (prp1 % PageSize)
      rest  == k - first
  IN IF k < first THEN prp1 + k
     ELSE IF size - first <= PageSize THEN prp2 + rest
     ELSE list[rest \div PageSize] + (rest % PageSize)

=============================================================================
