------------------------------ MODULE NvmePrp ------------------------------
(***************************************************************************)
(* nvme_prpl_xfer called with one buffer and block count after another:    *)
(* does the controller, following PRP1, PRP2 and the list, find exactly    *)
(* the cells of the buffer?                                                *)
(***************************************************************************)
EXTENDS NvmeXfer

CONSTANT MaxBase   \* bound: highest buffer address tried

ASSUME MaxBaseAssumption == MaxBase \in Nat

VARIABLES base, count   \* the arguments buf and count of the last call

prpVars == <<base, count>>

PrpTypeOK == base \in 0..MaxBase /\ count \in 0..(CountMod - 1)

PrpInit == base = 0 /\ count = 0

\* A call of nvme_prpl_xfer with the next buffer address or block count.
CallNextBuffer == /\ base < MaxBase
                  /\ base' = base + 1
                  /\ count' = count

CallNextCount == /\ count < CountMod - 1
                 /\ count' = count + 1
                 /\ base' = base

PrpNext == CallNextBuffer \/ CallNextCount

PrpSpec == PrpInit /\ [][PrpNext]_prpVars

\* Cells the command transfers.
Size == Blocks(base, count) * BlockSize

\* Cell k of the transfer is cell k of the buffer, or of nvme_dma_buffer when the
\* transfer is bounced: none is missed, repeated or misplaced, in all four ways of
\* nvme_prpl_xfer, with buffers that start anywhere in a page.
DescribesBuffer ==
  \A k \in 0..(Size - 1) :
    HostAddr(Prp1(base, count), Prp2(base, count), ListEntries(base, count), Size, k)
      = (IF Way(base, count) = "bounce" THEN DmaBuffer ELSE base) + k

\* NVME_MAX_PRPL_ENTRIES "allows requests up to 64kb": a page aligned buffer of up
\* to MaxPrpl + 1 pages goes out in one command.
ListSuffices ==
  base % PageSize = 0 /\ count * BlockSize <= (MaxPrpl + 1) * PageSize
    => Blocks(base, count) = Clamp(count)

=============================================================================
