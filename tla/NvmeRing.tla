------------------------------ MODULE NvmeRing ------------------------------
(***************************************************************************)
(* Index arithmetic of the NVMe rings (hello/nvme-bsp.h).  A queue of      *)
(* "length" entries keeps the 16-bit value length - 1 in q->mask, and      *)
(* every index moves with "(index + 1) & mask".  The controller works      *)
(* modulo the length, so the two agree only when the mask is a run of one  *)
(* bits, which the driver never checks.                                    *)
(***************************************************************************)
EXTENDS Integers, FiniteSetsExt

\* Bit k of a.
Bit(a, k) == (a \div 2^k) % 2 = 1

\* C's "a & b" on the 16-bit values the driver masks.
BitAnd(a, b) == SumSet({2^k : k \in {j \in 0..15 : Bit(a, j) /\ Bit(b, j)}})

\* q->mask = length - 1, a u16.
MaskOf(length) == (length - 1) % 2^16

\* (index + 1) & q->mask: how the driver moves an index.
NextIndex(i, length) == BitAnd(i + 1, MaskOf(length))

\* How the controller moves an index in a queue created with that length.
CtlNext(i, length) == IF i + 1 = length THEN 0 ELSE i + 1

\* Masking moves every index of the ring as the controller does: true of the
\* powers of two, and what every proof about the rings rests on.
Wraps(length) == \A i \in 0..(length - 1) : NextIndex(i, length) = CtlNext(i, length)

=============================================================================
