----------------------------- MODULE MCNvmeDisk -----------------------------
(***************************************************************************)
(* Requests for model checking NvmeDisk.  A page is four cells, a disk     *)
(* block two.  Host memory: cells 0..15, nvme_dma_buffer at 16.            *)
(***************************************************************************)
EXTENDS NvmeDisk

Sg(block, length, buffer) == [block |-> block, length |-> length, buffer |-> buffer]
Req(op, bufs) == [op |-> op, bufs |-> bufs]

\* Inside a page, two pages, a page list, more blocks than MaxReq with a list too
\* long for MaxPrpl (bounced, then a list), page unaligned (bounced), unaligned
\* altogether, and two buffers.
Shapes == {<<Sg(1, 4, 2)>>, <<Sg(0, 8, 4)>>, <<Sg(1, 10, 0)>>, <<Sg(0, 16, 0)>>,
           <<Sg(2, 6, 2)>>, <<Sg(0, 2, 1)>>,
           <<Sg(4, 4, 0), Sg(0, 8, 6)>>}

MCRequests == {Req(op, s) : op \in {"read", "write"}, s \in Shapes}
                \cup {Req("other", <<>>)}

\* A few requests, for the runs that end in a counterexample.
FewRequests == {Req(op, <<Sg(1, 4, 2)>>) : op \in {"read", "write"}}

=============================================================================
