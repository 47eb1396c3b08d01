---------------------------- MODULE MCNvmeQueue ----------------------------
(***************************************************************************)
(* NvmeQueue under the assumptions of its proofs: TLC evaluates            *)
(* WrapAssumption for the lengths of each run of this module.              *)
(***************************************************************************)
EXTENDS NvmeQueueProofs

=============================================================================
