---------------------------- MODULE MCMemSampler ----------------------------
(***************************************************************************)
(* MemSampler with a counter that wraps in the middle of the measurement   *)
(* and a workspace of three units, none, or one that cannot be read.       *)
(***************************************************************************)
EXTENDS MemSampler

WorkspaceInfos == {[ok |-> FALSE, total |-> 0, free |-> 0],
                   [ok |-> TRUE, total |-> 0, free |-> 0],
                   [ok |-> TRUE, total |-> 3, free |-> 1],
                   [ok |-> TRUE, total |-> 3, free |-> 0]}

=============================================================================
