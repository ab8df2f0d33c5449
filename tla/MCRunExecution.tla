-------------------------- MODULE MCRunExecution --------------------------
(* Small instances of RunExecution for TLC. *)
EXTENDS RunExecution, TLC

WorkerSymmetry == Permutations(Workers)
=============================================================================
