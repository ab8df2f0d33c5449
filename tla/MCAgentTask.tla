---------------------------- MODULE MCAgentTask ----------------------------
(* Small instances of AgentTask for TLC. *)
EXTENDS AgentTask, TLC

ProcessSymmetry == Permutations(Processes)
=============================================================================
