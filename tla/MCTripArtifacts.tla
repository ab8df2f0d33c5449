-------------------------- MODULE MCTripArtifacts --------------------------
(* Small instances of TripArtifacts for TLC. *)
EXTENDS TripArtifacts, TLC

RunSymmetry == Permutations(Runs)
=============================================================================
