--------------------------- MODULE MCRelayProcess ---------------------------
(***************************************************************************)
(* A small instance of RelayProcess for TLC.                               *)
(***************************************************************************)
EXTENDS RelayProcess, TLC

Symmetry == Permutations(Process)
=============================================================================
