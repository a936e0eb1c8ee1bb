--------------------------- MODULE MCRelayRegistry ---------------------------
(***************************************************************************)
(* An instance of RelayRegistry for TLC: one relay key and two callers     *)
(* that nothing tells apart.                                               *)
(***************************************************************************)
EXTENDS RelayRegistry, TLC

CallerSymmetry == Permutations(Callers)

=============================================================================
