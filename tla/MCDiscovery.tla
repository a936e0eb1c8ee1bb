----------------------------- MODULE MCDiscovery -----------------------------
(***************************************************************************)
(* Instances of Discovery for TLC: two quorums of at most two slots, and   *)
(* operators that nothing tells apart.                                     *)
(***************************************************************************)
EXTENDS Discovery, TLC

OperatorSymmetry == Permutations(Operators)

=============================================================================
