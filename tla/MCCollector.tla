----------------------------- MODULE MCCollector -----------------------------
(***************************************************************************)
(* Instances of Collector for TLC: four blobs, two of them with the same   *)
(* time, and a page of two.                                                *)
(***************************************************************************)
EXTENDS Collector

CONSTANTS b1, b2, b3, b4

FourBlobs == {b1, b2, b3, b4}

FourTimes ==
  [b \in FourBlobs |-> CASE b = b1 -> 1 [] b = b2 -> 2 [] b = b3 -> 2 [] b = b4 -> 3]

=============================================================================
