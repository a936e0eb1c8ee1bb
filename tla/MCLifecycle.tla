----------------------------- MODULE MCLifecycle -----------------------------
(* Instance of Lifecycle for TLC: batches of up to two blobs.              *)
EXTENDS Lifecycle

CONSTANTS w1, w2

TwoWorkers == {w1, w2}
AllCallers == Loops \cup TwoWorkers

=============================================================================
