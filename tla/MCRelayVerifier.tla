--------------------------- MODULE MCRelayVerifier ---------------------------
(***************************************************************************)
(* Instances of RelayVerifier for TLC: two blobs, the older with two       *)
(* relays, and two goroutines per batch.                                   *)
(***************************************************************************)
EXTENDS RelayVerifier, TLC

CONSTANTS b1, b2, r1, r2, w1, w2

TwoBlobs == {b1, b2}
TwoTimes == [b \in TwoBlobs |-> IF b = b1 THEN 1 ELSE 2]
SomeRelays == [b \in TwoBlobs |-> IF b = b1 THEN {r1, r2} ELSE {r1}]
TwoWorkers == {w1, w2}
OneWorker == {w1}

\* The newer blob has a certificate without relay keys and never gets a row.
BarrenRelays == [b \in TwoBlobs |-> IF b = b1 THEN {r1} ELSE {}]

WorkerSymmetry == Permutations(TwoWorkers)

=============================================================================
