----------------------------- MODULE MCDashboard -----------------------------
(* Instances of Dashboard for TLC: two blobs, two operators, of which one  *)
(* alone may recover a blob.                                               *)
EXTENDS Dashboard, TLC

CONSTANTS b1, b2, o1, o2, s1, s2

TwoBlobs     == {b1, b2}
TwoRequested == [b \in TwoBlobs |-> IF b = b1 THEN 1 ELSE 2]
TwoOperators == {o1, o2}
TwoShares    == [o \in TwoOperators |-> IF o = o1 THEN 1 ELSE 2]
TwoSockets   == {s1, s2}

SocketSymmetry == Permutations(TwoSockets)

=============================================================================
