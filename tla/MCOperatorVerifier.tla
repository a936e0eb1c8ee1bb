------------------------- MODULE MCOperatorVerifier -------------------------
(* Instances of OperatorVerifier for TLC.                                  *)
EXTENDS OperatorVerifier

CONSTANTS b1, b2, o1, o2

TwoBlobs     == {b1, b2}
TwoRequested == [b \in TwoBlobs |-> IF b = b1 THEN 1 ELSE 2]

\* One operator alone does not reach two chunks, the other one does.
TwoOperators == {o1, o2}
TwoShares    == [o \in TwoOperators |-> IF o = o1 THEN 1 ELSE 2]

=============================================================================
