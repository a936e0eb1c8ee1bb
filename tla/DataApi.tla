------------------------------- MODULE DataApi -------------------------------
(***************************************************************************)
(* A call of the DataAPI client: the loop of doGet.  A response 429 is     *)
(* followed by a pause of 1, 2, 4 ... seconds and, while the loop lasts,   *)
(* another request; everything else ends the call.  No call looks at the   *)
(* context of the prober: only the 30 s limit of the HTTP client bounds a  *)
(* request.  The three Fetch functions add the decoding of the body, which *)
(* may fail as well.                                                       *)
(***************************************************************************)
EXTENDS Naturals

CONSTANTS
  Callers,        \* the goroutines that make calls
  MaxRetries      \* maxRetries of doGet

ASSUME DataApiAssumption == MaxRetries \in Nat \ {0}

VARIABLE tries    \* i of the loop of doGet, for every caller

NoTries == [c \in Callers |-> 0]

\* Mutant: the loop ends one response later.
LimitedOneMore(c) ==
  /\ tries[c] <= MaxRetries - 1
  /\ tries' = [tries EXCEPT ![c] = @ + 1]

\* Mutant: a limited caller starts over.
LimitedForever(c) ==
  tries' = [tries EXCEPT ![c] = 1 - @]

\* 429, the pause, and the next request.
Limited(c) ==
  /\ tries[c] + 1 < MaxRetries
  /\ tries' = [tries EXCEPT ![c] = @ + 1]

\* The call comes back: with a decoded body (ok), or with the error of the
\* transport, another status, the decoder, or "max retries exceeded".
Fetched(c, ok) ==
  /\ ok \in BOOLEAN
  /\ tries' = [tries EXCEPT ![c] = 0]

=============================================================================
