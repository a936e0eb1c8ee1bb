------------------------------ MODULE WorkQueue ------------------------------
(***************************************************************************)
(* What a verifier goroutine of the prober promises about the table it     *)
(* fills: the table is its queue.  It takes blobs that have no row, while  *)
(* it holds a blob it writes at most one row for each entry (an operator,  *)
(* a relay), and once it has left the blob with a row it never takes it    *)
(* again.  Losing blobs from the hand (a crash, a failed lookup) is        *)
(* allowed; taking a blob twice and writing for a blob not in hand is not. *)
(*                                                                         *)
(* OperatorVerifier and RelayVerifier both implement it (their QueueSpec). *)
(***************************************************************************)
EXTENDS Naturals

CONSTANTS
  Items,    \* blob keys
  Entries   \* what a blob gets one row each for

VARIABLES
  rows,     \* how many rows the table has for every item and entry
  hand      \* the items being worked on

Empty(i) == \A e \in Entries : rows[i][e] = 0

Init ==
  /\ rows = [i \in Items |-> [e \in Entries |-> 0]]
  /\ hand = {}

\* Items without a row are taken, when nothing else is in hand.
Take ==
  /\ hand = {}
  /\ \E S \in SUBSET {i \in Items : Empty(i)} : hand' = S
  /\ UNCHANGED rows

\* The row of one entry of an item in hand; it may be the last thing done for it.
Record ==
  /\ \E i \in hand, e \in Entries :
       /\ rows[i][e] = 0
       /\ rows' = [rows EXCEPT ![i][e] = 1]
       /\ hand' \in {hand, hand \ {i}}

\* Some or all items are given up.
Leave ==
  /\ hand' \in SUBSET hand
  /\ UNCHANGED rows

Next == Take \/ Record \/ Leave

Spec == Init /\ [][Next]_<<rows, hand>>

=============================================================================
