---------------------------- MODULE OperatorList ----------------------------
(***************************************************************************)
(* What the operator verifier may expect of GetOperators: while a list is  *)
(* in force every answer is that list, otherwise a new list of registered  *)
(* operators comes into force, or there is no answer.  Which operators are *)
(* on the list is not promised.                                            *)
(***************************************************************************)
CONSTANT Operators

VARIABLES
  list,     \* the list in force, {} when there is none
  answer    \* the last answer, {} for an error and until there is one

Init == list = {} /\ answer = {}

Answer == list # {} /\ answer' = list /\ UNCHANGED list

Refresh ==
  /\ list = {}
  /\ list' \in (SUBSET Operators) \ {{}}
  /\ answer' = list'

NoAnswer == list = {} /\ answer' = {} /\ UNCHANGED list

Expire == list' = {} /\ UNCHANGED answer

Next == Answer \/ Refresh \/ NoAnswer \/ Expire

Spec == Init /\ [][Next]_<<list, answer>>

=============================================================================
