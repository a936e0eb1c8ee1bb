------------------------------ MODULE Discovery ------------------------------
(***************************************************************************)
(* Operator discovery: GetOperators walks over the quorums and the indices *)
(* of the index registry, one contract call after the other, collects the  *)
(* operators without repetition and caches the list for its ttl.           *)
(*                                                                         *)
(* Any call may fail, and the registry may change between two calls.  A    *)
(* failed total ends the walk, since it is taken for a quorum that does    *)
(* not exist; a failed index is skipped.  GetOperators has one caller at a *)
(* time: Run warms the cache before it starts the operator verifier.       *)
(*                                                                         *)
(* spoiled is a history variable: no action reads it.                      *)
(***************************************************************************)
EXTENDS Integers, FiniteSets, SequencesExt

CONSTANTS
  Operators,      \* operator ids
  NoOperator,     \* an empty slot, or an operator without a socket
  MaxQuorums,     \* GetOperators asks for the quorums 0..MaxQuorums - 1
  MaxSlots,       \* bound: indices of a quorum
  MaxChanges      \* bound: how often the registry changes

ASSUME DiscoveryAssumption ==
  /\ NoOperator \notin Operators
  /\ MaxQuorums \in Nat
  /\ MaxSlots \in Nat
  /\ MaxChanges \in Nat

VARIABLES
  registry,       \* the index registry: for every quorum, the sequence of its slots
  changes,        \* how often it changed
  cache,          \* Discovery.cache
  fresh,          \* cacheTime is younger than the ttl
  pc,             \* where GetOperators is: "idle", "total", "index", "done"
  quorum,         \* the quorum it asks for
  index,          \* the index it asks for, from 1
  total,          \* totalOps of that quorum
  found,          \* allOperators
  answer,         \* the list returned, <<>> for an error and while there is no answer yet
  spoiled         \* history: in this walk a call failed or the registry changed

chain == <<registry, changes>>
walk  == <<pc, quorum, index, total, found>>
vars  == <<chain, cache, fresh, walk, answer, spoiled>>

-----------------------------------------------------------------------------
Quorums == DOMAIN registry

Slots == Operators \cup {NoOperator}

Registered == {o \in Operators : \E q \in Quorums : o \in ToSet(registry[q])}

\* An operator has at most one slot of a quorum.
HasOneSlotEach(s) == \A i, j \in DOMAIN s : s[i] = s[j] /\ s[i] # NoOperator => i = j

\* What getOperatorAtIndex answers: an index the quorum no longer has is empty.
SlotAt(q, i) == IF i \in DOMAIN registry[q] THEN registry[q][i] ELSE NoOperator

\* The entry of the map failCount: nobody calls ReportResult, so a lookup gives 0.
FailCount(o) == 0

\* sort.SliceStable by FailCount: where the i-th element of s comes to stand, and the
\* other way round.
Rank(s, i) ==
  Cardinality({j \in DOMAIN s : \/ FailCount(s[j]) < FailCount(s[i])
                                \/ FailCount(s[j]) = FailCount(s[i]) /\ j <= i})

AtRank(s, k) == CHOOSE i \in DOMAIN s : Rank(s, i) = k

ByFailCount(s) == [k \in DOMAIN s |-> s[AtRank(s, k)]]

Init ==
  /\ \E n \in 0..MaxQuorums :
       registry \in [0..(n - 1) -> {s \in BoundedSeq(Slots, MaxSlots) : HasOneSlotEach(s)}]
  /\ changes = 0
  /\ cache = <<>>
  /\ fresh = FALSE
  /\ pc = "idle"
  /\ quorum = 0
  /\ index = 1
  /\ total = 0
  /\ found = <<>>
  /\ answer = <<>>
  /\ spoiled = FALSE

-----------------------------------------------------------------------------
(* The environment.                                                        *)

\* One slot of a quorum gets another operator, becomes empty, or is added.
Change(q, i, o) ==
  /\ changes < MaxChanges
  /\ i \in 1..MaxSlots
  /\ i <= Len(registry[q]) + 1
  /\ LET s == IF i \in DOMAIN registry[q]
                THEN [registry[q] EXCEPT ![i] = o] ELSE Append(registry[q], o)
     IN  HasOneSlotEach(s) /\ registry' = [registry EXCEPT ![q] = s]
  /\ changes' = changes + 1
  /\ spoiled' = TRUE
  /\ UNCHANGED <<cache, fresh, walk, answer>>

Expire ==
  /\ fresh
  /\ fresh' = FALSE
  /\ UNCHANGED <<chain, cache, walk, answer, spoiled>>

-----------------------------------------------------------------------------
(* GetOperators.                                                           *)

AnswerCached ==
  /\ pc = "idle"
  /\ cache # <<>> /\ fresh
  /\ answer' = ByFailCount(cache)
  /\ UNCHANGED <<chain, cache, fresh, walk, spoiled>>

\* Mutant: allOperators survives the call.
StartFetchKeepsFound ==
  /\ pc = "idle"
  /\ ~ (cache # <<>> /\ fresh)
  /\ pc' = "total"
  /\ quorum' = 0
  /\ answer' = <<>>
  /\ spoiled' = FALSE
  /\ UNCHANGED <<chain, cache, fresh, index, total, found>>

StartFetch ==
  /\ pc = "idle"
  /\ ~ (cache # <<>> /\ fresh)
  /\ pc' = "total"
  /\ quorum' = 0
  /\ found' = <<>>
  /\ answer' = <<>>
  /\ spoiled' = FALSE
  /\ UNCHANGED <<chain, cache, fresh, index, total>>

\* totalOperatorsForQuorum of a quorum that exists.
TotalRead ==
  /\ pc = "total"
  /\ quorum < MaxQuorums
  /\ quorum \in Quorums
  /\ total' = Len(registry[quorum])
  /\ index' = 1
  /\ pc' = "index"
  /\ UNCHANGED <<chain, cache, fresh, quorum, found, answer, spoiled>>

\* The call fails: the quorum does not exist, or something else went wrong.
TotalFails ==
  /\ pc = "total"
  /\ quorum < MaxQuorums
  /\ pc' = "done"
  /\ spoiled' = (spoiled \/ quorum \in Quorums)
  /\ UNCHANGED <<chain, cache, fresh, quorum, index, total, found, answer>>

\* Mutant: no map seen.
IndexReadAgain ==
  /\ pc = "index"
  /\ index <= total
  /\ index' = index + 1
  /\ LET o == SlotAt(quorum, index)
     IN  found' = (IF o = NoOperator THEN found ELSE Append(found, o))
  /\ UNCHANGED <<chain, cache, fresh, pc, quorum, total, answer, spoiled>>

\* getLatestOperatorUpdate and getOperatorSocket of one index.
IndexRead ==
  /\ pc = "index"
  /\ index <= total
  /\ index' = index + 1
  /\ LET o == SlotAt(quorum, index)
     IN  found' = (IF o = NoOperator \/ o \in ToSet(found) THEN found ELSE Append(found, o))
  /\ UNCHANGED <<chain, cache, fresh, pc, quorum, total, answer, spoiled>>

IndexFails ==
  /\ pc = "index"
  /\ index <= total
  /\ index' = index + 1
  /\ spoiled' = TRUE
  /\ UNCHANGED <<chain, cache, fresh, pc, quorum, total, found, answer>>

QuorumDone ==
  /\ pc = "index"
  /\ index > total
  /\ quorum' = quorum + 1
  /\ pc' = "total"
  /\ UNCHANGED <<chain, cache, fresh, index, total, found, answer, spoiled>>

WalkOver == pc = "done" \/ (pc = "total" /\ quorum = MaxQuorums)

\* Mutant: the list is cached before the test that it is not empty.
FinishAnyway ==
  /\ WalkOver
  /\ cache' = found
  /\ answer' = found
  /\ fresh' = TRUE
  /\ pc' = "idle"
  /\ UNCHANGED <<chain, quorum, index, total, found, spoiled>>

Finish ==
  /\ WalkOver
  /\ found # <<>>
  /\ cache' = ByFailCount(found)
  /\ answer' = ByFailCount(found)
  /\ fresh' = TRUE
  /\ pc' = "idle"
  /\ UNCHANGED <<chain, quorum, index, total, found, spoiled>>

\* Mutant: a walk that finds nothing falls back on the old cache.
FinishEmptyServesStale ==
  /\ WalkOver
  /\ found = <<>>
  /\ answer' = cache
  /\ pc' = "idle"
  /\ UNCHANGED <<chain, cache, fresh, quorum, index, total, found, spoiled>>

\* No operators found: an error, and the old cache stays as it is.
FinishEmpty ==
  /\ WalkOver
  /\ found = <<>>
  /\ answer' = <<>>
  /\ pc' = "idle"
  /\ UNCHANGED <<chain, cache, fresh, quorum, index, total, found, spoiled>>

GetOperators ==
  \/ AnswerCached \/ StartFetch
  \/ TotalRead \/ TotalFails
  \/ IndexRead \/ IndexFails \/ QuorumDone
  \/ Finish \/ FinishEmpty

Next ==
  \/ GetOperators
  \/ Expire
  \/ \E q \in Quorums, i \in 1..MaxSlots, o \in Slots : Change(q, i, o)

Spec == Init /\ [][Next]_vars

-----------------------------------------------------------------------------
(* Properties.                                                             *)

RegistryOK ==
  /\ \E n \in 0..MaxQuorums : Quorums = 0..(n - 1)
  /\ \A q \in Quorums : registry[q] \in Seq(Slots)

\* Types of all variables.  The list kept in the cache, the list being collected and
\* the list returned hold operators only, never an empty slot; no walk is under way
\* while the cache is fresh; and indices are asked for in quorums that exist.
TypeOK ==
  /\ RegistryOK
  /\ changes \in 0..MaxChanges
  /\ cache \in Seq(Operators)
  /\ fresh \in BOOLEAN
  /\ pc \in {"idle", "total", "index", "done"}
  /\ quorum \in 0..MaxQuorums
  /\ index \in Nat \ {0}
  /\ total \in Nat
  /\ found \in Seq(Operators)
  /\ answer \in Seq(Operators)
  /\ spoiled \in BOOLEAN
  /\ fresh => pc = "idle" /\ cache # <<>>
  /\ pc = "index" => quorum \in Quorums

\* No operator is on the list twice, however its registrations are spread over quorums
\* and however they move while the walk is on its way: an operator listed twice would
\* be probed twice and its chunks counted twice (prober.go:314-332).
NoDuplicates == IsInjective(cache) /\ IsInjective(found) /\ IsInjective(answer)

\* A walk in which no call failed and nothing changed returns exactly the registered
\* operators of all quorums: in particular nothing a former walk found
\* (discovery.go:194-208).
CompleteUnlessSpoiled ==
  [][pc # "idle" /\ pc' = "idle" /\ ~ spoiled => ToSet(answer') = Registered]_vars

\* What the operator verifier relies on (module OperatorList): as long as the ttl runs
\* every answer is the same set, and a list never comes into force empty.
List == INSTANCE OperatorList
  WITH list <- IF fresh THEN ToSet(cache) ELSE {}, answer <- ToSet(answer)

ListSpec == List!Spec

-----------------------------------------------------------------------------
(* What the comments promise.                                              *)

\* "GetOperators returns the deduplicated operator set across all active quorums"
\* (discovery.go:172): whenever a walk ends with a list and the registry did not change
\* since the first, every registered operator is on it.
Complete ==
  [][pc # "idle" /\ pc' = "idle" /\ answer' # <<>> /\ changes = 0
       => Registered \subseteq ToSet(answer')]_vars

=============================================================================
