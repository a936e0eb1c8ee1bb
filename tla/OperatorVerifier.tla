-------------------------- MODULE OperatorVerifier --------------------------
(***************************************************************************)
(* Goroutine 3 of the prober: the operator verifier.  It takes the newest  *)
(* blob that has no row in operator_probes, asks every operator of the     *)
(* discovered list for the chunks of that blob, writes one row per answer  *)
(* and logs whether the chunks returned would recover the blob.            *)
(*                                                                         *)
(* The scan is the loop of probeAllOperators cut at its two blocking calls *)
(* (the gRPC call and the INSERT), so that a shutdown, a crash, a lost     *)
(* write or a reader of the table can fall between any two of them.        *)
(*                                                                         *)
(* The goroutine runs only with operator discovery; without it it returns  *)
(* at once (prober.go:183-186), which is a step of Lifecycle.              *)
(*                                                                         *)
(* A row names its operator by the first eight bytes of the 32-byte id     *)
(* (prober.go:316).  Operators stands for these prefixes: two operators    *)
(* that shared one would be one operator in the table.                     *)
(*                                                                         *)
(* The list returned by GetOperators is duplicate free and ordered by the  *)
(* index registry, an order nothing here depends on: it is the set ops,    *)
(* walked through todo in any order.                                       *)
(***************************************************************************)
EXTENDS Integers, FiniteSets, FiniteSetsExt

CONSTANTS
  Blobs,          \* blob keys
  Operators,      \* operator ids, as stored, that are registered on chain at some time
  RequestedAt,    \* requested_at of every blob
  Answers,        \* how many chunks an answer may carry: nothing bounds or checks it
  Share,          \* how many chunks of a blob an operator really holds; no action reads it
  MinChunks,      \* minChunksForRecovery
  NoBlob,         \* no blob is being scanned
  NoOperator,     \* no operator is being asked
  MaxRestarts     \* bound: how often the process is started again

ASSUME ConstantsAssumption ==
  /\ RequestedAt \in [Blobs -> Nat]
  /\ Answers \subseteq Nat
  /\ Share \in [Operators -> Nat]
  /\ MinChunks \in Nat
  /\ MaxRestarts \in Nat
  /\ NoBlob \notin Blobs
  /\ NoOperator \notin Operators
  /\ IsFiniteSet(Operators)

VARIABLES
  process,        \* the prober process: "running", "cancelled" (SIGTERM seen), "exited", "crashed"
  restarts,       \* how often it was started again
  observed,       \* table observed_blobs: the keys in it
  operatorProbes, \* table operator_probes: its rows
  nextId,         \* the SERIAL column of operator_probes
  cache,          \* operators in Discovery.cache, {} when empty or older than its ttl
  pc,             \* where the goroutine is: "query", "discover", "probe", "insert"
  blob,           \* the blob being scanned
  ops,            \* allOperators of the scan
  todo,           \* the operators of ops the loop has not reached
  op,             \* the operator whose answer is about to be written
  result,         \* its answer
  totalChunks,    \* totalChunks of the scan
  logged          \* the last [recovery] verdict logged for each blob

tables  == <<observed, operatorProbes, nextId>>
control == <<process, restarts>>
scan    == <<blob, ops, todo, op, result, totalChunks>>
vars    == <<control, tables, cache, pc, scan, logged>>

-----------------------------------------------------------------------------
(* Answers and rows.  The error text of a failed probe tells a call that   *)
(* the operator failed from one that ended because ctx was cancelled.      *)

Outcomes == {"ok", "refused", "cancelled"}

Failure(outcome) == [outcome |-> outcome, chunks |-> 0]

NoResult == Failure("refused")

\* What ProbeChunks can return for operator o.  A call made under a cancelled
\* context fails at once; otherwise the operator answers, and len(resp.GetChunks())
\* is taken as it comes, or the call fails (refused, timed out, unknown blob).
ProbeResults ==
  IF process = "cancelled"
    THEN {Failure("cancelled")}
    ELSE {Failure("refused")} \cup [outcome : {"ok"}, chunks : Answers]

Row(id, b, o, r) ==
  [id |-> id, blob |-> b, op |-> o, outcome |-> r.outcome, chunks |-> r.chunks]

RowsOf(b) == {r \in operatorProbes : r.blob = b}

HasRow(b, o) == \E r \in RowsOf(b) : r.op = o

-----------------------------------------------------------------------------
(* Queries on the tables.                                                  *)

\* Mutant: the LEFT JOIN ... IS NULL is missing.
UnprobedNoJoin == observed

\* GetUnprobedOperatorBlobs before its ORDER BY and LIMIT.
UnprobedOperatorBlobs ==
  {b \in observed : \A r \in operatorProbes : r.blob # b}

\* ORDER BY requested_at DESC LIMIT 1; equal times come in any order.
Newest(S) == {b \in S : \A c \in S : RequestedAt[c] <= RequestedAt[b]}

\* SUM(chunks_returned) over a set of rows.
Chunks(S) == MapThenSumSet(LAMBDA r : r.chunks, S)

\* SUM(chunks_returned) FILTER (WHERE success = true) of the dashboard.
OkRows(b)   == {r \in RowsOf(b) : r.outcome = "ok"}
DbChunks(b) == Chunks(OkRows(b))

\* The recoverable column of the dashboard; a blob is listed once it has a row.
Listed(b)      == RowsOf(b) # {}
Recoverable(b) == DbChunks(b) >= MinChunks

-----------------------------------------------------------------------------
\* Run warms the operator cache before it starts the goroutines; that may fail
\* (no entry) or find only a part of the operators.
Init ==
  /\ process = "running"
  /\ restarts = 0
  /\ observed = {}
  /\ operatorProbes = {}
  /\ nextId = 1
  /\ cache \in SUBSET Operators
  /\ pc = "query"
  /\ blob = NoBlob
  /\ ops = {}
  /\ todo = {}
  /\ op = NoOperator
  /\ result = NoResult
  /\ totalChunks = 0
  /\ logged = [b \in Blobs |-> "none"]

-----------------------------------------------------------------------------
\* The locals of runOperatorVerifier and probeAllOperators go out of scope.
ForgetScan ==
  /\ pc' = "query"
  /\ blob' = NoBlob
  /\ ops' = {}
  /\ todo' = {}
  /\ op' = NoOperator
  /\ result' = NoResult
  /\ totalChunks' = 0

(* The environment: the collector, the cache ttl, signals and crashes.     *)

\* The collector goroutine inserts a blob.
Observe(b) ==
  /\ process = "running"
  /\ b \notin observed
  /\ observed' = observed \cup {b}
  /\ UNCHANGED <<control, operatorProbes, nextId, cache, pc, scan, logged>>

\* The cached operator list becomes older than its ttl.
CacheExpires ==
  /\ cache # {}
  /\ cache' = {}
  /\ UNCHANGED <<control, tables, pc, scan, logged>>

\* SIGINT or SIGTERM: the context every goroutine works under is cancelled.
Cancel ==
  /\ process = "running"
  /\ process' = "cancelled"
  /\ UNCHANGED <<restarts, tables, cache, pc, scan, logged>>

\* The process dies without a shutdown; only the tables survive.
Crash ==
  /\ process \in {"running", "cancelled"}
  /\ restarts < MaxRestarts
  /\ process' = "crashed"
  /\ cache' = {}
  /\ ForgetScan
  /\ UNCHANGED <<restarts, tables, logged>>

\* The container is started again, with an empty memory and a warmed cache.
Restart ==
  /\ process \in {"crashed", "exited"}
  /\ restarts < MaxRestarts
  /\ process' = "running"
  /\ restarts' = restarts + 1
  /\ cache' \in SUBSET Operators
  /\ UNCHANGED <<tables, pc, scan, logged>>

-----------------------------------------------------------------------------
(* The goroutine.                                                          *)

Alive == process \in {"running", "cancelled"}

\* Mutant: waits for a cached operator list, which only a scan refreshes.
QueryNeedsCache ==
  /\ process = "running"
  /\ pc = "query"
  /\ cache # {}
  /\ blob' \in Newest(UnprobedOperatorBlobs)
  /\ pc' = "discover"
  /\ UNCHANGED <<control, tables, cache, ops, todo, op, result, totalChunks, logged>>

\* Mutant: the loop does not look at the cancelled context.
QueryIgnoresCancel ==
  /\ Alive
  /\ pc = "query"
  /\ blob' \in Newest(UnprobedOperatorBlobs)
  /\ pc' = "discover"
  /\ UNCHANGED <<control, tables, cache, ops, todo, op, result, totalChunks, logged>>

\* GetUnprobedOperatorBlobs(ctx, 1).  The query fails under a cancelled
\* context; a failed or empty query only sleeps.
Query ==
  /\ process = "running"
  /\ pc = "query"
  /\ blob' \in Newest(UnprobedOperatorBlobs)
  /\ pc' = "discover"
  /\ UNCHANGED <<control, tables, cache, ops, todo, op, result, totalChunks, logged>>

\* probeAllOperators starts the loop over the list it was given.
StartScan(list) ==
  /\ ops' = list
  /\ todo' = list
  /\ totalChunks' = 0
  /\ pc' = "probe"
  /\ UNCHANGED <<control, tables, blob, op, result, logged>>

\* GetOperators, answered from the cache.
DiscoverCached ==
  /\ Alive
  /\ pc = "discover"
  /\ cache # {}
  /\ StartScan(cache)
  /\ UNCHANGED cache

\* GetOperators, answered from the chain: a failed quorum ends the fetch and a
\* failed index is skipped, so any non-empty part may come back and be cached.
DiscoverFetch ==
  /\ process = "running"
  /\ pc = "discover"
  /\ cache = {}
  /\ cache' \in SUBSET Operators \ {{}}
  /\ StartScan(cache')

\* Mutant: goes back to the loop without leaving the blob.
DiscoverFailsKeepsBlob ==
  /\ Alive
  /\ pc = "discover"
  /\ cache = {}
  /\ pc' = "query"
  /\ UNCHANGED <<control, tables, cache, scan, logged>>

\* GetOperators found no operator: probeAllOperators returns without a row.
DiscoverFails ==
  /\ Alive
  /\ pc = "discover"
  /\ cache = {}
  /\ ForgetScan
  /\ UNCHANGED <<control, tables, cache, logged>>

\* Mutant: the loop does not advance past the operator it asked.
ProbeChunksNoAdvance ==
  /\ Alive
  /\ pc = "probe"
  /\ \E o \in todo : op' = o /\ result' \in ProbeResults
  /\ pc' = "insert"
  /\ UNCHANGED <<control, tables, cache, blob, ops, todo, totalChunks, logged>>

\* One iteration of the loop up to the answer of ProbeChunks.
ProbeChunks ==
  /\ Alive
  /\ pc = "probe"
  /\ \E o \in todo :
       /\ op' = o
       /\ todo' = todo \ {o}
       /\ result' \in ProbeResults
  /\ pc' = "insert"
  /\ UNCHANGED <<control, tables, cache, blob, ops, totalChunks, logged>>

\* Mutant: the counter is assigned instead of increased.
CountAnswerAssigns ==
  /\ pc = "insert"
  /\ totalChunks' = (IF result.outcome = "ok" THEN result.chunks ELSE 0)
  /\ op' = NoOperator
  /\ result' = NoResult
  /\ pc' = "probe"
  /\ UNCHANGED <<control, observed, cache, blob, ops, todo, logged>>

\* The rest of the iteration: the row is written or lost, the error of the
\* INSERT is dropped and the chunks are counted in either case.
CountAnswer ==
  /\ pc = "insert"
  /\ totalChunks' = totalChunks + (IF result.outcome = "ok" THEN result.chunks ELSE 0)
  /\ op' = NoOperator
  /\ result' = NoResult
  /\ pc' = "probe"
  /\ UNCHANGED <<control, observed, cache, blob, ops, todo, logged>>

\* Mutant: the row is written under a context of its own.
InsertStoredDetached ==
  /\ Alive
  /\ CountAnswer
  /\ operatorProbes' = operatorProbes \cup {Row(nextId, blob, op, result)}
  /\ nextId' = nextId + 1

\* InsertOperatorProbe stored the row; it runs under ctx, so not once cancelled.
InsertStored ==
  /\ process = "running"
  /\ CountAnswer
  /\ operatorProbes' = operatorProbes \cup {Row(nextId, blob, op, result)}
  /\ nextId' = nextId + 1

\* InsertOperatorProbe failed.
InsertLost ==
  /\ Alive
  /\ CountAnswer
  /\ UNCHANGED <<operatorProbes, nextId>>

\* The loop is over: the verdict is logged.
Tag(chunks) == IF chunks < MinChunks THEN "AT_RISK" ELSE "RECOVERABLE"

Report ==
  /\ Alive
  /\ pc = "probe"
  /\ todo = {}
  /\ logged' = [logged EXCEPT ![blob] = Tag(totalChunks)]
  /\ ForgetScan
  /\ UNCHANGED <<control, tables, cache>>

\* The select at the top of the loop sees the cancelled context; Run returns.
Exit ==
  /\ process = "cancelled"
  /\ pc = "query"
  /\ process' = "exited"
  /\ cache' = {}
  /\ UNCHANGED <<restarts, tables, pc, scan, logged>>

Verify ==
  \/ Query \/ DiscoverCached \/ DiscoverFetch \/ DiscoverFails
  \/ ProbeChunks \/ InsertStored \/ InsertLost \/ Report \/ Exit

Environment ==
  \/ \E b \in Blobs : Observe(b)
  \/ CacheExpires \/ Cancel \/ Crash \/ Restart

Next == Verify \/ Environment

Spec == Init /\ [][Next]_vars

\* The Go scheduler keeps running the goroutine and every call it makes has a
\* deadline or is answered; a database and a chain that are asked over and over
\* answer now and then; the container policy starts a crashed process again.
Fairness ==
  /\ WF_vars(Verify)
  /\ SF_vars(InsertStored)
  /\ SF_vars(DiscoverCached \/ DiscoverFetch)
  /\ WF_vars(process = "crashed" /\ Restart)

FairSpec == Spec /\ Fairness

-----------------------------------------------------------------------------
(* Properties.                                                             *)

Results == [outcome : Outcomes, chunks : Nat]

Rows ==
  [id : 1..(nextId - 1), blob : Blobs, op : Operators, outcome : Outcomes, chunks : Nat]

\* Every variable keeps to its set, and a scan has a blob.
TypeOK ==
  /\ process \in {"running", "cancelled", "exited", "crashed"}
  /\ restarts \in 0..MaxRestarts
  /\ observed \in SUBSET Blobs
  /\ nextId \in Nat \ {0}
  /\ operatorProbes \in SUBSET Rows
  /\ cache \in SUBSET Operators
  /\ pc \in {"query", "discover", "probe", "insert"}
  /\ blob \in Blobs \cup {NoBlob}
  /\ (blob = NoBlob) <=> (pc = "query")
  /\ ops \in SUBSET Operators
  /\ todo \in SUBSET ops
  /\ op \in Operators \cup {NoOperator}
  /\ (op = NoOperator) <=> (pc # "insert")
  /\ result \in Results
  /\ totalChunks \in Nat
  /\ logged \in [Blobs -> {"none", "AT_RISK", "RECOVERABLE"}]

\* No operator has two rows for one blob, whatever crashes, restarts and lost
\* writes came in between: the only queue is the LEFT JOIN of
\* GetUnprobedOperatorBlobs, and a second row would count its chunks twice.
OneRowPerOperator ==
  \A r1, r2 \in operatorProbes :
    (r1.blob = r2.blob /\ r1.op = r2.op) => r1 = r2

\* A probe that failed only because the prober was shutting down never becomes
\* a failure row of the operator: the INSERT runs under the same context as the
\* call it reports on.
NoShutdownRows == \A r \in operatorProbes : r.outcome # "cancelled"

\* What a set of operators holds of a blob.
Shares(S) == MapThenSumSet(LAMBDA o : Share[o], S)

Answered(b) == {r.op : r \in OkRows(b)}

\* The chunks the dashboard adds up for a blob are chunks of the operators that answered,
\* each counted once, whatever lost writes, crashes and repeated scans came before: as long
\* as no answer said more than its operator holds, the sum is at most what exactly these
\* operators hold, and a blob shown as recoverable is recoverable from them.
NeverOverstated ==
  \A b \in Blobs :
    (\A r \in OkRows(b) : r.chunks <= Share[r.op]) => DbChunks(b) <= Shares(Answered(b))

\* The verdict a scan logs is the one the dashboard derives from the rows:
\* AT_RISK is never logged for a blob the table shows as recoverable, and when
\* every operator of the list got its row the two verdicts are the same.
VerdictMatchesTable ==
  [][Report =>
       /\ logged'[blob] = "AT_RISK" => ~Recoverable(blob)
       /\ (\A o \in ops : HasRow(blob, o))
            => (logged'[blob] = "RECOVERABLE" <=> Recoverable(blob))]_vars

\* operator_probes and the blob in hand, as WorkQueue sees them.
RowCounts ==
  [b \in Blobs |-> [o \in Operators |-> Cardinality({r \in RowsOf(b) : r.op = o})]]

InHand == {blob} \ {NoBlob}

Queue == INSTANCE WorkQueue
  WITH Items <- Blobs, Entries <- Operators, rows <- RowCounts, hand <- InHand

\* The goroutine implements the promise of WorkQueue for operator_probes: a blob
\* is taken only while it has no row, gets one row per operator while it is in
\* hand, and is never taken again once it was left with one.
QueueSpec == Queue!Spec

\* Another blob without rows is at least as new: the next query may prefer it.
CrowdedOut(b) ==
  \E c \in UnprobedOperatorBlobs \ {b} : RequestedAt[c] >= RequestedAt[b]

\* An observed blob gets rows, unless the prober is shut down first or newer blobs without
\* rows stand before it: the query takes the newest one only, so that blobs that arrive
\* faster than they are scanned starve the older ones (db.go:208).  A failing discovery
\* and lost rows only delay the scan.
ScannedOrCrowdedOut ==
  \A b \in Blobs :
    (b \in observed) ~> (Listed(b) \/ CrowdedOut(b) \/ process \in {"cancelled", "exited"})

\* Once the context is cancelled the goroutine gets out of its scan and Run
\* returns, unless the process dies first.
ShutdownCompletes == (process = "cancelled") ~> (process # "cancelled")

\* README.md:27-29 and 104-107: the operator verifier scans a blob and then judges the sum.
\* Claim: a blob that is shown as not recoverable while no scan of it is going
\* on is one for which a scan reached that verdict.
AtRiskWasReached ==
  \A b \in Blobs :
    (Listed(b) /\ b # blob /\ ~Recoverable(b)) => logged[b] = "AT_RISK"

=============================================================================
