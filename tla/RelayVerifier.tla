---------------------------- MODULE RelayVerifier ----------------------------
(***************************************************************************)
(* Goroutines 2 and 4 of the prober and the functions they share: the      *)
(* relay verifier and the reverifier.                                      *)
(*                                                                         *)
(* The relay verifier takes the newest blobs without a row in              *)
(* retrieval_probes, starts one goroutine for each, and waits for all of   *)
(* them (wg.Wait).  At most MaxInFlight of them are past the semaphore.    *)
(* The reverifier wakes up on a ticker and probes a sample of old blobs,   *)
(* one after the other, whether or not they have rows.                     *)
(*                                                                         *)
(* Both call probeBlob: fetch the certificate, then ask every relay it     *)
(* names and write one row per answer.  A certificate that cannot be read  *)
(* leaves a row with relay key -1; one that does not exist leaves none,    *)
(* and neither does a prober without a relay registry.                     *)
(*                                                                         *)
(* The loop runs over the entries of relay_keys as they come and compares  *)
(* nothing (prober.go:260): an element of RelayKeys is an entry, and a     *)
(* certificate that named a relay twice would have two entries for it.     *)
(***************************************************************************)
EXTENDS Integers, FiniteSets, Functions

CONSTANTS
  Blobs,          \* blob keys
  RequestedAt,    \* requested_at of every blob
  RelayKeys,      \* the entries of the relay_keys of every blob's certificate
  NoRelay,        \* the relay key -1 of a row without a relay
  Workers,        \* the goroutines the relay verifier can start for one batch
  Reverifier,     \* the reverifier goroutine
  BatchLimit,     \* the limit given to GetUnprobedBlobs
  MaxInFlight,    \* the capacity of the semaphore
  NoBlob,         \* no blob
  MaxRounds,      \* bound: how often the reverifier takes a sample
  MaxRestarts     \* bound: how often the process is started again

Relays == UNION {RelayKeys[b] : b \in Blobs}

ASSUME RelayAssumption ==
  /\ RequestedAt \in [Blobs -> Nat]
  /\ NoRelay \notin Relays
  /\ NoBlob \notin Blobs
  /\ Reverifier \notin Workers
  /\ BatchLimit \in Nat \ {0}
  /\ MaxInFlight \in Nat \ {0}
  /\ MaxRounds \in Nat
  /\ MaxRestarts \in Nat
  /\ IsFiniteSet(Workers) /\ Cardinality(Workers) >= BatchLimit

VARIABLES
  registry,        \* main found a relay registry: Prober.registry is not nil
  process,         \* the prober process: "running", "cancelled", "exited", "crashed"
  restarts,        \* how often it was started again
  observed,        \* table observed_blobs
  certified,       \* the blobs whose certificate the DataAPI has
  retrievalProbes, \* table retrieval_probes: its rows
  task,            \* what every goroutine is doing
  sem,             \* the channel of the batch a worker was last started for
  sample,          \* the aged blobs the reverifier has not reached in its round
  rounds,          \* how many samples it took
  attested         \* table attestation_snapshots: the blobs with a row in it

world  == <<registry, process, restarts, observed, certified>>
rounding == <<sample, rounds>>
vars   == <<world, retrievalProbes, task, rounding, attested, sem>>

Goroutines == Workers \cup {Reverifier}

Keys == Relays \cup {NoRelay}

-----------------------------------------------------------------------------
(* Rows and queries.                                                       *)

\* How a probe ended: with an answer, which may be a failure of the relay or of a
\* lookup, or because the context was cancelled under it.
Outcomes == {"answered", "cancelled"}

RowsOf(b) == {r \in retrievalProbes : r.blob = b}

\* The next row of b for relay k: nth stands for the SERIAL id and tells rows apart.
\* The column by is history: the table does not say who wrote a row.
Row(b, k, outcome, g) ==
  [blob |-> b, relay |-> k, outcome |-> outcome,
   by  |-> IF g = Reverifier THEN "reverifier" ELSE "verifier",
   nth |-> Cardinality({r \in RowsOf(b) : r.relay = k}) + 1]

\* Mutant: a blob that was tried once is not tried again.
UnprobedOnlyOnce == {b \in observed \ attested : RowsOf(b) = {}}

\* GetUnprobedBlobs before its ORDER BY and LIMIT.
Unprobed == {b \in observed : RowsOf(b) = {}}

\* ORDER BY requested_at DESC LIMIT: equal times come in any order.
IsBatch(S) ==
  /\ S \subseteq Unprobed
  /\ Cardinality(S) <= BatchLimit
  /\ S # Unprobed => Cardinality(S) = BatchLimit
  /\ \A b \in S, c \in Unprobed \ S : RequestedAt[c] <= RequestedAt[b]

\* A goroutine is at one place: "idle", "queued" for the semaphore, "certificate",
\* "relay", "insert" or "attestation"; key and outcome are the row it is to write.
Task(at, b, keys, key, outcome) ==
  [at |-> at, blob |-> b, keys |-> keys, key |-> key, outcome |-> outcome]

Idle == Task("idle", NoBlob, {}, NoRelay, "answered")

AllIdle == \A w \in Workers : task[w] = Idle

InFlight == {w \in Workers : task[w].at \notin {"idle", "queued"}}

\* make(chan struct{}, 10), once per batch: a channel that no goroutine at work has.
Channels == 1..(Cardinality(Workers) + 1)

NewChannel == CHOOSE c \in Channels : \A w \in Workers : task[w] # Idle => sem[w] # c

-----------------------------------------------------------------------------
Init ==
  /\ registry \in BOOLEAN
  /\ process = "running"
  /\ restarts = 0
  /\ observed = {}
  /\ certified = {}
  /\ retrievalProbes = {}
  /\ task = [g \in Goroutines |-> Idle]
  /\ sem = [w \in Workers |-> 1]
  /\ sample = {}
  /\ rounds = 0
  /\ attested = {}

(* The environment: the collector, the DataAPI, signals and crashes.       *)

\* The collector goroutine inserts a blob.
Observe(b) ==
  /\ process = "running"
  /\ b \notin observed
  /\ observed' = observed \cup {b}
  /\ UNCHANGED <<registry, process, restarts, certified, retrievalProbes, task, rounding, attested, sem>>

\* The disperser has certified a blob.
Certify(b) ==
  /\ b \notin certified
  /\ certified' = certified \cup {b}
  /\ UNCHANGED <<registry, process, restarts, observed, retrievalProbes, task, rounding, attested, sem>>

\* SIGINT or SIGTERM: the context is cancelled.
Cancel ==
  /\ process = "running"
  /\ process' = "cancelled"
  /\ UNCHANGED <<registry, restarts, observed, certified, retrievalProbes, task, rounding, attested, sem>>

\* The process dies; only the tables survive.
Crash ==
  /\ process \in {"running", "cancelled"}
  /\ restarts < MaxRestarts
  /\ process' = "crashed"
  /\ task' = [g \in Goroutines |-> Idle]
  /\ sample' = {}
  /\ UNCHANGED <<registry, restarts, observed, certified, retrievalProbes, rounds, attested, sem>>

\* The container is started again.
Restart ==
  /\ process \in {"crashed", "exited"}
  /\ restarts < MaxRestarts
  /\ process' = "running"
  /\ restarts' = restarts + 1
  /\ UNCHANGED <<registry, observed, certified, retrievalProbes, task, rounding, attested, sem>>

-----------------------------------------------------------------------------
(* The loops of the two goroutines.                                        *)

Alive == process \in {"running", "cancelled"}

\* Mutant: the next batch does not wait for the goroutines of the last one.
QueryNoBarrier ==
  /\ process = "running"
  /\ \E S \in SUBSET Unprobed :
       /\ S # {} /\ IsBatch(S)
       /\ \E f \in [S -> {w \in Workers : task[w] = Idle}] :
            /\ IsInjective(f)
            /\ task' = [g \in Goroutines |->
                 IF g \in Range(f)
                   THEN Task("queued", CHOOSE b \in S : f[b] = g, {}, NoRelay, "answered")
                   ELSE task[g]]
            /\ sem' = [w \in Workers |-> IF w \in Range(f) THEN NewChannel ELSE sem[w]]
  /\ UNCHANGED <<world, retrievalProbes, rounding, attested>>

\* GetUnprobedBlobs(ctx, 20) and the start of one goroutine for each blob of the
\* batch.  A failed or empty query only sleeps.
Query ==
  /\ process = "running"
  /\ AllIdle
  /\ \E S \in SUBSET Unprobed :
       /\ S # {} /\ IsBatch(S)
       /\ \E f \in [S -> Workers] :
            /\ IsInjective(f)
            /\ task' = [g \in Goroutines |->
                 IF g \in Range(f)
                   THEN Task("queued", CHOOSE b \in S : f[b] = g, {}, NoRelay, "answered")
                   ELSE task[g]]
            /\ sem' = [w \in Workers |-> IF w \in Range(f) THEN NewChannel ELSE sem[w]]
  /\ UNCHANGED <<world, retrievalProbes, rounding, attested>>

\* GetAgedBlobKeys: a random sample of the blobs of an age group.  Time is not
\* modelled, so any observed blob may be of the age.
Sample ==
  /\ process = "running"
  /\ rounds < MaxRounds
  /\ task[Reverifier] = Idle
  /\ sample = {}
  /\ sample' \in SUBSET observed \ {{}}
  /\ rounds' = rounds + 1
  /\ UNCHANGED <<world, retrievalProbes, task, attested, sem>>

\* The reverifier goes on to the next blob of its sample; the loop does not look
\* at the context.
NextAged ==
  /\ Alive
  /\ task[Reverifier] = Idle
  /\ \E b \in sample :
       /\ sample' = sample \ {b}
       /\ task' = [task EXCEPT ![Reverifier] = Task("certificate", b, {}, NoRelay, "answered")]
  /\ UNCHANGED <<world, retrievalProbes, rounds, attested, sem>>

\* Both loops see the cancelled context and Run returns.
Exit ==
  /\ process = "cancelled"
  /\ AllIdle
  /\ task[Reverifier] = Idle
  /\ sample = {}
  /\ process' = "exited"
  /\ UNCHANGED <<registry, restarts, observed, certified, retrievalProbes, task, rounding, attested, sem>>

-----------------------------------------------------------------------------
(* A goroutine.                                                            *)

At(g, place) == Alive /\ task[g].at = place

\* sem <- struct{}{}: only the goroutines of the same batch fill that channel.
Acquire(g) ==
  /\ At(g, "queued")
  /\ Cardinality({w \in InFlight : sem[w] = sem[g]}) < MaxInFlight
  /\ task' = [task EXCEPT ![g].at = "certificate"]
  /\ UNCHANGED <<world, retrievalProbes, rounding, attested, sem>>

\* probeBlob is over: a worker goes on to the attestation, the reverifier to the
\* next blob of its sample.
AfterProbe(g) ==
  IF g = Reverifier THEN Idle ELSE [task[g] EXCEPT !.at = "attestation"]

\* Without a relay registry probeBlob returns at once.
NoRegistry(g) ==
  /\ At(g, "certificate")
  /\ ~ registry
  /\ task' = [task EXCEPT ![g] = AfterProbe(g)]
  /\ UNCHANGED <<world, retrievalProbes, rounding, attested, sem>>

\* FetchCertificate answered; it runs without the context.  A certificate without
\* relay keys ends probeBlob like a missing one.
CertificateRead(g) ==
  LET keys == RelayKeys[task[g].blob] IN
  /\ At(g, "certificate")
  /\ registry
  /\ task[g].blob \in certified
  /\ task' = [task EXCEPT ![g] = IF keys = {} THEN AfterProbe(g)
                                 ELSE [task[g] EXCEPT !.at = "relay", !.keys = keys]]
  /\ UNCHANGED <<world, retrievalProbes, rounding, attested, sem>>

\* HTTP 500, certificate not found: probeBlob returns without a row.
CertificateMissing(g) ==
  /\ At(g, "certificate")
  /\ registry
  /\ task[g].blob \notin certified
  /\ task' = [task EXCEPT ![g] = AfterProbe(g)]
  /\ UNCHANGED <<world, retrievalProbes, rounding, attested, sem>>

\* Any other error of FetchCertificate becomes a failure row with relay key -1.
CertificateFails(g) ==
  /\ At(g, "certificate")
  /\ registry
  /\ task' = [task EXCEPT ![g] = [task[g] EXCEPT !.at = "insert", !.key = NoRelay,
                                                 !.outcome = "answered"]]
  /\ UNCHANGED <<world, retrievalProbes, rounding, attested, sem>>

\* What GetRelayURL and GetBlob, both under the context, can come back with.
Answer == IF process = "cancelled" THEN "cancelled" ELSE "answered"

\* probeRelay up to the answer of one relay.
AskRelay(g) ==
  /\ At(g, "relay")
  /\ \E k \in task[g].keys :
       task' = [task EXCEPT ![g] = [task[g] EXCEPT !.at = "insert", !.key = k,
                                                   !.keys = @ \ {k}, !.outcome = Answer]]
  /\ UNCHANGED <<world, retrievalProbes, rounding, attested, sem>>

\* After the row of one relay the loop goes on to the next.
AfterInsert(g) ==
  IF task[g].keys = {} THEN AfterProbe(g) ELSE [task[g] EXCEPT !.at = "relay"]

\* Mutant: the row is written under a context of its own.
InsertStoredDetached(g) ==
  /\ At(g, "insert")
  /\ retrievalProbes' = retrievalProbes \cup
       {Row(task[g].blob, task[g].key, task[g].outcome, g)}
  /\ task' = [task EXCEPT ![g] = AfterInsert(g)]
  /\ UNCHANGED <<world, rounding, attested, sem>>

\* InsertProbeResult stored the row; it runs under the context.
InsertStored(g) ==
  /\ At(g, "insert")
  /\ process = "running"
  /\ retrievalProbes' = retrievalProbes \cup
       {Row(task[g].blob, task[g].key, task[g].outcome, g)}
  /\ task' = [task EXCEPT ![g] = AfterInsert(g)]
  /\ UNCHANGED <<world, rounding, attested, sem>>

\* InsertProbeResult failed and its error is dropped.
InsertLost(g) ==
  /\ At(g, "insert")
  /\ task' = [task EXCEPT ![g] = AfterInsert(g)]
  /\ UNCHANGED <<world, retrievalProbes, rounding, attested, sem>>

\* Mutant: a goroutine without an attestation never calls wg.Done.
AttestHangs(g) ==
  /\ At(g, "attestation")
  /\ process = "running"
  /\ attested' = attested \cup {task[g].blob}
  /\ task' = [task EXCEPT ![g] = Idle]
  /\ UNCHANGED <<world, retrievalProbes, rounding, sem>>

\* Mutant: a goroutine that ends does not leave its blob.
AttestKeepsBlob(g) ==
  /\ At(g, "attestation")
  /\ task' = [task EXCEPT ![g].at = "idle"]
  /\ UNCHANGED <<world, retrievalProbes, rounding, attested, sem>>

\* fetchAttestation, with or without an answer and its rows; wg.Done and the
\* release of the semaphore.
Attest(g) ==
  /\ At(g, "attestation")
  /\ \/ process = "running" /\ attested' = attested \cup {task[g].blob}
     \/ UNCHANGED attested
  /\ task' = [task EXCEPT ![g] = Idle]
  /\ UNCHANGED <<world, retrievalProbes, rounding, sem>>

Step(g) ==
  \/ Acquire(g)
  \/ NoRegistry(g) \/ CertificateRead(g) \/ CertificateMissing(g) \/ CertificateFails(g)
  \/ AskRelay(g) \/ InsertStored(g) \/ InsertLost(g) \/ Attest(g)

Verify ==
  \/ Query \/ Sample \/ NextAged \/ Exit
  \/ \E g \in Goroutines : Step(g)

Environment ==
  \/ \E b \in Blobs : Observe(b) \/ Certify(b)
  \/ Cancel \/ Crash \/ Restart

Next == Verify \/ Environment

Spec == Init /\ [][Next]_vars

\* Every call comes back, so every goroutine moves; a database that is asked over
\* and over stores a row now and then; a crashed container is started again.
Fairness ==
  /\ WF_vars(Query)
  /\ WF_vars(NextAged)
  /\ WF_vars(Exit)
  /\ \A g \in Goroutines :
       /\ WF_vars(Step(g))
       /\ SF_vars(Acquire(g))
       /\ SF_vars(InsertStored(g))
  /\ WF_vars(process = "crashed" /\ Restart)

FairSpec == Spec /\ Fairness

-----------------------------------------------------------------------------
(* Properties.                                                             *)

Tasks ==
  [at : {"idle", "queued", "certificate", "relay", "insert", "attestation"},
   blob : Blobs \cup {NoBlob}, keys : SUBSET Relays, key : Keys, outcome : Outcomes]

Rows ==
  [blob : Blobs, relay : Keys, outcome : Outcomes, by : {"verifier", "reverifier"}, nth : Nat \ {0}]

\* Every variable keeps to its set; a goroutine that works has a blob.
TypeOK ==
  /\ registry \in BOOLEAN
  /\ process \in {"running", "cancelled", "exited", "crashed"}
  /\ restarts \in 0..MaxRestarts
  /\ observed \in SUBSET Blobs
  /\ certified \in SUBSET Blobs
  /\ retrievalProbes \in SUBSET Rows /\ IsFiniteSet(retrievalProbes)
  /\ task \in [Goroutines -> Tasks]
  /\ \A g \in Goroutines :
       IF task[g].at = "idle" THEN task[g] = Idle ELSE task[g].blob \in observed
  /\ sem \in [Workers -> Channels]
  /\ sample \in SUBSET observed
  /\ rounds \in 0..MaxRounds
  /\ attested \in SUBSET observed

VerifierRows(b) == {r \in RowsOf(b) : r.by = "verifier"}

\* The relay verifier records a blob once: whatever batches, crashes, restarts and
\* reverifications come in between, it never has two rows for one entry of relay_keys,
\* and a blob with its row for an unreadable certificate has no other row of it.
\* Both the LEFT JOIN of GetUnprobedBlobs and the wg.Wait between batches matter.
VerifiedOnce ==
  \A b \in Blobs : \A r1, r2 \in VerifierRows(b) :
    (r1.relay = r2.relay \/ r1.relay = NoRelay) => r1 = r2

\* The verifier's rows of retrieval_probes and the batch, as WorkQueue sees them.
RowCounts ==
  [b \in Blobs |-> [k \in Keys |-> Cardinality({r \in VerifierRows(b) : r.relay = k})]]

InHand == {task[w].blob : w \in Workers} \ {NoBlob}

Queue == INSTANCE WorkQueue
  WITH Items <- Blobs, Entries <- Keys, rows <- RowCounts, hand <- InHand

\* The relay verifier implements the promise of WorkQueue for its own rows of
\* retrieval_probes, whatever the reverifier adds to the same table: the blobs of
\* a batch have no row of it when they are taken, no batch is taken before the
\* last one is done, and no blob is taken again once it has a row.
QueueSpec == Queue!Spec

\* A relay that failed only because the prober was shutting down never gets a
\* failure row: the INSERT runs under the same context as the call it reports on.
NoShutdownFailures == \A r \in retrievalProbes : r.outcome # "cancelled"

\* Never more than MaxInFlight goroutines of the relay verifier ask for blobs, although
\* every batch makes a channel of its own and a goroutine only waits for room in its
\* own: wg.Wait keeps a batch from starting while goroutines hold the last channel.
InFlightBound == Cardinality(InFlight) <= MaxInFlight

\* b is crowded out: the blobs without a row that are as new as b fill a batch.
CrowdedOut(b) ==
  Cardinality({c \in Unprobed \ {b} : RequestedAt[c] >= RequestedAt[b]}) >= BatchLimit

\* With a relay registry, an observed blob with a certificate that names relays gets a
\* row, unless newer blobs without a row fill a batch again and again or the prober is
\* shut down.
ProbedOrCrowdedOut ==
  \A b \in Blobs :
    (registry /\ b \in observed \cap certified /\ RelayKeys[b] # {}) ~>
      (RowsOf(b) # {} \/ CrowdedOut(b) \/ process \in {"cancelled", "exited"})

\* Once the context is cancelled, the batch and the sample in hand are finished
\* and Run returns, unless the process dies first.
ShutdownCompletes == (process = "cancelled") ~> (process # "cancelled")

=============================================================================
