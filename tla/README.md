# A verification of the EigenDA blob observer

TLA+ models of the prober of the EigenDA blob observer (`src/prober`, Go) and of
what its dashboard (`src/dashboard`, Next.js) derives from the tables, with TLC
runs on small instances and TLAPS proofs for every instance.

## 1. The system

The prober watches the blobs that EigenDA publishes and writes what it finds to
PostgreSQL; the dashboard only reads those tables. `main.go` opens the database,
runs the migrations, resolves the contracts and calls `Prober.Run`, which warms
the operator cache and starts four goroutines. SIGINT and SIGTERM cancel the one
context they all work under; `Run` returns when all four have. Docker restarts
the container unless it was stopped (`docker-compose.yml:32`).

The goroutines never talk to each other. They meet in the tables: the collector
fills `observed_blobs`, and *a blob without a row* in `retrieval_probes` or
`operator_probes` **is** the work queue of the relay verifier or the operator
verifier. There is no claim, no lease and no "done" mark; every question about
retries, duplicates and starvation comes down to which rows exist.

| component | state | operations | what is hard |
|---|---|---|---|
| Collector (`prober.go:87-145`) | `lastSeenTimestamp` (memory), `observed_blobs` | poll, upsert a page, move the watermark | failed inserts, late blobs, full pages, restarts |
| Relay verifier (`prober.go:149-178`) | a batch of goroutines, a semaphore, `retrieval_probes`, `attestation_snapshots` | select a batch, probe, wait | batch barrier, starvation, the reverifier beside it |
| Reverifier (`prober.go:209-236`) | the sample in hand | sample each age group, probe | concurrency with the relay verifier |
| Operator verifier (`prober.go:182-205`, `304-340`) | the scan in hand, `operator_probes` | select one blob, scan all operators, log the verdict | crash in a scan, lost rows, partial operator lists |
| Operator discovery (`operator/discovery.go`) | operator cache with a ttl, failure counts | `GetOperators`, `ReportResult` | partial failure of a walk that is then cached, a registry that changes under the walk |
| Relay registry (`registry/registry.go`) | URL cache with a ttl | `GetRelayURL`, `NewFromDirectory` | concurrent fills of one entry |
| Start (`main.go`, `db.go:63-142`) | what is resolved so far | open, migrate, resolve, run | any step fails, or the process dies between two |
| DataAPI client (`dataapi/client.go`) | none | feed, certificate, attestation; retries on 429 | retries, no context |
| Relay and operator clients | none | `GetBlob`, `ProbeChunks` | timeouts |
| Running prober (`prober.go:59-83`, `main.go:79-93`) | the context, what is open | start, wait for all, close | goroutines of goroutines, calls that ignore the context |
| Database layer (`db/db.go`) | the tables, a connection pool | inserts, the two "unprobed" queries, the aged sample | the queue is a query |
| Dashboard API (`dashboard/src/app/api`) | none | reads and aggregates | reads in the middle of a scan, time windows |
| Configuration, `quorum_check`, generated protobuf, pages | none of their own | | |

What makes them correct:

* Collector: every published blob gets into the table, or we can say exactly why
  it does not; a crash is never the reason.
* Relay verifier: a blob is recorded once; a blob that has a certificate is
  probed unless newer blobs keep it out; failures are failures of the relay and
  not of the prober; at most ten blobs are in flight.
* Operator verifier: one row per operator and blob; the verdict that is logged
  and the verdict that the table shows agree; a blob is never shown as more
  recoverable than the operators that answered make it; an observed blob gets scanned
  unless newer blobs without rows stand before it (the query takes the newest one, and a
  scan takes longer than a blob needs to arrive, so older blobs may starve).
* Relay registry: no answer is older than the ttl and one call, whoever filled the
  cache.
* Lifecycle: the goroutines start only with what they need, a cancelled prober
  finishes what it holds and exits, and nothing is closed while it is in use.
* Dashboard: the verdict on a blob is the one the prober reached, and the list of
  dead operators has those, and only those, that never answered.

Every place where this is hard to test is listed under `hazards` in
`PROJECT.json`, with the property that covers it or the reason why none does.

## 2. Modules

| module | models | how |
|---|---|---|
| `Collector` | collector, watermark, feed | one action per call that can fail; a page is the set of its unvisited blobs, visited newest first |
| `RelayVerifier` | relay verifier and reverifier with `probeBlob`, `probeRelay`, `fetchAttestation` | a `task` per goroutine; selection, semaphore, certificate, relay, insert and attestation are steps of their own |
| `OperatorVerifier` | operator verifier, `GetOperators` as it sees it, the recoverability query of the dashboard | the scan loop cut at its two blocking calls |
| `Discovery` | `GetOperators` with `fetchOperators` and `getOperatorAtIndex`, the cache and its ttl | one action per contract call; the registry may change and any call may fail at every step |
| `OperatorList` | what the operator verifier may expect of `GetOperators` | abstract specification: the list in force and the answer |
| `RelayRegistry` | `GetRelayURL` with its cache and lock, concurrent callers, a contract that changes | look-up, call and write are steps of their own; a URL is the number of its version; time is a counter |
| `Startup` | `main` up to `Run`: `db.New`, `RunMigrations`, `NewFromDirectory`, `NewDiscovery`, and the restarts of Docker | one action per call and outcome |
| `DataApi` | `doGet` and the three `Fetch` functions of the DataAPI client | the counter of the retry loop; extended by `Lifecycle` |
| `Lifecycle` | `Run`, the control flow of the four goroutines and of the goroutines of a batch, the signal, the deferred calls of `main` | every goroutine has a place in its code, `After` names the places that can follow a call; the tables and the answers are left out |
| `Dashboard` | the recoverability and the dead-operator queries of `operators/route.ts` | extends `OperatorVerifier` by a clock and by the columns `probe_timestamp` and `operator_socket` |
| `WorkQueue` | what a verifier promises about the table it fills | abstract specification: take blobs without a row, one row per entry while in hand, leave; `OperatorVerifier` and `RelayVerifier` implement it |
| `MC...` | the instances for TLC | constants and symmetry only |
| `CollectorProofs`, `OperatorVerifierProofs`, `RelayVerifierProofs`, `DiscoveryProofs`, `RelayRegistryProofs`, `StartupProofs`, `DashboardProofs`, `LifecycleProofs` | theorems and their proofs | each extends the module it is about; `DashboardProofs` also the proofs about the operator verifier |

Conventions shared by the modules:

* `process` is `running`, `cancelled` (the signal was seen, the context is
  cancelled, the goroutines still run), `exited` (Run has returned) or
  `crashed`. `Crash` may fall between any two steps; it clears the memory and
  keeps the tables. `Restart` models the restart policy. `MaxRestarts` bounds
  how often.
* Whatever runs under the context fails once it is cancelled: queries and inserts
  need `process = "running"` to succeed, a gRPC call made under a cancelled
  context comes back as `cancelled`. `FetchBlobFeed`, `FetchCertificate` and
  `FetchAttestationInfo` take no context and may succeed at any time.
* An insert has two outcomes, stored and lost; the callers drop the error.
* A query that fails or finds nothing only makes the goroutine sleep and is not
  a step.
* `ORDER BY requested_at DESC` leaves the order of equal times open, so the
  models choose.

Data that is left out: the columns that no query selects by (sizes,
commitments, status, latency, age), error texts except whether a call failed
because of the cancelled context, and time. The ttl of the operator cache is
the action `CacheExpires`; the age groups of the reverifier are a sample of any
observed blobs, which allows more than the code does. Operators are named by what
`operator_probes` stores of them, the first eight bytes of the id (`prober.go:316`). Only `RelayRegistry`, where
the ttl is the point, and `Dashboard`, whose query has a window, have a clock.

`OperatorVerifier`: the rows carry the `SERIAL` id, so that two equal answers
would be two rows. An answer carries any number of chunks of `Answers`, since
`client.go:72` counts what it is sent; `Share`, what an operator really holds, is read by
no action, only by `NeverOverstated`, which has the honesty of the stored answers as its
hypothesis. The return without operator discovery (`prober.go:183-186`) is in `Lifecycle`.
`cache` is the live part of the cache of `Discovery`: `{}`
stands for an empty or an old one. A fetch may bring back any non-empty part of
the registered operators, because `GetOperators` stops at the first quorum that
fails and skips every index that fails. `logged` keeps the last verdict logged
for a blob.

`Collector`: `dropped`, `late` and `offPage` are history variables that no
action reads. `dropped` and `late` are forgotten when the process dies, for a
restart begins again with the watermark 0; `offPage` is not.

`RelayVerifier`: `registry` says whether `main` found a relay registry; without one
`probeBlob` returns at once (`NoRegistry`). `sem` is the channel that a goroutine was
started with: each batch makes its own (`NewChannel`, one that no goroutine at work has),
and a goroutine waits only for those of its own channel. An element of `RelayKeys` is an
entry of `relay_keys`: the loop at `prober.go:260` compares nothing, so a certificate that
named a relay twice would have two entries and two rows. The column `by` of a row is
history. `nth` replaces the
`SERIAL` id and tells two rows for one relay apart. What a relay answered, well
or badly, is one outcome here: no property of the prober depends on it.

`Discovery`: the registry is a sequence of slots for every quorum, numbered from
0 as in the contract; an empty slot and an operator without a socket are both
`NoOperator`. One index is two calls in the code, of which the second only asks
for the socket of the operator just read, so it is one step. `Change` replaces or
adds one slot between any two calls. `FailCount` is 0 for everyone: the map is
filled by `ReportResult` alone, and nothing in `src/` calls it; the stable sort is
modelled by what it does with whatever counts there are. `fresh` says that the ttl
has not run out; `answer` is empty from the start of a walk to its end. `spoiled` is history. `OperatorVerifier` does
not compose with this module yet: its discovery actions are the three that
`OperatorList` allows (an answer from the list in force, a new list, an error).

`RelayRegistry`: a caller that hits the cache changes nothing and is not a step;
what it would answer is `cache[k].url` while `Fresh(k)`. Its test of the ttl and its
return are one step, as they are under the read lock. The clock is not tied to the
steps, except that a call and the write of its answer are over after `MaxCall`
ticks. The code sets no deadline for the call, so `MaxCall` is whatever the longest
call took; the theorem holds for each. `replaced`, `asked` and `readAt` are history. The cache of the code has no
entry where the model has `NoEntry`.

`Lifecycle`: a goroutine stands at the call it is in: one of the DataAPI (`Fetches`),
of the database (`DbCalls`), or of the chain, a relay or a validator. The first ignore
the context and may be limited by 429; database calls fail once the context is
cancelled; of the last, `GetOperators` may still answer from its cache. A sleeping
goroutine is at `top`: the next thing it does is to look at the context. `left` counts
down the elements of the slices a pass ranges over, so that every loop is finite
without saying how long it is. `registry` and `discovery` say whether `main` has them;
without the one `probeBlob` returns at once, without the other the third goroutine
does. `After`, with a part for each function of the code, is the only place where answers matter, so the model has every order of
calls of the code and some more (a certificate may follow a failed one at once).

`WorkQueue`: for the operator verifier the entries of a blob are the operators, and the
hand is the blob of the scan. For the relay verifier they are the relays and the key -1,
the rows are those of the verifier (not of the reverifier), and the hand is what the
goroutines of the batch hold. A crash empties the hand, which `Leave` allows. That it
takes only when nothing is in hand is the batch barrier.

`Dashboard`: ids of rows index the sequence `columns`. The socket of an operator may
change only when the list of operators is read again, since a scan takes it from the
list. The LIMIT of the recoverability query cuts the page, not a verdict, and is left
out, as are the averages.

`Startup`: the settings are chosen at the start and kept by restarts, as is what the
directory answers; `dialable` says whether the endpoint is one that `ethclient.Dial` can
connect to, which may still fail at any one start and then ends it. `LookupOrder` is the
order in which `NewFromDirectory` looks names up: the candidates, then the names of the
directory with "relay" in them. `README.md:117` names `RELAY_REGISTRY`, which is none of
the candidates: in that deployment the second list is the normal way, and the property is
about both lists. `db.New` opens and pings in one step; the statements of
`RunMigrations` go to the server as one query and take effect together, and since
they are all `IF NOT EXISTS` the tables may be there already. Docker also starts a
container whose process ended by itself, so `Restart` follows `log.Fatalf` as well
as `Kill`. The 30 seconds that all calls of `NewFromDirectory` share are covered by
letting each of them fail. `missed` is history.

## 3. Runs

| run | question | bounds | states |
|---|---|---|---|
| `operator_verifier` | `TypeOK`, `OneRowPerOperator`, `NoShutdownRows`, `NeverOverstated`, `VerdictMatchesTable`, `QueueSpec`, `ScannedOrCrowdedOut`, `ShutdownCompletes` | 2 blobs, 2 operators with shares 1 and 2, answers of 1 or 2 chunks, threshold 2, 1 restart | 390,144 |
| `operator_interrupted` | violation: `AtRiskWasReached` | as above, answers of 0 to 2 chunks | |
| `collector` | `TypeOK`, `OnlyKnownLosses`, `CollectedOrLost` | 4 blobs (two at one time), page of 2, 2 restarts | 36,697 |
| `relay_verifier` | `TypeOK`, `VerifiedOnce`, `NoShutdownFailures`, `InFlightBound`, `QueueSpec` | 2 blobs, 2 relays, 2 goroutines, semaphore of 1, 1 round, 1 restart, symmetric goroutines, with and without a registry | 762,860 |
| `relay_crowded` | `ProbedOrCrowdedOut`, `ShutdownCompletes` | a newer blob without relay keys, batch of 1, the reverifier beside it, with and without a registry | 78,124 |
| `discovery` | `TypeOK`, `NoDuplicates`, `CompleteUnlessSpoiled`, `ListSpec` | every registry of at most 2 quorums with at most 2 slots, 3 operators (symmetric), 2 changes | 125,191 |
| `discovery_partial` | violation: `Complete` | no change | |
| `relay_registry` | `TypeOK`, `AnswersAreRecent`, `StepsBackOnlyInARace` | 1 key, 2 callers (symmetric), ttl 2, calls of at most 1 tick, 6 ticks, 2 changes | 181,669 |
| `startup` | `TypeOK`, `ReadyToRun`, `FirstNameWins`, `ComesUp` | 2 candidates, 2 listed names (one shared), 2 addresses, 2 kills, endpoint dialable or not | 12,106 |
| `lifecycle` | `TypeOK`, `NoUseAfterClose`, `PassesEnd`, `ShutdownCompletes`, `KeepsGoing` | batches of up to 2, semaphore of 1, 2 tries per call, 2 elements of slices per pass, with and without registry and discovery | 88,464 |
| `dashboard` | `DashTypeOK`, `NoLivingDead`, `ReportMatchesDashboard`, `VerdictOnlyAges`, `DeadUntilProbed` | 2 blobs, 2 operators with shares 1 and 2, answers of 1 or 2 chunks, threshold 2, 2 sockets (symmetric), window of 1 step, 1 tick, dead after 1 probe, no restart | 2,858,992 |
| `dashboard_dead` | violation: `AllFailuresAreListed` | as above, dead after 2 probes | |

Why the bounds are enough to be interesting. Two operators are the least with
which a scan can be cut between two rows, and with shares 1 and 2 against a
threshold of 2 one operator alone may or may not recover a blob, and the operator that
holds 1 chunk may claim 2. An answer without chunks counts like a refusal in every sum, so
the passing runs leave it to the refusals; the violation run has it. Two blobs let
one blob wait while another is scanned, and let the newer starve the older.
With four blobs and a page of two a page can overflow, two blobs share a time,
and one can be late behind either end of the page. Two quorums of two slots let an
operator be registered twice, move to a slot the walk has yet to reach, and be lost
with a whole quorum or with one index; `MaxQuorums` is 2 where the code has 10, so
that a registry can also be as long as the walk. One restart lets a crash cut a
scan that the next run of the process meets; the collector, which keeps its
watermark in memory, has two, for a crash in the run after a crash. Six ticks are
enough for three fills of one entry with a ttl of two, and two changes for an old
answer to overwrite one that is newer; the entries of two keys never meet. One of the
two listed names is no candidate and comes first, so each list can win. Two goroutines
behind channels of one make a batch that starts before the last one is done visible in
`InFlightBound`.
In `lifecycle` a batch of two behind a semaphore of one lets one goroutine wait for the
other while a signal arrives; two elements per pass reach every call of every goroutine,
two tries are the least with a second request. In `dashboard` two blobs let an operator
be asked at two sockets, and one tick lets the window cut a scan between two rows; the
number of probes to be dead only scales how many blobs that takes. `MaxRetries` is 3,
`Hour` one hour and `DeadAfter` 5 in the code.
`CHECK_DEADLOCK` is off for the three goroutines: after a graceful exit and the
last restart the system really stops. It is off for `Startup`, which is over when
`Run` begins, for `Lifecycle`, which ends with the process, for `Dashboard`, and for `RelayRegistry`, where the bound on time stops everything. Discovery never stops, and its runs check
for deadlock.

Fairness (`FairSpec` of each module). The goroutine is scheduled and every call
it makes comes back: `ProbeChunks` has a timeout of 5 s, `GetBlob` of 30 s, HTTP
of 30 s, so its steps are weakly fair. An insert that is tried over and over
succeeds now and then, and so do a feed and a discovery that are asked over and
over: strong fairness of those outcomes, because each can fail any finite number
of times. A crashed container is started again. An exit after a signal is never
undone by fairness. `Lifecycle` is weakly fair to `main`, to each of the four and to
the goroutines of a batch together; it needs strong fairness once, for `Stop`: when the
ticker has fired and the context is done, Go's select chooses at random, so it does not
choose the ticker for ever. Nothing is assumed of the answers there: shutdown works
with every call failing or limited. `Startup` adds that the database, an endpoint that can be dialled and every
name of the directory answer now and then if they are asked in one start after another;
that a start gets to the goroutines is stated for each number of kills, so the bound on
kills carries nothing. One assumption is stronger than the code: the contract calls
of the registry and of discovery have no deadline, so one that never answered
would stop its goroutine for good; the liveness results are for a chain that
answers or refuses. The two that speak of a blob, `ScannedOrCrowdedOut` and
`ProbedOrCrowdedOut`, hold with a finite set of blobs as with any other, because they let
the blob wait whenever as many others as a query takes are at least as new: each may wait
for ever when blobs arrive faster than they are probed, and no other reason (a failing
discovery, a lost row, a restart) makes it, except the shutdown.

What the violations show:

* `operator_interrupted`: the queue is "no row at all", so a scan cut short after
  any of its rows is never resumed and its blob reads as not recoverable for as
  long as the dashboard lists it. TLC shows the shortest such history, a list of one
  operator and a crash between its row and the verdict.
* `discovery_partial`: `GetOperators` takes every error for the end of the quorums,
  so one failed call returns, and caches for the ttl, a list without the operators
  of the quorums that follow.
* `dashboard_dead`: failures are grouped by operator and socket but compared with all
  probes of the operator, so an operator that changes its socket can fail for ever
  without being listed.

Other places where the code does not do what a comment or the README says, found while
modelling and kept out of the runs: the watermark of the collector passes a blob whose
insert failed, against "collects every blob" (`README.md:3`), and its loop also stops at
blobs nobody has seen, since the watermark is a time and not a set of keys
(`prober.go:116`): both are ways to lose a blob that `OnlyKnownLosses` names. The list of
operators is sorted by counts that nobody writes (`discovery.go:180`, `ReportResult` has
no caller), so operators that answer are not asked first. `last_error` of a dead operator
is the greatest error text, not the last (`operators/route.ts:58`). "Dead" means that
every probe ever failed, where `README.md:12` speaks of failures in a row: an operator
that answered once, long ago, is never listed.

## 4. Proofs

Checked by `tlapm` for all constants that satisfy the assumptions of the modules.

`CollectorProofs`
* `TypeCorrect`: `TypeOK` is invariant.
* `LossesAreKnown`: `OnlyKnownLosses` is invariant. It is inductive relative to
  `TypeOK`: its second conjunct, on the page in hand, is what makes it so. The
  step with an argument of its own is `FinishPage`: a loop that has ended has
  only blobs at or below the old watermark left on its page (`EndedLoop`), so
  whatever is missing without an excuse is newer than the page.

`OperatorVerifierProofs`
* `TypeCorrect`: `TypeOK` is invariant.
* `NeverTwoRows`: `OneRowPerOperator` is invariant. By itself it is not
  inductive: that the row about to be written is the first of its operator
  needs `RowsArePassed` (the rows of the blob in hand are of operators the loop
  has passed) and that the operator in hand has left `todo`; together they are
  `ScanInv`. The LEFT JOIN of the query enters in the step `Query`: the blob
  selected has no rows.
* `ShutdownLeavesNoRows`: `NoShutdownRows` is invariant, because an answer can
  only be `cancelled` once the process is (`ShutdownInv`), and then no insert
  succeeds.
* `ImplementsWorkQueue`: `Spec => QueueSpec`, on the invariant `ScanInv`: `Query` is
  `Take`, `InsertStored` is `Record` (`InsertRecords`: the row is the first of its
  operator and changes no other count), whatever forgets the scan is `Leave`.

* `ShownChunksExist`: `NeverOverstated` is invariant. Nothing bounds an answer in the
  model; the theorem has the honesty of the stored ones as a hypothesis. What it rests on
  is `OneRowPerOperator`: rows of one blob and their operators correspond one to one, so
  the sum over the rows is at most the sum of the shares of just these operators
  (`RowsWithinShares`, by induction on the rows). An operator with two rows would be
  counted twice and break it. `FiniteRows` is the invariant that there is a sum at all.
* `VerdictIsTheTables`: `Spec => VerdictMatchesTable`. `CounterInv` says that while the
  operators the loop has passed all have their rows, `totalChunks` is the sum over those
  rows. A lost row makes this void for the rest of the scan (`LostKeepsCounterInv`), a
  stored one adds the same number to both sides (`InsertKeepsCounterInv`).
* The lemmas on sums under these two: the library defines a sum by choice of a function
  over the subsets, so that there is one at all needs induction on the size of a set.
  `NatInductionOnSet` and `FiniteSetInduction` state that induction for a *set* of
  numbers or subsets, not for a predicate, and prove it from the minimum that
  `WellFoundedInduction` gives of a set; this is what the provers can use. On them rest `SumExists`,
  `SumOrder` (any order of summing gives one sum), `ChunksAdd`, `ChunksMonotone`.

`DashboardProofs`
* `ProberBesideDashboard`: `DashSpec => Spec` of the operator verifier, so that all of
  the above holds here.
* `DashTypeCorrect`: `DashTypeOK` is invariant, with the columns as long as the table and
  in the order of time.
* `OnlyTimeTakesBack`: `DashSpec => VerdictOnlyAges`. While the clock stands rows and
  columns only grow (`RowsOfAStep`, `ColumnsStay`), and a sum over more rows is no less.
* `LogAndPageAgree`: `DashSpec => ReportMatchesDashboard`, from `CounterInv`.
* `DeadNeverAnswered`: `NoLivingDead` is invariant: the failures under one socket are a
  part of the probes, and a part of a finite set with as many elements is the set.
* `OnlyAProbeRevives`: `DashSpec => DeadUntilProbed`.

`LifecycleProofs`, all for `Spec`, without fairness
* `TypeCorrect`: `TypeOK` is invariant.
* `ClosedAfterUse`: `NoUseAfterClose` is invariant. It says nothing of why a goroutine
  is out of its calls when `main` closes; the inductive invariant does: `PlacesInv` (each
  goroutine stays in its own function, and in the part of it that the settings
  allow), `BatchInv` (outside the wait of the relay verifier every goroutine of a batch is
  idle) and `PhaseInv` (`main` closes only when all four loops are done). `PlacesInv`
  rests on `AfterInPlaces`, a fact about the table of what follows a call.
* `PassesAreFinite`: `Spec => PassesEnd`. Each step of a goroutine that is not at rest
  brings it to rest or lowers, in this order, the elements left, the rank of the call
  (`LaterCall`) and the tries left. This is the part of `ShutdownCompletes` that needs
  no fairness, and the reason why it is enough that one goroutine of a batch moves.

`RelayVerifierProofs`
* `TypeCorrect`: `TypeOK` is invariant.
* `RecordedOnce`: `VerifiedOnce` is invariant. The inductive invariant
  `VerifiedInv` adds that no two goroutines hold one blob, that the rows of a blob
  in hand are of relays its goroutine has passed, and that the relay in hand is
  none of those still to ask. The barrier after a batch (`wg.Wait`) enters in the
  step `Query`: all goroutines are idle, and a blob selected has no rows.
* `ShutdownLeavesNoFailures`: `NoShutdownFailures` is invariant, as for the
  operator verifier.
* `SemaphoreHolds`: `InFlightBound` is invariant, for every capacity and batch. The guard
  of `Acquire` bounds the goroutines of one channel only. `OneChannel` says that all
  goroutines not idle were started with the same one; it is inductive because of the
  barrier in `Query`: nobody is at work when a batch brings its new channel.
* `ImplementsWorkQueue`: `Spec => QueueSpec`, on the invariant `VerifiedInv`: a batch
  is taken with empty hands and from blobs without rows (`QueryTakes`), a worker
  records (`InsertRecords`), the reverifier's rows do not count, and everything else
  only leaves blobs.

`DiscoveryProofs`
* `TypeCorrect`: `TypeOK` is invariant.
* `NobodyTwice`: `NoDuplicates` is invariant; with `TypeOK` it is inductive, and it
  does not depend on what the registry does meanwhile.
* `QuietWalksAreComplete`: `Spec => CompleteUnlessSpoiled`. The invariant
  `WalkInv` says that `found` is the set of operators in the slots the walk has
  passed (`Covered`), which at the end of the walk is everyone.
* `ImplementsOperatorList`: `Spec => ListSpec`, the refinement of `OperatorList`
  with the cache, as long as it is fresh, for the list in force.
* `ByFailCountKeepsOrder`, on which three of them rest: with no failure counted,
  the stable sort leaves the list as it is.

`RelayRegistryProofs`
* `TypeCorrect`: `TypeOK` is invariant.
* `StalenessIsBounded`: `AnswersAreRecent` is invariant. The bound is not inductive,
  for it says nothing of a call in flight or of when an entry was read. `AgeInv` does:
  an entry was read from the contract at most `MaxCall` before its time stamp and was
  valid then, and so was the answer in a caller's hands (`UpdateKeepsValid`).
* `OnlyRacesStepBack`: `Spec => StepsBackOnlyInARace`. `RaceInv` says of a caller with
  an answer that the entry is not newer than its answer, or was written after it
  called.

`StartupProofs`
* `TypeCorrect`: `TypeOK` is invariant.
* `NeverStartsUnprepared`: `ReadyToRun` is invariant, by `ReadyInv`, which says from
  which step on the tables exist.
* `NoSubstitute`: `FirstNameWins` is invariant. `LookupInv` says that every name of
  `LookupOrder` that the loops have passed has no address or its call failed, the
  candidates all of them once the second loop runs; `FoundIsFirst` is the step that takes
  an address.

The proofs assume only what the modules' `ASSUME`s say: finite sets of blobs,
operators and goroutines where the code has finite ones, natural bounds, that an empty
slot is not an operator, and that the goroutines of a batch are none of the four.

Every invariant and every action property that a passing run checks is a theorem. Only
model-checked, because it is out of reach of the prover, is what needs fairness:
`ScannedOrCrowdedOut`, `CollectedOrLost`, `ProbedOrCrowdedOut`, `ComesUp`, `KeepsGoing` and
`ShutdownCompletes`.

## 5. Plan

Done so far: the modules, runs and proofs above. What follows, in order of importance:

1. A module of scans that are cut short: that a blob with rows of some operators only is
   one whose scan met a lost row, a short list or the end of the process (what
   `operator_interrupted` shows can happen, and nothing else).
2. `OperatorVerifier` over `OperatorList` instead of discovery actions of its own.

Not modelled, and why:

* The connection pool: a call holds one connection and waits for nothing meanwhile, so
  the pool only makes calls wait.
* `ReportResult`, `IsBlacklisted`, `BlacklistedCount`, `SampleOperators`,
  `ParseRetrievalSocket`: nothing calls them.
* Status, survival, relays, probes and attestation routes: averages and plain reads,
  with no promise of the repository to hold them against.
* `quorum_check` (a stand-alone sequence of calls and prints), generated code, pages,
  settings that only tune a client, ABI packing, decoding of keys, socket parsing.
