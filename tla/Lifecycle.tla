------------------------------ MODULE Lifecycle ------------------------------
(***************************************************************************)
(* The running prober as a whole: main, the four goroutines of Run and the *)
(* goroutines the relay verifier starts for a batch, with the resources    *)
(* they share.  Run returns when all four have returned; only then main    *)
(* closes the clients and the database, in the reverse order of opening.   *)
(*                                                                         *)
(* The tables and the answers are left out: what a goroutine does next is  *)
(* one of the places After names.  A goroutine stands at the call it is    *)
(* in.  Calls of the database, the chain and the validators work under the *)
(* context and fail once it is cancelled; calls of the DataAPI do not.     *)
(* A goroutine that sleeps before its next look at the context is at "top".*)
(*                                                                         *)
(* Slices are finite: a pass goes through at most MaxCalls elements of the *)
(* slices it ranges over (left counts down).                               *)
(***************************************************************************)
EXTENDS DataApi, FiniteSets

CONSTANTS
  Workers,        \* the goroutines of a batch
  MaxInFlight,    \* the capacity of the semaphore
  MaxCalls        \* bound: the elements of all slices of one pass

Loops == {"collector", "relayVerifier", "operatorVerifier", "reverifier"}
Goroutines == Loops \cup Workers

ASSUME LifecycleAssumption ==
  /\ Workers \cap Loops = {}
  /\ Callers = Goroutines
  /\ MaxInFlight \in Nat \ {0}
  /\ MaxCalls \in Nat \ {0}

VARIABLES
  registry,       \* the relay registry was configured: p.registry is not nil
  discovery,      \* operator discovery was set up: p.opDiscovery is not nil
  main,           \* where main is: "warm", "wait", "closing", "exited"
  open,           \* the resources that are open
  ctxDone,        \* the context is cancelled
  at,             \* where every goroutine is; "idle" and "done" are outside its function
  left            \* how many elements of its slices are left to a pass

vars == <<registry, discovery, main, open, ctxDone, at, left, tries>>

Fetches == {"feed", "certificate", "attestation"}
DbCalls == {"upsert", "batch", "failure", "row", "snapshot", "query", "store", "aged"}

\* The heads of range loops: going there takes an element of a slice.
Heads == {"upsert", "certificate", "relay", "snapshot", "chunks", "aged"}
Rest  == {"top", "tick", "idle", "done"}

\* What a goroutine uses where it stands.
Uses(place) ==
  {r \in {"database"}  : place \in DbCalls} \cup
  {r \in {"registry"}  : place = "relay"} \cup
  {r \in {"discovery"} : place = "list"}

-----------------------------------------------------------------------------
(* Where a goroutine goes after a call that succeeded or failed.           *)

\* probeBlob is over: the next aged blob or age group, or the attestation.
Probed(g) == IF g = "reverifier" THEN {"certificate", "aged", "tick"} ELSE {"attestation"}

\* Mutant: asks for an attestation until there is one.
AttestedRepeats(ok) == IF ok THEN {"snapshot", "idle"} ELSE {"attestation"}

\* fetchAttestation after its call.
Attested(ok) == IF ok THEN {"snapshot", "idle"} ELSE {"idle"}

\* The answers differ in more than ok: an empty page or list, a certificate that
\* does not exist, the end of a slice, no registry to probe with.

\* collectBlobs.
AfterPage(place, ok) ==
  CASE place = "feed"   -> {"top"} \cup {p \in {"upsert"} : ok}
    [] place = "upsert" -> {"upsert", "top"}

\* probeBlob and probeRelay.
AfterProbe(g, place, ok) ==
  CASE place = "certificate" -> Probed(g) \cup (IF ok THEN {"relay"} ELSE {"failure"})
    [] place = "relay"       -> {"row"}
    [] place = "row"         -> Probed(g) \cup {"relay"}
    [] place = "failure"     -> Probed(g)

\* GetUnprobedOperatorBlobs of the loop and probeAllOperators.
AfterScan(place, ok) ==
  CASE place = "query"  -> {"top"} \cup {p \in {"list"} : ok}
    [] place = "list"   -> IF ok THEN {"chunks"} ELSE {"top"}
    [] place = "chunks" -> {"store"}
    [] place = "store"  -> {"chunks", "top"}

\* ageBasedReverify.
AfterSample(ok) == {"aged", "tick"} \cup {p \in {"certificate"} : ok /\ registry}

\* A batch without blobs only sleeps; StartBatch is the other answer of its query.
After(g, ok) ==
  CASE at[g] \in {"feed", "upsert"} -> AfterPage(at[g], ok)
    [] at[g] = "batch"              -> {"top"}
    [] at[g] \in {"certificate", "relay", "row", "failure"} -> AfterProbe(g, at[g], ok)
    [] at[g] = "attestation"        -> Attested(ok)
    [] at[g] = "snapshot"           -> {"snapshot", "idle"}
    [] at[g] \in {"query", "list", "chunks", "store"} -> AfterScan(at[g], ok)
    [] at[g] = "aged"               -> AfterSample(ok)

\* The goroutine goes on; at rest the slices of its pass are forgotten.
Advance(g, ok) ==
  \E to \in After(g, ok) :
    /\ to \in Heads => left[g] > 0
    /\ at' = [at EXCEPT ![g] = to]
    /\ left' = [left EXCEPT ![g] = IF to \in Rest THEN MaxCalls
                                   ELSE IF to \in Heads THEN @ - 1 ELSE @]

-----------------------------------------------------------------------------
\* main has opened what is configured and caught the signals; Run begins with the
\* warm-up of the operator cache.
Init ==
  /\ registry \in BOOLEAN
  /\ discovery \in BOOLEAN
  /\ main = "warm"
  /\ open = {"database"} \cup {r \in {"registry"} : registry} \cup {r \in {"discovery"} : discovery}
  /\ ctxDone = FALSE
  /\ at = [g \in Goroutines |-> "idle"]
  /\ left = [g \in Goroutines |-> MaxCalls]
  /\ tries = NoTries

settings == <<registry, discovery>>
world    == <<settings, main, open, ctxDone>>

\* SIGINT or SIGTERM.
Signal ==
  /\ main \in {"warm", "wait"}
  /\ ~ctxDone
  /\ ctxDone' = TRUE
  /\ UNCHANGED <<settings, main, open, at, left, tries>>

-----------------------------------------------------------------------------
(* main.                                                                   *)

\* The warm-up is over, with or without operators; the goroutines are started.
\* Without operator discovery the third returns at once, and the fourth takes its
\* first samples before it looks at the context.
Start ==
  /\ main = "warm"
  /\ main' = "wait"
  /\ at' = [g \in Goroutines |->
       IF g \in Workers THEN "idle"
       ELSE IF g = "operatorVerifier" /\ ~discovery THEN "done"
       ELSE IF g = "reverifier" THEN "aged" ELSE "top"]
  /\ UNCHANGED <<settings, open, ctxDone, left, tries>>

\* Mutant: the reverifier is started without wg.Add.
RunReturnsEarly ==
  /\ main = "wait"
  /\ \A g \in Loops \ {"reverifier"} : at[g] = "done"
  /\ main' = "closing"
  /\ UNCHANGED <<settings, open, ctxDone, at, left, tries>>

\* wg.Wait of Run.
RunReturns ==
  /\ main = "wait"
  /\ \A g \in Loops : at[g] = "done"
  /\ main' = "closing"
  /\ UNCHANGED <<settings, open, ctxDone, at, left, tries>>

\* The deferred calls of main, last opened first; the process ends with the last.
Close ==
  /\ main = "closing"
  /\ \E r \in open :
       /\ r = "registry" => "discovery" \notin open
       /\ r = "database" => open = {"database"}
       /\ open' = open \ {r}
       /\ main' = IF r = "database" THEN "exited" ELSE "closing"
  /\ UNCHANGED <<settings, ctxDone, at, left, tries>>

Main == Start \/ RunReturns \/ Close

-----------------------------------------------------------------------------
(* A goroutine.                                                            *)

Move(g, from, to) ==
  /\ at[g] = from
  /\ at' = [at EXCEPT ![g] = to]
  /\ UNCHANGED <<world, left, tries>>

\* The select at the top of a loop, after the sleep of an idle pass.
First == [collector |-> "feed", relayVerifier |-> "batch", operatorVerifier |-> "query"]

Look(g) ==
  /\ g \in DOMAIN First
  /\ Move(g, "top", IF ctxDone THEN "done" ELSE First[g])

\* The select of the reverifier: when the ticker has fired and the context is done,
\* either case may be chosen.
Tick == Move("reverifier", "tick", "aged")
Stop == ctxDone /\ Move("reverifier", "tick", "done")

\* doGet: 429 and another request, or the end of the call.
FetchLimited(g) ==
  /\ at[g] \in Fetches
  /\ Limited(g)
  /\ UNCHANGED <<world, at, left>>

FetchReturns(g) ==
  /\ at[g] \in Fetches
  /\ \E ok \in BOOLEAN : Fetched(g, ok) /\ Advance(g, ok)
  /\ UNCHANGED world

\* A call of the database; under a cancelled context it fails.
DbReturns(g) ==
  /\ at[g] \in DbCalls
  /\ \E ok \in {FALSE, ~ctxDone} : Advance(g, ok)
  /\ UNCHANGED <<world, tries>>

\* GetRelayURL and GetBlob, GetOperators (which may have a cached list), ProbeChunks.
CallReturns(g) ==
  /\ at[g] \in {"relay", "list", "chunks"}
  /\ \E ok \in BOOLEAN : Advance(g, ok)
  /\ UNCHANGED <<world, tries>>

\* GetUnprobedBlobs found blobs: one goroutine for each is started.
StartBatch ==
  /\ at["relayVerifier"] = "batch"
  /\ ~ctxDone
  /\ \E S \in SUBSET Workers \ {{}} :
       at' = [g \in Goroutines |-> IF g = "relayVerifier" THEN "wait"
                                   ELSE IF g \in S THEN "queued" ELSE at[g]]
  /\ UNCHANGED <<world, left, tries>>

\* Mutant: the next batch does not wait for the goroutines of the last one.
BatchDoneEarly == Move("relayVerifier", "wait", "top")

\* wg.Wait of runRelayVerifier.
BatchDone ==
  /\ \A w \in Workers : at[w] = "idle"
  /\ Move("relayVerifier", "wait", "top")

InFlight == {w \in Workers : at[w] \notin {"idle", "queued"}}

\* sem <- struct{}{}; without a registry probeBlob returns at once.
Acquire(w) ==
  /\ Cardinality(InFlight) < MaxInFlight
  /\ Move(w, "queued", IF registry THEN "certificate" ELSE "attestation")

Step(g) ==
  \/ Look(g) \/ FetchLimited(g) \/ FetchReturns(g) \/ DbReturns(g) \/ CallReturns(g)
  \/ g = "relayVerifier" /\ (StartBatch \/ BatchDone)
  \/ g = "reverifier" /\ (Tick \/ Stop)
  \/ g \in Workers /\ Acquire(g)

Next == Signal \/ Main \/ \E g \in Goroutines : Step(g)

Spec == Init /\ [][Next]_vars

\* Every call comes back and the scheduler runs every goroutine.  The clients have
\* time limits; that the contract calls come back is an assumption.  A select whose two cases are ready
\* over and over chooses each of them now and then.  The goroutines of a batch take
\* a finite number of steps, so it is enough that one of them moves.
Fairness ==
  /\ WF_vars(Main)
  /\ \A g \in Loops : WF_vars(Step(g))
  /\ WF_vars(\E w \in Workers : Step(w))
  /\ SF_vars(Stop)

FairSpec == Spec /\ Fairness

-----------------------------------------------------------------------------
(* Properties.                                                             *)

\* Every variable keeps to its set; no call makes more than MaxRetries requests.
TypeOK ==
  /\ registry \in BOOLEAN /\ discovery \in BOOLEAN /\ ctxDone \in BOOLEAN
  /\ main \in {"warm", "wait", "closing", "exited"}
  /\ open \in SUBSET {"database", "registry", "discovery"}
  /\ at \in [Goroutines -> Fetches \cup DbCalls \cup Rest \cup
                           {"relay", "list", "chunks", "queued", "wait"}]
  /\ left \in [Goroutines -> 0..MaxCalls]
  /\ tries \in [Goroutines -> 0..(MaxRetries - 1)]

\* No goroutine is in a call of a client or of the database when that is closed,
\* or not there at all: the goroutines of a batch are in no WaitGroup of Run and
\* are waited for only through the relay verifier, main closes only after Run, and
\* what was not configured is never called.
NoUseAfterClose == \A g \in Goroutines : Uses(at[g]) \subseteq open

\* The calls of a pass in the order in which they follow each other for one element.
Rank == [queued |-> 5, certificate |-> 4, failure |-> 3, relay |-> 3, row |-> 2,
         attestation |-> 1, snapshot |-> 0, feed |-> 1, upsert |-> 0, batch |-> 1,
         wait |-> 0, query |-> 2, list |-> 1, chunks |-> 1, store |-> 0, aged |-> 0]

\* An element of a slice less, or a later call, or a try less.
Closer(g) ==
  \/ left'[g] < left[g]
  \/ left'[g] = left[g] /\ Rank[at'[g]] < Rank[at[g]]
  \/ left'[g] = left[g] /\ at'[g] = at[g] /\ tries'[g] > tries[g]

\* Between two looks at the context a goroutine never goes round without taking an
\* element of a slice: a failed certificate, attestation, probe or insert is not asked
\* for again, and 429 only as often as doGet allows.  So a signal waits for a bounded
\* number of calls, whatever they answer.
PassesEnd ==
  [][\A g \in Goroutines :
       (at[g] \notin Rest /\ ~UNCHANGED <<at[g], left[g], tries[g]>>)
         => at'[g] \in Rest \/ Closer(g)]_vars

\* A signal ends the process, wherever it finds the goroutines: in the warm-up, in
\* a batch that waits for the semaphore, in a call limited by 429, in a sample.
ShutdownCompletes == ctxDone ~> (main = "exited")

\* No goroutine is stuck: each comes back to its select, the relay verifier with the
\* semaphore and the WaitGroup of its batch released, whatever the DataAPI, the
\* chain and the database answer and with or without a relay registry.
KeepsGoing ==
  \A g \in Loops : (main = "wait") ~> (at[g] \in Rest)

=============================================================================
