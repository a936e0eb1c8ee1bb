--------------------------- MODULE LifecycleProofs ---------------------------
(***************************************************************************)
(* The shutdown of the prober is in order for every number of goroutines   *)
(* in a batch, every capacity of the semaphore and every number of tries.  *)
(***************************************************************************)
EXTENDS Lifecycle, TLAPS

-----------------------------------------------------------------------------
(* The invariant.                                                          *)

\* The part of probeBlob that needs the relay registry.
RelayPlaces == IF registry THEN {"certificate", "relay", "row", "failure"} ELSE {}

\* Where each goroutine can be, given what was configured.
Places(g) ==
  CASE g = "collector"        -> {"idle", "top", "feed", "upsert", "done"}
    [] g = "relayVerifier"    -> {"idle", "top", "batch", "wait", "done"}
    [] g = "operatorVerifier" -> {"idle", "done"} \cup
         (IF discovery THEN {"top", "query", "list", "chunks", "store"} ELSE {})
    [] g = "reverifier"       -> {"idle", "aged", "tick", "done"} \cup RelayPlaces
    [] OTHER                  -> {"idle", "queued", "attestation", "snapshot"} \cup RelayPlaces

Configured ==
  {"database"} \cup {r \in {"registry"} : registry} \cup {r \in {"discovery"} : discovery}

\* No goroutine is outside its own function.
PlacesInv == \A g \in Goroutines : at[g] \in Places(g)

\* While anything runs everything configured is open; main closes after Run, and
\* Run returns after the loops.
PhaseInv ==
  /\ main \in {"warm", "wait"} => open = Configured
  /\ main = "warm" => \A g \in Goroutines : at[g] = "idle"
  /\ main \in {"closing", "exited"} => \A g \in Loops : at[g] = "done"

\* The goroutines of a batch run only while the relay verifier waits for them.
BatchInv == at["relayVerifier"] # "wait" => \A w \in Workers : at[w] = "idle"

LifeInv == TypeOK /\ PlacesInv /\ PhaseInv /\ BatchInv

LEMMA InitLife == Init => LifeInv
<1> SUFFICES ASSUME Init PROVE LifeInv
  OBVIOUS
<1>1. TypeOK
  <2>1. open \in SUBSET {"database", "registry", "discovery"}
    BY Zenon DEF Init
  <2>2. at \in [Goroutines -> Rest]
    BY DEF Init, Rest
  <2>3. left \in [Goroutines -> 0..MaxCalls] /\ tries \in [Goroutines -> 0..(MaxRetries - 1)]
    BY LifecycleAssumption, DataApiAssumption DEF Init, NoTries
  <2>4. registry \in BOOLEAN /\ discovery \in BOOLEAN /\ ctxDone \in BOOLEAN /\ main = "warm"
    BY DEF Init
  <2> QED
    BY <2>1, <2>2, <2>3, <2>4 DEF TypeOK
<1>2. PlacesInv
  BY LifecycleAssumption DEF Init, PlacesInv, Places, RelayPlaces
<1>3. PhaseInv /\ BatchInv
  BY DEF Init, PhaseInv, BatchInv, Configured, Goroutines, Loops
<1> QED
  BY <1>1, <1>2, <1>3 DEF LifeInv

-----------------------------------------------------------------------------
(* One goroutine moves.                                                    *)

\* A goroutine inside its function runs between Start and the end of Run.
LEMMA RunsDuringRun ==
  ASSUME LifeInv, NEW g \in Goroutines, at[g] \notin {"idle", "done"}
  PROVE  main = "wait"
<1>1. main # "warm"
  BY DEF LifeInv, PhaseInv
<1>2. ASSUME main \in {"closing", "exited"} PROVE FALSE
  <2>1. \A l \in Loops : at[l] = "done"
    BY <1>2 DEF LifeInv, PhaseInv
  <2>2. \A w \in Workers : at[w] = "idle"
    BY <2>1 DEF LifeInv, BatchInv, Loops
  <2> QED
    BY <2>1, <2>2 DEF Goroutines
<1> QED
  BY <1>1, <1>2 DEF LifeInv, TypeOK

\* A goroutine that goes to a place of its own keeps the order of the shutdown, the
\* relay verifier when no goroutine of a batch is left.
LEMMA MoveKeepsLife ==
  ASSUME LifeInv, NEW g \in Goroutines, NEW to \in Places(g),
         at[g] \notin {"idle", "done"},
         g = "relayVerifier" => \A w \in Workers : at[w] = "idle",
         at' = [at EXCEPT ![g] = to], UNCHANGED world,
         left' \in [Goroutines -> 0..MaxCalls],
         tries' \in [Goroutines -> 0..(MaxRetries - 1)]
  PROVE  LifeInv'
<1>1. main = "wait"
  BY RunsDuringRun
<1>2. \A h \in Goroutines : at'[h] = IF h = g THEN to ELSE at[h]
  BY DEF LifeInv, TypeOK
<1>3. TypeOK'
  <2>1. to \in Fetches \cup DbCalls \cup Rest \cup {"relay", "list", "chunks", "queued", "wait"}
    BY DEF Places, RelayPlaces, Fetches, DbCalls, Rest
  <2> QED
    BY <2>1 DEF LifeInv, TypeOK, world, settings
<1>4. PlacesInv'
  <2>1. \A h \in Goroutines : Places(h)' = Places(h)
    BY DEF Places, RelayPlaces, world, settings
  <2> QED
    BY <1>2, <2>1 DEF LifeInv, PlacesInv
<1>5. PhaseInv'
  BY <1>1 DEF LifeInv, PhaseInv, Configured, world, settings
<1>6. BatchInv'
  <2>1. "relayVerifier" \in Goroutines /\ \A w \in Workers : w \in Goroutines /\ w # "relayVerifier"
    BY LifecycleAssumption DEF Goroutines, Loops
  <2>2. CASE g = "relayVerifier"
    BY <1>2, <2>1, <2>2 DEF BatchInv
  <2>3. CASE g \in Workers
    BY <1>2, <2>1, <2>3 DEF LifeInv, BatchInv
  <2>4. CASE g # "relayVerifier" /\ g \notin Workers
    BY <1>2, <2>1, <2>4 DEF LifeInv, BatchInv
  <2> QED
    BY <2>2, <2>3, <2>4
<1> QED
  BY <1>3, <1>4, <1>5, <1>6 DEF LifeInv

\* After a call a goroutine is in its own function.
LEMMA AfterInPlaces ==
  ASSUME LifeInv, NEW g \in Goroutines, NEW ok \in BOOLEAN, NEW to \in After(g, ok),
         at[g] \in Fetches \cup DbCalls \cup {"relay", "list", "chunks"}
  PROVE  to \in Places(g)
<1>1. at[g] \in Places(g) /\ registry \in BOOLEAN /\ discovery \in BOOLEAN
  BY DEF LifeInv, PlacesInv, TypeOK
<1>2. CASE g = "collector"
  BY <1>1, <1>2 DEF Places, After, AfterPage, Fetches, DbCalls
<1>3. CASE g = "relayVerifier"
  BY <1>1, <1>3 DEF Places, After, Fetches, DbCalls
<1>4. CASE g = "operatorVerifier"
  BY <1>1, <1>4 DEF Places, After, AfterScan, Fetches, DbCalls
<1>5. CASE g = "reverifier"
  BY <1>1, <1>5 DEF Places, RelayPlaces, After, AfterProbe, AfterSample, Probed, Fetches, DbCalls
<1>6. CASE g \in Workers
  <2>1. g \notin Loops
    BY <1>6, LifecycleAssumption
  <2>2. Places(g) = {"idle", "queued", "attestation", "snapshot"} \cup RelayPlaces
    BY <2>1 DEF Places, Loops
  <2>3. g # "reverifier"
    BY <2>1 DEF Loops
  <2> QED
    BY <1>1, <2>2, <2>3 DEF RelayPlaces, After, AfterProbe, Probed, Attested, Fetches, DbCalls
<1> QED
  BY <1>2, <1>3, <1>4, <1>5, <1>6 DEF Goroutines, Loops

\* A call that comes back keeps the invariant, whatever it says.
LEMMA AdvanceKeepsLife ==
  ASSUME LifeInv, NEW g \in Goroutines, NEW ok \in BOOLEAN, Advance(g, ok),
         at[g] \in Fetches \cup DbCalls \cup {"relay", "list", "chunks"},
         UNCHANGED world, tries' \in [Goroutines -> 0..(MaxRetries - 1)]
  PROVE  LifeInv'
<1>1. PICK to \in After(g, ok) :
        /\ to \in Heads => left[g] > 0
        /\ at' = [at EXCEPT ![g] = to]
        /\ left' = [left EXCEPT ![g] = IF to \in Rest THEN MaxCalls
                                       ELSE IF to \in Heads THEN @ - 1 ELSE @]
  BY DEF Advance
<1>2. to \in Places(g)
  BY AfterInPlaces
<1>3. left' \in [Goroutines -> 0..MaxCalls]
  BY <1>1, LifecycleAssumption DEF LifeInv, TypeOK
<1>4. at[g] \notin {"idle", "done", "wait"}
  BY DEF Fetches, DbCalls
<1>5. g = "relayVerifier" => \A w \in Workers : at[w] = "idle"
  BY <1>4 DEF LifeInv, BatchInv
<1> QED
  BY <1>1, <1>2, <1>3, <1>4, <1>5, MoveKeepsLife

\* Move of a goroutine to a place of its own.
LEMMA MoveInPlaces ==
  ASSUME LifeInv, NEW g \in Goroutines, NEW from, NEW to \in Places(g), Move(g, from, to),
         from \notin {"idle", "done"},
         g = "relayVerifier" => \A w \in Workers : at[w] = "idle"
  PROVE  LifeInv'
  BY MoveKeepsLife DEF Move, LifeInv, TypeOK

-----------------------------------------------------------------------------
(* Every action.                                                           *)

\* The life of main: a signal, the start, the end of Run, the closing.
LEMMA MainKeepsLife ==
  ASSUME LifeInv, Signal \/ Main
  PROVE  LifeInv'
<1>1. CASE Signal
  BY <1>1 DEF Signal, settings, LifeInv, TypeOK, PlacesInv, Places, RelayPlaces, PhaseInv,
              Configured, BatchInv
<1>2. CASE Start
  <2>1. \A w \in Workers : w \in Goroutines /\ w \notin Loops
    BY LifecycleAssumption DEF Goroutines
  <2>2. at' \in [Goroutines -> Rest \cup DbCalls]
    BY <1>2 DEF Start, Rest, DbCalls
  <2>3. TypeOK'
    BY <1>2, <2>2 DEF Start, settings, LifeInv, TypeOK
  <2>4. PlacesInv'
    <3> SUFFICES ASSUME NEW g \in Goroutines PROVE at'[g] \in Places(g)'
      BY DEF PlacesInv
    <3>1. discovery' = discovery /\ registry' = registry
      BY <1>2 DEF Start, settings
    <3>2. CASE g \in Workers
      BY <1>2, <2>1, <3>2 DEF Start, Places, Loops
    <3>3. CASE g \in Loops
      BY <1>2, <2>1, <3>1, <3>3 DEF Start, Places, Loops
    <3> QED
      BY <3>2, <3>3 DEF Goroutines
  <2>5. PhaseInv'
    BY <1>2 DEF Start, settings, LifeInv, PhaseInv, Configured
  <2>6. BatchInv'
    BY <1>2, <2>1 DEF Start, BatchInv
  <2> QED
    BY <2>3, <2>4, <2>5, <2>6 DEF LifeInv
<1>3. CASE RunReturns
  BY <1>3 DEF RunReturns, settings, LifeInv, TypeOK, PlacesInv, Places, RelayPlaces, PhaseInv,
              BatchInv
<1>4. CASE Close
  <2>1. main = "closing" /\ main' \in {"closing", "exited"} /\ open' \subseteq open
    BY <1>4 DEF Close
  <2>2. UNCHANGED <<registry, discovery, ctxDone, at, left, tries>>
    BY <1>4 DEF Close, settings
  <2>3. TypeOK'
    BY <2>1, <2>2 DEF LifeInv, TypeOK
  <2> QED
    BY <2>1, <2>2, <2>3 DEF LifeInv, PlacesInv, Places, RelayPlaces, PhaseInv, BatchInv
<1> QED
  BY <1>1, <1>2, <1>3, <1>4 DEF Main

\* One goroutine of a batch for each blob of the page.
LEMMA StartBatchKeepsLife ==
  ASSUME LifeInv, StartBatch
  PROVE  LifeInv'
<1>1. "relayVerifier" \in Goroutines /\ "relayVerifier" \notin Workers
      /\ at["relayVerifier"] = "batch"
  BY LifecycleAssumption DEF StartBatch, Goroutines, Loops
<1>2. PICK S \in SUBSET Workers :
        at' = [g \in Goroutines |-> IF g = "relayVerifier" THEN "wait"
                                    ELSE IF g \in S THEN "queued" ELSE at[g]]
  BY DEF StartBatch
<1>3. UNCHANGED <<registry, discovery, main, open, ctxDone, left, tries>>
  BY DEF StartBatch, world, settings
<1>4. main = "wait"
  BY <1>1, RunsDuringRun
<1>5. TypeOK'
  BY <1>2, <1>3 DEF LifeInv, TypeOK
<1>6. PlacesInv'
  <2> SUFFICES ASSUME NEW g \in Goroutines PROVE at'[g] \in Places(g)'
    BY DEF PlacesInv
  <2>1. Places(g)' = Places(g) /\ at[g] \in Places(g)
    BY <1>3 DEF LifeInv, PlacesInv, Places, RelayPlaces
  <2>2. CASE g = "relayVerifier"
    BY <1>2, <2>1, <2>2 DEF Places
  <2>3. CASE g \in S
    <3>1. g \notin Loops
      BY <2>3, LifecycleAssumption
    <3> QED
      BY <1>1, <1>2, <2>1, <2>3, <3>1 DEF Places, Loops
  <2>4. CASE g # "relayVerifier" /\ g \notin S
    BY <1>2, <2>1, <2>4
  <2> QED
    BY <2>2, <2>3, <2>4
<1>7. PhaseInv'
  BY <1>3, <1>4 DEF LifeInv, PhaseInv, Configured
<1>8. BatchInv'
  BY <1>1, <1>2 DEF BatchInv
<1> QED
  BY <1>5, <1>6, <1>7, <1>8 DEF LifeInv

\* Whatever a goroutine does.
LEMMA StepKeepsLife ==
  ASSUME LifeInv, NEW g \in Goroutines, Step(g)
  PROVE  LifeInv'
<1>t. tries \in [Goroutines -> 0..(MaxRetries - 1)] /\ left \in [Goroutines -> 0..MaxCalls]
  BY DEF LifeInv, TypeOK
<1>w. \A w \in Workers : w \notin Loops
  BY LifecycleAssumption
<1>1. CASE Look(g)
  <2>1. g \in {"collector", "relayVerifier", "operatorVerifier"} /\ at[g] = "top"
    BY <1>1 DEF Look, First, Move
  <2>2. at[g] \in Places(g)
    BY DEF LifeInv, PlacesInv
  <2>3. PICK to : Move(g, "top", to) /\ to = IF ctxDone THEN "done" ELSE First[g]
    BY <1>1 DEF Look
  <2>4. to \in Places(g)
    BY <2>1, <2>2, <2>3 DEF First, Places
  <2>5. g = "relayVerifier" => \A w \in Workers : at[w] = "idle"
    BY <2>1 DEF LifeInv, BatchInv
  <2> QED
    BY <2>3, <2>4, <2>5, MoveInPlaces
<1>2. CASE FetchLimited(g)
  <2>1. tries' \in [Goroutines -> 0..(MaxRetries - 1)]
    BY <1>2, <1>t, DataApiAssumption DEF FetchLimited, Limited
  <2>2. UNCHANGED <<registry, discovery, main, open, ctxDone, at, left>>
    BY <1>2 DEF FetchLimited, world, settings
  <2> QED
    BY <2>1, <2>2 DEF LifeInv, TypeOK, PlacesInv, Places, RelayPlaces, PhaseInv, Configured,
                      BatchInv
<1>3. CASE FetchReturns(g)
  <2>1. PICK ok \in BOOLEAN : Fetched(g, ok) /\ Advance(g, ok)
    BY <1>3 DEF FetchReturns
  <2>2. tries' \in [Goroutines -> 0..(MaxRetries - 1)]
    BY <1>t, <2>1, DataApiAssumption DEF Fetched
  <2> QED
    BY <1>3, <2>1, <2>2, AdvanceKeepsLife DEF FetchReturns
<1>4. CASE DbReturns(g)
  <2>1. PICK ok \in BOOLEAN : Advance(g, ok)
    BY <1>4 DEF DbReturns, LifeInv, TypeOK
  <2> QED
    BY <1>4, <1>t, <2>1, AdvanceKeepsLife DEF DbReturns
<1>5. CASE CallReturns(g)
  <2>1. PICK ok \in BOOLEAN : Advance(g, ok)
    BY <1>5 DEF CallReturns
  <2> QED
    BY <1>5, <1>t, <2>1, AdvanceKeepsLife DEF CallReturns
<1>6. CASE g = "relayVerifier" /\ StartBatch
  BY <1>6, StartBatchKeepsLife
<1>7. CASE g = "relayVerifier" /\ BatchDone
  <2>1. "top" \in Places(g)
    BY <1>7 DEF Places
  <2> QED
    BY <1>7, <2>1, MoveInPlaces DEF BatchDone
<1>8. CASE g = "reverifier" /\ (Tick \/ Stop)
  <2>1. "aged" \in Places(g) /\ "done" \in Places(g)
    BY <1>8 DEF Places
  <2> QED
    BY <1>8, <2>1, MoveInPlaces DEF Tick, Stop
<1>9. CASE g \in Workers /\ Acquire(g)
  <2>1. g # "relayVerifier" /\ g \notin Loops
    BY <1>9, <1>w DEF Loops
  <2>2. (IF registry THEN "certificate" ELSE "attestation") \in Places(g)
    BY <2>1 DEF Places, RelayPlaces, Loops
  <2> QED
    BY <1>9, <2>1, <2>2, MoveInPlaces DEF Acquire
<1> QED
  BY <1>1, <1>2, <1>3, <1>4, <1>5, <1>6, <1>7, <1>8, <1>9 DEF Step

LEMMA NextLife == LifeInv /\ [Next]_vars => LifeInv'
<1> SUFFICES ASSUME LifeInv, [Next]_vars PROVE LifeInv'
  OBVIOUS
<1>1. CASE UNCHANGED vars
  BY <1>1 DEF vars, LifeInv, TypeOK, PlacesInv, Places, RelayPlaces, PhaseInv, Configured,
              BatchInv
<1> QED
  BY <1>1, MainKeepsLife, StepKeepsLife DEF Next

LEMMA AlwaysLife == Spec => []LifeInv
  BY InitLife, NextLife, PTL DEF Spec

-----------------------------------------------------------------------------
(* What follows.                                                           *)

\* Types; no call of the DataAPI makes more than MaxRetries requests.
THEOREM TypeCorrect == Spec => []TypeOK
<1>1. LifeInv => TypeOK
  BY DEF LifeInv
<1> QED
  BY <1>1, AlwaysLife, PTL

\* No goroutine is in a call of a client or of the database that is closed.
THEOREM ClosedAfterUse == Spec => []NoUseAfterClose
<1>1. LifeInv => NoUseAfterClose
  <2> SUFFICES ASSUME LifeInv, NEW g \in Goroutines PROVE Uses(at[g]) \subseteq open
    BY DEF NoUseAfterClose
  <2>1. CASE at[g] \in {"idle", "done"}
    <3>1. at[g] \notin DbCalls /\ at[g] # "relay" /\ at[g] # "list"
      BY <2>1 DEF DbCalls
    <3> QED
      BY <3>1 DEF Uses
  <2>2. CASE at[g] \notin {"idle", "done"}
    <3>1. open = Configured
      BY <2>2, RunsDuringRun DEF LifeInv, PhaseInv
    <3>2. at[g] \in Places(g)
      BY DEF LifeInv, PlacesInv
    <3>3. at[g] = "relay" => registry
      BY <3>2 DEF Places, RelayPlaces
    <3>4. at[g] = "list" => discovery
      BY <3>2 DEF Places, RelayPlaces
    <3> QED
      BY <3>1, <3>3, <3>4 DEF Uses, Configured
  <2> QED
    BY <2>1, <2>2
<1> QED
  BY <1>1, AlwaysLife, PTL

-----------------------------------------------------------------------------
(* No pass goes round for ever.                                            *)

\* The call of an element that follows another one comes later.
LEMMA LaterCall ==
  ASSUME NEW g, NEW ok \in BOOLEAN, NEW to \in After(g, ok),
         at[g] \in Fetches \cup DbCalls \cup {"relay", "list", "chunks"},
         to \notin Heads, to \notin Rest
  PROVE  Rank[to] < Rank[at[g]]
<1>1. CASE at[g] \in {"certificate", "relay", "row", "failure"}
  BY <1>1 DEF After, AfterProbe, Probed, Heads, Rest, Rank
<1>2. CASE at[g] \in {"attestation", "snapshot"}
  BY <1>2 DEF After, Attested, Heads, Rest, Rank
<1>3. CASE at[g] \in {"feed", "upsert", "batch", "query", "list", "chunks", "store", "aged"}
  BY <1>3 DEF After, AfterPage, AfterScan, AfterSample, Heads, Rest, Rank
<1> QED
  BY <1>1, <1>2, <1>3 DEF Fetches, DbCalls

\* A call that comes back brings its goroutine to rest or closer to it.
LEMMA AdvanceCloser ==
  ASSUME LifeInv, NEW g \in Goroutines, NEW ok \in BOOLEAN, Advance(g, ok),
         at[g] \in Fetches \cup DbCalls \cup {"relay", "list", "chunks"}
  PROVE  at'[g] \in Rest \/ Closer(g)
<1>1. PICK to \in After(g, ok) :
        /\ at' = [at EXCEPT ![g] = to]
        /\ left' = [left EXCEPT ![g] = IF to \in Rest THEN MaxCalls
                                       ELSE IF to \in Heads THEN @ - 1 ELSE @]
  BY DEF Advance
<1>2. at'[g] = to
  BY <1>1 DEF LifeInv, TypeOK
<1>3. to \notin Rest => left'[g] = IF to \in Heads THEN left[g] - 1 ELSE left[g]
  BY <1>1 DEF LifeInv, TypeOK
<1>4. left[g] \in 0..MaxCalls
  BY DEF LifeInv, TypeOK
<1>5. CASE to \in Heads /\ to \notin Rest
  BY <1>3, <1>4, <1>5, LifecycleAssumption DEF Closer
<1>6. CASE to \notin Heads /\ to \notin Rest
  BY <1>2, <1>3, <1>6, LaterCall DEF Closer
<1> QED
  BY <1>2, <1>5, <1>6

\* A step of one goroutine; StartBatch also starts others, which were idle.
LEMMA StepCloser ==
  ASSUME LifeInv, NEW h \in Goroutines, Step(h), NEW g \in Goroutines,
         at[g] \notin Rest, ~UNCHANGED <<at[g], left[g], tries[g]>>
  PROVE  at'[g] \in Rest \/ Closer(g)
<1>t. /\ DOMAIN at = Goroutines /\ DOMAIN left = Goroutines
      /\ tries \in [Goroutines -> 0..(MaxRetries - 1)]
      /\ at[g] \notin {"top", "idle", "done", "tick"}
  BY DEF LifeInv, TypeOK, Rest
<1>1. ASSUME NEW from, NEW to, Move(h, from, to) PROVE h = g /\ at'[g] = to
  BY <1>1, <1>t DEF Move
<1>2. ASSUME NEW ok \in BOOLEAN, Advance(h, ok),
             tries' = tries \/ tries' = [tries EXCEPT ![h] = 0]
      PROVE  h = g
  BY <1>2, <1>t DEF Advance
<1>3. CASE Look(h)
  BY <1>1, <1>3, <1>t DEF Look, Move
<1>4. CASE FetchLimited(h)
  <2>1. h = g /\ tries'[g] = tries[g] + 1 /\ at'[g] = at[g] /\ left'[g] = left[g]
    BY <1>4, <1>t DEF FetchLimited, Limited
  <2>2. tries[g] \in Nat
    BY <1>t
  <2> QED
    BY <2>1, <2>2 DEF Closer
<1>5. CASE FetchReturns(h)
  <2>1. PICK ok \in BOOLEAN : Fetched(h, ok) /\ Advance(h, ok)
    BY <1>5 DEF FetchReturns
  <2>2. h = g
    BY <1>2, <2>1 DEF Fetched
  <2> QED
    BY <1>5, <2>1, <2>2, AdvanceCloser DEF FetchReturns
<1>6. CASE DbReturns(h)
  <2>1. PICK ok \in BOOLEAN : Advance(h, ok)
    BY <1>6 DEF DbReturns, LifeInv, TypeOK
  <2>2. h = g
    BY <1>2, <1>6, <2>1 DEF DbReturns
  <2> QED
    BY <1>6, <2>1, <2>2, AdvanceCloser DEF DbReturns
<1>7. CASE CallReturns(h)
  <2>1. PICK ok \in BOOLEAN : Advance(h, ok)
    BY <1>7 DEF CallReturns
  <2>2. h = g
    BY <1>2, <1>7, <2>1 DEF CallReturns
  <2> QED
    BY <1>7, <2>1, <2>2, AdvanceCloser DEF CallReturns
<1>8. CASE StartBatch
  <2>1. at["relayVerifier"] = "batch" /\ left' = left /\ tries' = tries
    BY <1>8 DEF StartBatch
  <2>2. \A w \in Workers : at[w] = "idle"
    BY <2>1 DEF LifeInv, BatchInv
  <2>3. PICK S \in SUBSET Workers :
          at' = [x \in Goroutines |-> IF x = "relayVerifier" THEN "wait"
                                      ELSE IF x \in S THEN "queued" ELSE at[x]]
    BY <1>8 DEF StartBatch
  <2>4. g = "relayVerifier"
    BY <1>t, <2>1, <2>2, <2>3
  <2>5. Rank["wait"] < Rank["batch"]
    BY DEF Rank
  <2> QED
    BY <2>1, <2>3, <2>4, <2>5 DEF Closer
<1>9. CASE BatchDone
  <2>1. Move("relayVerifier", "wait", "top") /\ "relayVerifier" \in Goroutines
    BY <1>9 DEF BatchDone, Goroutines, Loops
  <2> QED
    BY <1>t, <2>1 DEF Move, Rest
<1>10. CASE h = "reverifier" /\ (Tick \/ Stop)
  BY <1>1, <1>10, <1>t DEF Tick, Stop, Move
<1>11. CASE Acquire(h)
  <2>1. h = g /\ at[g] = "queued" /\ at'[g] \in {"certificate", "attestation"} /\ left' = left
    BY <1>1, <1>11 DEF Acquire, Move
  <2>2. Rank[at'[g]] < Rank[at[g]]
    BY <2>1 DEF Rank
  <2> QED
    BY <2>1, <2>2 DEF Closer
<1> QED
  BY <1>3, <1>4, <1>5, <1>6, <1>7, <1>8, <1>9, <1>10, <1>11 DEF Step

\* Between two looks at the context no goroutine goes round without taking an element
\* of a slice: the order of its calls is well-founded.
THEOREM PassesAreFinite == Spec => PassesEnd
<1>1. LifeInv /\ [Next]_vars =>
        [\A g \in Goroutines :
           (at[g] \notin Rest /\ ~UNCHANGED <<at[g], left[g], tries[g]>>)
             => at'[g] \in Rest \/ Closer(g)]_vars
  <2> SUFFICES ASSUME LifeInv, Next, NEW g \in Goroutines,
                      at[g] \notin Rest, ~UNCHANGED <<at[g], left[g], tries[g]>>
               PROVE  at'[g] \in Rest \/ Closer(g)
    BY DEF vars
  <2>1. CASE Signal \/ RunReturns \/ Close
    BY <2>1 DEF Signal, RunReturns, Close
  <2>2. CASE Start
    BY <2>2 DEF Start, Rest, LifeInv, PhaseInv
  <2> QED
    BY <2>1, <2>2, StepCloser DEF Next, Main
<1> QED
  BY <1>1, AlwaysLife, PTL DEF Spec, PassesEnd

=============================================================================
