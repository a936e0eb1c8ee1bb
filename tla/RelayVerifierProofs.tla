------------------------- MODULE RelayVerifierProofs -------------------------
(***************************************************************************)
(* What holds of the relay verifier and the reverifier for every set of    *)
(* blobs, relays and goroutines, every batch limit, every capacity of the  *)
(* semaphore, and any number of rounds and restarts.                       *)
(***************************************************************************)
EXTENDS RelayVerifier, FiniteSetTheorems, TLAPS

-----------------------------------------------------------------------------
(* What one step of a goroutine does.                                      *)

\* The certificate of a blob names relays.
LEMMA KeysTyped ==
  ASSUME NEW b \in Blobs PROVE RelayKeys[b] \in SUBSET Relays
  BY DEF Relays

LEMMA IdleTyped == Idle \in Tasks /\ Idle.at = "idle" /\ Idle.blob = NoBlob
                   /\ Idle.outcome = "answered"
  BY DEF Idle, Task, Tasks, Keys, Outcomes

LEMMA AfterProbeTyped ==
  ASSUME NEW g \in Goroutines, task[g] \in Tasks
  PROVE  /\ AfterProbe(g) \in Tasks
         /\ AfterProbe(g) = Idle \/ (AfterProbe(g).at = "attestation"
                                     /\ AfterProbe(g).blob = task[g].blob
                                     /\ AfterProbe(g).keys = task[g].keys
                                     /\ AfterProbe(g).outcome = task[g].outcome)
         /\ g \in Workers => AfterProbe(g).at = "attestation"
  BY IdleTyped, RelayAssumption DEF AfterProbe, Tasks

LEMMA AfterInsertTyped ==
  ASSUME NEW g \in Goroutines, task[g] \in Tasks
  PROVE  /\ AfterInsert(g) \in Tasks
         /\ \/ AfterInsert(g) = Idle
            \/ /\ AfterInsert(g).at = "attestation" /\ task[g].keys = {}
               /\ AfterInsert(g).blob = task[g].blob
               /\ AfterInsert(g).keys = task[g].keys
               /\ AfterInsert(g).outcome = task[g].outcome
            \/ /\ AfterInsert(g).at = "relay" /\ task[g].keys # {}
               /\ AfterInsert(g).blob = task[g].blob
               /\ AfterInsert(g).keys = task[g].keys
               /\ AfterInsert(g).outcome = task[g].outcome
         /\ g \in Workers => AfterInsert(g).at # "idle"
  BY AfterProbeTyped, IdleTyped, RelayAssumption DEF AfterInsert, AfterProbe, Tasks

\* A step of a goroutine changes the task of that goroutine only, which keeps its
\* blob or becomes idle.
LEMMA StepShape ==
  ASSUME TypeOK, NEW g \in Goroutines, Step(g)
  PROVE  /\ \E t \in Tasks :
              /\ task' = [task EXCEPT ![g] = t]
              /\ t = Idle \/ (t.at # "idle" /\ t.blob = task[g].blob)
         /\ task[g].at # "idle"
         /\ UNCHANGED <<world, rounding, sem>>
<1> USE DEF TypeOK
<1>t. task[g] \in Tasks
  OBVIOUS
<1>1. CASE Acquire(g)
  <2> DEFINE t == [task[g] EXCEPT !.at = "certificate"]
  <2>1. t \in Tasks /\ t.at # "idle" /\ t.blob = task[g].blob
    BY <1>t DEF Tasks
  <2>2. task' = [task EXCEPT ![g] = t]
    BY <1>1 DEF Acquire
  <2> QED
    BY <1>1, <2>1, <2>2 DEF Acquire, At
<1>2. CASE CertificateRead(g)
  <2> DEFINE keys == RelayKeys[task[g].blob]
             u == [task[g] EXCEPT !.at = "relay", !.keys = keys]
             t == IF keys = {} THEN AfterProbe(g) ELSE u
  <2>1. keys \in SUBSET Relays
    BY <1>2, KeysTyped DEF CertificateRead, At
  <2>2. u \in Tasks /\ u.at # "idle" /\ u.blob = task[g].blob
    BY <1>t, <2>1 DEF Tasks
  <2>3. t \in Tasks /\ (t = Idle \/ (t.at # "idle" /\ t.blob = task[g].blob))
    BY <1>t, <2>2, AfterProbeTyped
  <2>4. task' = [task EXCEPT ![g] = t]
    BY <1>2 DEF CertificateRead
  <2> QED
    BY <1>2, <2>3, <2>4 DEF CertificateRead, At
<1>3. CASE NoRegistry(g) \/ CertificateMissing(g)
  BY <1>3, <1>t, AfterProbeTyped DEF NoRegistry, CertificateMissing, At
<1>4. CASE CertificateFails(g)
  <2> DEFINE t == [task[g] EXCEPT !.at = "insert", !.key = NoRelay, !.outcome = "answered"]
  <2>1. t \in Tasks /\ t.at # "idle" /\ t.blob = task[g].blob
    BY <1>t DEF Tasks, Keys, Outcomes
  <2>2. task' = [task EXCEPT ![g] = t]
    BY <1>4 DEF CertificateFails
  <2> QED
    BY <1>4, <2>1, <2>2 DEF CertificateFails, At
<1>5. CASE AskRelay(g)
  <2>1. PICK k \in task[g].keys :
          task' = [task EXCEPT ![g] = [task[g] EXCEPT !.at = "insert", !.key = k,
                                         !.keys = @ \ {k}, !.outcome = Answer]]
    BY <1>5 DEF AskRelay
  <2> DEFINE t == [task[g] EXCEPT !.at = "insert", !.key = k, !.keys = @ \ {k},
                                  !.outcome = Answer]
  <2>2. t \in Tasks /\ t.at # "idle" /\ t.blob = task[g].blob
    BY <1>t DEF Tasks, Keys, Answer, Outcomes
  <2> QED
    BY <1>5, <2>1, <2>2 DEF AskRelay, At
<1>6. CASE InsertStored(g) \/ InsertLost(g)
  BY <1>6, <1>t, AfterInsertTyped DEF InsertStored, InsertLost, At
<1>7. CASE Attest(g)
  BY <1>7, IdleTyped DEF Attest, At
<1> QED
  BY <1>1, <1>2, <1>3, <1>4, <1>5, <1>6, <1>7 DEF Step

\* There is a channel for a batch that starts when no goroutine is at work.
LEMMA NewChannelTyped ==
  ASSUME AllIdle PROVE NewChannel \in Channels
<1>1. Cardinality(Workers) \in Nat
  BY RelayAssumption, FS_CardinalityType
<1>2. 1 \in Channels /\ \A w \in Workers : task[w] # Idle => sem[w] # 1
  BY <1>1 DEF Channels, AllIdle
<1> QED
  BY <1>2 DEF NewChannel

\* A batch gives every blob of it to a goroutine of its own.
LEMMA QueryShape ==
  ASSUME TypeOK, Query
  PROVE  /\ task' \in [Goroutines -> Tasks]
         /\ sem' \in [Workers -> Channels]
         /\ \A w \in Workers : task'[w] # Idle => sem'[w] = NewChannel
         /\ task'[Reverifier] = task[Reverifier]
         /\ \A w \in Workers :
              \/ task'[w] = Idle
              \/ /\ task'[w].at = "queued" /\ task'[w].keys = {}
                 /\ task'[w].outcome = "answered"
                 /\ task'[w].blob \in Unprobed
         /\ \A v, w \in Workers :
              (task'[v].blob = task'[w].blob /\ task'[v].blob # NoBlob) => v = w
<1>0. PICK S \in SUBSET Unprobed : \E f \in [S -> Workers] :
        /\ IsInjective(f)
        /\ task' = [g \in Goroutines |->
                 IF g \in Range(f)
                   THEN Task("queued", CHOOSE b \in S : f[b] = g, {}, NoRelay, "answered")
                   ELSE task[g]]
        /\ sem' = [w \in Workers |-> IF w \in Range(f) THEN NewChannel ELSE sem[w]]
  BY DEF Query
<1>1. PICK f \in [S -> Workers] :
        /\ IsInjective(f)
        /\ task' = [g \in Goroutines |->
                 IF g \in Range(f)
                   THEN Task("queued", CHOOSE b \in S : f[b] = g, {}, NoRelay, "answered")
                   ELSE task[g]]
        /\ sem' = [w \in Workers |-> IF w \in Range(f) THEN NewChannel ELSE sem[w]]
  BY <1>0
<1> DEFINE got(g) == CHOOSE b \in S : f[b] = g
<1>2. \A g \in Range(f) : got(g) \in S /\ f[got(g)] = g
  BY DEF Range
<1>3. Reverifier \notin Range(f)
  BY RelayAssumption DEF Range
<1>4. \A g \in Goroutines :
        task'[g] = IF g \in Range(f) THEN Task("queued", got(g), {}, NoRelay, "answered")
                                     ELSE task[g]
  BY <1>1
<1>5. S \subseteq Blobs
  BY DEF Unprobed, TypeOK
<1> HIDE DEF got
<1>6. \A g \in Range(f) : Task("queued", got(g), {}, NoRelay, "answered") \in Tasks
  BY <1>2, <1>5 DEF Task, Tasks, Keys, Outcomes
<1>7. task' \in [Goroutines -> Tasks]
  BY <1>1, <1>4, <1>6 DEF TypeOK
<1>8. \A w \in Workers : w \notin Range(f) => task'[w] = Idle
  BY <1>4 DEF Query, AllIdle, Goroutines
<1>9. ASSUME NEW w \in Workers, w \in Range(f)
      PROVE  /\ task'[w].at = "queued" /\ task'[w].keys = {}
             /\ task'[w].outcome = "answered"
             /\ task'[w].blob = got(w)
  <2>1. task'[w] = Task("queued", got(w), {}, NoRelay, "answered")
    BY <1>4, <1>9 DEF Goroutines
  <2> QED
    BY <2>1 DEF Task
<1>10. \A w \in Workers : task'[w].blob # NoBlob => w \in Range(f)
  BY <1>8, IdleTyped
<1>11. NewChannel \in Channels
  BY NewChannelTyped DEF Query
<1>12. sem' \in [Workers -> Channels] /\ \A w \in Range(f) : sem'[w] = NewChannel
  BY <1>1, <1>11 DEF TypeOK, Range
<1> QED
  BY <1>2, <1>3, <1>4, <1>7, <1>8, <1>9, <1>10, <1>12 DEF Goroutines

-----------------------------------------------------------------------------
(* Types.                                                                  *)

LEMMA InitTyped == Init => TypeOK
<1> SUFFICES ASSUME Init PROVE TypeOK
  OBVIOUS
<1>1. 1 \in Channels
  BY RelayAssumption, FS_CardinalityType DEF Channels
<1>2. sem \in [Workers -> Channels]
  BY <1>1 DEF Init
<1>3. registry \in BOOLEAN
  BY DEF Init
<1> QED
  BY <1>2, <1>3, RelayAssumption, FS_EmptySet, IdleTyped DEF Init, TypeOK

\* The row a goroutine writes is a row.
LEMMA RowTyped ==
  ASSUME TypeOK, NEW g \in Goroutines, task[g].at # "idle"
  PROVE  Row(task[g].blob, task[g].key, task[g].outcome, g) \in Rows
<1> DEFINE same == {r \in RowsOf(task[g].blob) : r.relay = task[g].key}
<1>1. same \subseteq retrievalProbes /\ IsFiniteSet(retrievalProbes)
  BY DEF RowsOf, TypeOK
<1>2. Cardinality(same) \in Nat
  BY <1>1, FS_Subset, FS_CardinalityType
<1>3. task[g] \in Tasks /\ task[g].blob \in Blobs
  BY DEF TypeOK
<1> QED
  BY <1>2, <1>3 DEF Row, Rows, Tasks

LEMMA NextTyped == TypeOK /\ [Next]_vars => TypeOK'
<1> SUFFICES ASSUME TypeOK, [Next]_vars PROVE TypeOK'
  OBVIOUS
<1> USE DEF TypeOK
<1>1. ASSUME NEW b \in Blobs, Observe(b) PROVE TypeOK'
  BY <1>1 DEF Observe, rounding
<1>2. ASSUME NEW b \in Blobs, Certify(b) PROVE TypeOK'
  BY <1>2 DEF Certify, rounding
<1>3. CASE Cancel
  BY <1>3 DEF Cancel, rounding
<1>4. CASE Crash
  BY <1>4, IdleTyped DEF Crash
<1>5. CASE Restart
  BY <1>5, RelayAssumption DEF Restart, rounding
<1>6. CASE Query
  <2>1. /\ task' \in [Goroutines -> Tasks] /\ sem' \in [Workers -> Channels]
        /\ \A g \in Goroutines :
             IF task'[g].at = "idle" THEN task'[g] = Idle ELSE task'[g].blob \in observed
    BY <1>6, QueryShape, IdleTyped DEF Goroutines, Unprobed
  <2> QED
    BY <1>6, <2>1 DEF Query, world, rounding
<1>7. CASE Sample
  BY <1>7, RelayAssumption DEF Sample, world
<1>8. CASE NextAged
  <2>1. PICK b \in sample :
          /\ sample' = sample \ {b}
          /\ task' = [task EXCEPT ![Reverifier] = Task("certificate", b, {}, NoRelay, "answered")]
    BY <1>8 DEF NextAged
  <2>2. /\ Task("certificate", b, {}, NoRelay, "answered") \in Tasks
        /\ Task("certificate", b, {}, NoRelay, "answered").at # "idle"
        /\ Task("certificate", b, {}, NoRelay, "answered").blob = b
    BY DEF Task, Tasks, Keys, Outcomes
  <2> QED
    BY <1>8, <2>1, <2>2 DEF NextAged, world
<1>9. CASE Exit
  BY <1>9 DEF Exit, rounding
<1>10. ASSUME NEW g \in Goroutines, Step(g) PROVE TypeOK'
  <2>1. PICK t \in Tasks : /\ task' = [task EXCEPT ![g] = t]
                           /\ t = Idle \/ (t.at # "idle" /\ t.blob = task[g].blob)
    BY <1>10, StepShape
  <2>2. task[g].at # "idle" /\ UNCHANGED <<world, rounding, sem>>
    BY <1>10, StepShape
  <2>3. retrievalProbes' \in SUBSET Rows /\ IsFiniteSet(retrievalProbes')
    <3>1. CASE InsertStored(g)
      BY <2>2, <3>1, RowTyped, FS_AddElement DEF InsertStored
    <3>2. CASE ~InsertStored(g)
      BY <1>10, <3>2
      DEF Step, Acquire, NoRegistry, CertificateRead, CertificateMissing, CertificateFails, AskRelay,
          InsertLost, Attest
    <3> QED
      BY <3>1, <3>2
  <2>4. attested' \in SUBSET observed
    BY <1>10, <2>2
    DEF Step, Acquire, NoRegistry, CertificateRead, CertificateMissing, CertificateFails, AskRelay,
        InsertStored, InsertLost, Attest
  <2>5. /\ task' \in [Goroutines -> Tasks]
        /\ \A h \in Goroutines :
             IF task'[h].at = "idle" THEN task'[h] = Idle ELSE task'[h].blob \in observed
    BY <2>1, <2>2, IdleTyped
  <2> QED
    BY <2>2, <2>3, <2>4, <2>5 DEF world, rounding
<1>11. CASE UNCHANGED vars
  BY <1>11 DEF vars, world, rounding
<1> QED
  BY <1>1, <1>2, <1>3, <1>4, <1>5, <1>6, <1>7, <1>8, <1>9, <1>10, <1>11
  DEF Next, Verify, Environment

\* Types: every variable keeps to its set in every reachable state.
THEOREM TypeCorrect == Spec => []TypeOK
  BY InitTyped, NextTyped, PTL DEF Spec

-----------------------------------------------------------------------------
(* Shutdown.  A row in hand can only say "cancelled" once the context is,  *)
(* and then no insert succeeds.                                            *)

ShutdownInv ==
  /\ NoShutdownFailures
  /\ \A g \in Goroutines : task[g].outcome = "cancelled" => process = "cancelled"

LEMMA InitShutdownInv == Init => ShutdownInv
  BY IdleTyped DEF Init, ShutdownInv, NoShutdownFailures

\* A step of a goroutine can only come to "cancelled" under a cancelled context.
LEMMA StepOutcome ==
  ASSUME TypeOK, NEW g \in Goroutines, Step(g)
  PROVE  task'[g].outcome \in {task[g].outcome, "answered", Answer}
<1>t. task[g] \in Tasks /\ task \in [Goroutines -> Tasks]
  BY DEF TypeOK
<1>1. CASE Acquire(g)
  BY <1>1, <1>t DEF Acquire, Tasks
<1>2. CASE CertificateRead(g)
  <2>1. [task[g] EXCEPT !.at = "relay", !.keys = RelayKeys[task[g].blob]].outcome = task[g].outcome
    BY <1>t DEF Tasks
  <2> QED
    BY <1>2, <1>t, <2>1, AfterProbeTyped, IdleTyped DEF CertificateRead
<1>3. CASE NoRegistry(g) \/ CertificateMissing(g)
  BY <1>3, <1>t, AfterProbeTyped, IdleTyped DEF NoRegistry, CertificateMissing
<1>4. CASE CertificateFails(g)
  BY <1>4, <1>t DEF CertificateFails, Tasks
<1>5. CASE AskRelay(g)
  BY <1>5, <1>t DEF AskRelay, Tasks
<1>6. CASE InsertStored(g) \/ InsertLost(g)
  BY <1>6, <1>t, AfterInsertTyped, IdleTyped DEF InsertStored, InsertLost
<1>7. CASE Attest(g)
  BY <1>7, <1>t, IdleTyped DEF Attest
<1> QED
  BY <1>1, <1>2, <1>3, <1>4, <1>5, <1>6, <1>7 DEF Step

LEMMA NextShutdownInv == TypeOK /\ ShutdownInv /\ [Next]_vars => ShutdownInv'
<1> SUFFICES ASSUME TypeOK, ShutdownInv, [Next]_vars PROVE ShutdownInv'
  OBVIOUS
<1> USE DEF ShutdownInv, NoShutdownFailures
<1>1. ASSUME NEW b \in Blobs, Observe(b) \/ Certify(b) PROVE ShutdownInv'
  BY <1>1 DEF Observe, Certify
<1>2. CASE Cancel \/ Restart
  BY <1>2 DEF Cancel, Restart
<1>3. CASE Crash
  BY <1>3, IdleTyped DEF Crash
<1>4. CASE Query
  <2>1. \A g \in Goroutines : task'[g].outcome = "cancelled" => task[g].outcome = "cancelled"
    BY <1>4, QueryShape, IdleTyped DEF Goroutines
  <2> QED
    BY <1>4, <2>1 DEF Query, world
<1>5. CASE Sample
  BY <1>5 DEF Sample, world
<1>6. CASE NextAged
  <2>1. PICK b \in sample :
          task' = [task EXCEPT ![Reverifier] = Task("certificate", b, {}, NoRelay, "answered")]
    BY <1>6 DEF NextAged
  <2> QED
    BY <1>6, <2>1 DEF NextAged, world, Task, TypeOK
<1>7. CASE Exit
  BY <1>7, IdleTyped DEF Exit, AllIdle, Goroutines
<1>8. ASSUME NEW g \in Goroutines, Step(g) PROVE ShutdownInv'
  <2>1. process' = process
    BY <1>8, StepShape DEF world
  <2>2. \A h \in Goroutines : task'[h].outcome = "cancelled" => process = "cancelled"
    <3>1. \A h \in Goroutines \ {g} : task'[h] = task[h]
      BY <1>8, StepShape DEF TypeOK
    <3>2. task'[g].outcome = "cancelled" => process = "cancelled"
      BY <1>8, StepOutcome DEF Answer
    <3> QED
      BY <3>1, <3>2
  <2>3. NoShutdownFailures'
    <3>1. CASE InsertStored(g)
      <4>1. task[g].outcome # "cancelled"
        BY <3>1 DEF InsertStored
      <4>2. Row(task[g].blob, task[g].key, task[g].outcome, g).outcome = task[g].outcome
        BY DEF Row
      <4> QED
        BY <3>1, <4>1, <4>2 DEF InsertStored
    <3>2. CASE ~InsertStored(g)
      BY <1>8, <3>2
      DEF Step, Acquire, NoRegistry, CertificateRead, CertificateMissing, CertificateFails, AskRelay,
          InsertLost, Attest
    <3> QED
      BY <3>1, <3>2
  <2> QED
    BY <2>1, <2>2, <2>3
<1>9. CASE UNCHANGED vars
  BY <1>9 DEF vars, world
<1> QED
  BY <1>1, <1>2, <1>3, <1>4, <1>5, <1>6, <1>7, <1>8, <1>9 DEF Next, Verify, Environment

\* No row ever records a failure that the prober's own shutdown caused.
THEOREM ShutdownLeavesNoFailures == Spec => []NoShutdownFailures
<1>1. ShutdownInv => NoShutdownFailures
  BY DEF ShutdownInv
<1> QED
  BY <1>1, InitShutdownInv, NextShutdownInv, TypeCorrect, PTL DEF Spec

-----------------------------------------------------------------------------
(* One record per blob.  VerifiedOnce is not inductive: that a row is the  *)
(* first of its kind needs to know that no other goroutine holds the blob, *)
(* that a blob is taken up without rows, and that the rows written since   *)
(* are of relays its goroutine has passed.                                 *)

OneGoroutinePerBlob ==
  \A v, w \in Workers :
    (task[v].blob = task[w].blob /\ task[v].blob # NoBlob) => v = w

\* The verifier's rows of a blob in hand are of relays the goroutine has passed,
\* and none of them is there before, or stands for, an unreadable certificate
\* while there are relays left to ask.
RowsArePassed(w) ==
  \A r \in VerifierRows(task[w].blob) :
    /\ task[w].at \in {"relay", "insert", "attestation"}
    /\ r.relay \notin task[w].keys
    /\ task[w].at = "insert" => r.relay # task[w].key /\ task[w].key # NoRelay
    /\ task[w].at # "attestation" => r.relay # NoRelay

\* The relay whose row is to be written has left the relays still to be asked;
\* without a certificate there are none.
KeysInHand(w) ==
  /\ task[w].at \in {"queued", "certificate"} => task[w].keys = {}
  /\ task[w].at = "insert" => /\ task[w].key \notin task[w].keys
                              /\ task[w].key = NoRelay => task[w].keys = {}

VerifiedInv ==
  /\ VerifiedOnce
  /\ OneGoroutinePerBlob
  /\ \A w \in Workers : RowsArePassed(w) /\ KeysInHand(w)

LEMMA InitVerifiedInv == Init => VerifiedInv
  BY IdleTyped
  DEF Init, VerifiedInv, VerifiedOnce, OneGoroutinePerBlob, RowsArePassed, KeysInHand,
      VerifierRows, RowsOf, Goroutines

\* An idle goroutine holds no rows and no relays.
LEMMA IdleInv ==
  ASSUME TypeOK, NEW w \in Workers, task[w] = Idle PROVE RowsArePassed(w) /\ KeysInHand(w)
<1>1. VerifierRows(NoBlob) = {}
  BY RelayAssumption DEF VerifierRows, RowsOf, TypeOK, Rows
<1> QED
  BY <1>1, IdleTyped DEF RowsArePassed, KeysInHand

\* A step that leaves the rows of the verifier alone leaves the rest to the tasks.
LEMMA SameRows ==
  ASSUME TypeOK, TypeOK', VerifiedInv, NEW g \in Goroutines, Step(g),
         \A b : VerifierRows(b)' = VerifierRows(b),
         g \in Workers => (RowsArePassed(g) /\ KeysInHand(g))'
  PROVE  VerifiedInv'
<1>1. VerifiedOnce'
  BY DEF VerifiedInv, VerifiedOnce
<1>2. \A w \in Workers \ {g} : task'[w] = task[w]
  BY StepShape DEF TypeOK, Goroutines
<1>3. \A w \in Workers : task'[w].blob \in {task[w].blob, NoBlob}
  BY <1>2, StepShape, IdleTyped DEF TypeOK, Goroutines
<1>4. OneGoroutinePerBlob'
  BY <1>3 DEF VerifiedInv, OneGoroutinePerBlob
<1>5. ASSUME NEW w \in Workers, w # g PROVE (RowsArePassed(w) /\ KeysInHand(w))'
  BY <1>2, <1>5 DEF VerifiedInv, RowsArePassed, KeysInHand
<1> QED
  BY <1>1, <1>4, <1>5 DEF VerifiedInv

\* The row a goroutine of the verifier writes is the first of its kind.
LEMMA InsertKeepsVerifiedInv ==
  ASSUME TypeOK, TypeOK', VerifiedInv, NEW g \in Workers, InsertStored(g)
  PROVE  VerifiedInv'
<1>0. PICK b : b = task[g].blob
  OBVIOUS
<1> DEFINE new == Row(task[g].blob, task[g].key, task[g].outcome, g)
<1>1. new.blob = b /\ new.relay = task[g].key /\ new.by = "verifier"
  BY <1>0, RelayAssumption DEF Row
<1>2. retrievalProbes' = retrievalProbes \cup {new} /\ task[g].at = "insert"
  BY DEF InsertStored, At
<1> HIDE DEF new
<1>3. VerifierRows(b)' = VerifierRows(b) \cup {new}
  BY <1>1, <1>2 DEF VerifierRows, RowsOf
<1>4. \A c : c # b => VerifierRows(c)' = VerifierRows(c)
  BY <1>1, <1>2 DEF VerifierRows, RowsOf
<1>5. \A r \in VerifierRows(b) :
        r.relay # task[g].key /\ task[g].key # NoRelay /\ r.relay # NoRelay
  BY <1>0, <1>2 DEF VerifiedInv, RowsArePassed
<1>6. VerifiedOnce'
  BY <1>1, <1>3, <1>4, <1>5 DEF VerifiedInv, VerifiedOnce
<1>7. /\ task[g] \in Tasks /\ task \in [Goroutines -> Tasks] /\ g \in Goroutines
      /\ task' = [task EXCEPT ![g] = AfterInsert(g)]
      /\ b # NoBlob
  BY <1>0, <1>2, RelayAssumption DEF TypeOK, Goroutines, InsertStored
<1>8. \A w \in Workers \ {g} : task'[w] = task[w] /\ task[w].blob # b
  BY <1>0, <1>7 DEF VerifiedInv, OneGoroutinePerBlob, Goroutines
<1>9. /\ task'[g].blob = b /\ task'[g].keys = task[g].keys
      /\ \/ task'[g].at = "attestation"
         \/ task'[g].at = "relay" /\ task[g].keys # {}
  BY <1>0, <1>7, AfterInsertTyped, IdleTyped DEF AfterInsert, AfterProbe
<1>10. OneGoroutinePerBlob'
  BY <1>0, <1>8, <1>9 DEF VerifiedInv, OneGoroutinePerBlob
<1>11. ASSUME NEW w \in Workers, w # g PROVE (RowsArePassed(w) /\ KeysInHand(w))'
  BY <1>4, <1>8, <1>11 DEF VerifiedInv, RowsArePassed, KeysInHand
<1>12. task[g].key \notin task[g].keys /\ (task[g].key = NoRelay => task[g].keys = {})
  BY <1>2 DEF VerifiedInv, KeysInHand
<1>13. \A r \in VerifierRows(b) : r.relay \notin task[g].keys
  BY <1>0 DEF VerifiedInv, RowsArePassed
<1>14. RowsArePassed(g)'
  BY <1>1, <1>3, <1>5, <1>9, <1>12, <1>13 DEF RowsArePassed
<1>15. KeysInHand(g)'
  BY <1>9 DEF KeysInHand
<1> QED
  BY <1>6, <1>10, <1>11, <1>14, <1>15 DEF VerifiedInv

\* Every other step of a goroutine.
LEMMA StepKeepsVerifiedInv ==
  ASSUME TypeOK, TypeOK', VerifiedInv, NEW g \in Goroutines, Step(g)
  PROVE  VerifiedInv'
<1>t. task[g] \in Tasks /\ task \in [Goroutines -> Tasks]
  BY DEF TypeOK
<1>1. CASE InsertStored(g) /\ g \in Workers
  BY <1>1, InsertKeepsVerifiedInv
<1>2. CASE InsertStored(g) /\ g \notin Workers
  <2>1. Row(task[g].blob, task[g].key, task[g].outcome, g).by = "reverifier"
    BY <1>2 DEF Row, Goroutines
  <2>2. \A b : VerifierRows(b)' = VerifierRows(b)
    BY <1>2, <2>1 DEF InsertStored, VerifierRows, RowsOf
  <2> QED
    BY <1>2, <2>2, SameRows
<1>3. CASE ~InsertStored(g)
  <2>1. retrievalProbes' = retrievalProbes
    BY <1>3 DEF Step, Acquire, NoRegistry, CertificateRead, CertificateMissing, CertificateFails,
                AskRelay, InsertLost, Attest
  <2>2. \A b : VerifierRows(b)' = VerifierRows(b)
    BY <2>1 DEF VerifierRows, RowsOf
  <2>3. ASSUME g \in Workers PROVE (RowsArePassed(g) /\ KeysInHand(g))'
    <3> USE <2>2, <2>3, <1>t
    <3>0. RowsArePassed(g) /\ KeysInHand(g)
      BY DEF VerifiedInv
    <3>1. CASE Acquire(g)
      BY <3>0, <3>1 DEF Acquire, At, RowsArePassed, KeysInHand, Tasks
    <3>2. CASE CertificateRead(g)
      <4>1. VerifierRows(task[g].blob) = {}
        BY <3>0, <3>2 DEF CertificateRead, At, RowsArePassed
      <4>2. /\ task'[g].blob = task[g].blob
            /\ task'[g].at \in {"relay", "attestation"}
        BY <3>2, AfterProbeTyped, IdleTyped DEF CertificateRead, AfterProbe, Tasks
      <4> QED
        BY <4>1, <4>2 DEF RowsArePassed, KeysInHand
    <3>3. CASE NoRegistry(g) \/ CertificateMissing(g)
      <4>1. VerifierRows(task[g].blob) = {}
        BY <3>0, <3>3 DEF NoRegistry, CertificateMissing, At, RowsArePassed
      <4>2. task'[g].blob = task[g].blob /\ task'[g].at = "attestation"
        BY <3>3, AfterProbeTyped, IdleTyped DEF NoRegistry, CertificateMissing, AfterProbe
      <4> QED
        BY <4>1, <4>2 DEF RowsArePassed, KeysInHand
    <3>4. CASE CertificateFails(g)
      <4>1. VerifierRows(task[g].blob) = {} /\ task[g].keys = {}
        BY <3>0, <3>4 DEF CertificateFails, At, RowsArePassed, KeysInHand
      <4>2. /\ task'[g].blob = task[g].blob /\ task'[g].keys = task[g].keys
            /\ task'[g].at = "insert"
        BY <3>4 DEF CertificateFails, Tasks
      <4> QED
        BY <4>1, <4>2 DEF RowsArePassed, KeysInHand
    <3>5. CASE AskRelay(g)
      <4>1. PICK k \in task[g].keys :
              task' = [task EXCEPT ![g] = [task[g] EXCEPT !.at = "insert", !.key = k,
                                             !.keys = @ \ {k}, !.outcome = Answer]]
        BY <3>5 DEF AskRelay
      <4>2. /\ task'[g].blob = task[g].blob /\ task'[g].at = "insert"
            /\ task'[g].key = k /\ task'[g].keys = task[g].keys \ {k}
        BY <4>1 DEF Tasks
      <4>3. k # NoRelay
        BY RelayAssumption DEF Tasks
      <4>4. \A r \in VerifierRows(task[g].blob) : r.relay \notin task[g].keys /\ r.relay # NoRelay
        BY <3>0, <3>5 DEF AskRelay, At, RowsArePassed
      <4> QED
        BY <4>2, <4>3, <4>4 DEF RowsArePassed, KeysInHand
    <3>6. CASE InsertLost(g)
      <4>1. /\ task'[g].blob = task[g].blob /\ task'[g].keys = task[g].keys
            /\ \/ task'[g].at = "attestation"
               \/ task'[g].at = "relay" /\ task[g].keys # {}
        BY <3>6, AfterInsertTyped, IdleTyped DEF InsertLost, AfterInsert, AfterProbe
      <4>2. task[g].at = "insert"
        BY <3>6 DEF InsertLost, At
      <4> QED
        BY <3>0, <4>1, <4>2 DEF RowsArePassed, KeysInHand
    <3>7. CASE Attest(g)
      <4>1. TypeOK' /\ task'[g] = Idle /\ VerifierRows(NoBlob) = {}
        BY <3>7, RelayAssumption DEF Attest, VerifierRows, RowsOf, TypeOK, Rows
      <4> QED
        BY <4>1, IdleTyped DEF RowsArePassed, KeysInHand
    <3> QED
      BY <1>3, <3>1, <3>2, <3>3, <3>4, <3>5, <3>6, <3>7 DEF Step
  <2> QED
    BY <2>2, <2>3, SameRows
<1> QED
  BY <1>1, <1>2, <1>3

LEMMA NextVerifiedInv == TypeOK /\ VerifiedInv /\ [Next]_vars => VerifiedInv'
<1> SUFFICES ASSUME TypeOK, VerifiedInv, [Next]_vars PROVE VerifiedInv'
  OBVIOUS
<1>t. TypeOK'
  BY NextTyped
<1>s. ASSUME retrievalProbes' = retrievalProbes, \A w \in Workers : task'[w] = task[w]
      PROVE  VerifiedInv'
  BY <1>s DEF VerifiedInv, VerifiedOnce, OneGoroutinePerBlob, RowsArePassed, KeysInHand,
              VerifierRows, RowsOf
<1>1. ASSUME NEW b \in Blobs, Observe(b) \/ Certify(b) PROVE VerifiedInv'
  BY <1>1, <1>s DEF Observe, Certify
<1>2. CASE Cancel \/ Restart \/ Sample \/ Exit
  BY <1>2, <1>s DEF Cancel, Restart, Sample, Exit
<1>3. CASE Crash
  <2>1. retrievalProbes' = retrievalProbes /\ \A w \in Workers : task'[w] = Idle
    BY <1>3 DEF Crash, Goroutines
  <2>2. VerifierRows(NoBlob) = {}
    BY RelayAssumption DEF VerifierRows, RowsOf, TypeOK, Rows
  <2> QED
    BY <2>1, <2>2, IdleTyped
    DEF VerifiedInv, VerifiedOnce, OneGoroutinePerBlob, RowsArePassed, KeysInHand,
        VerifierRows, RowsOf
<1>4. CASE Query
  <2>1. retrievalProbes' = retrievalProbes
    BY <1>4 DEF Query
  <2>2. \A w \in Workers : VerifierRows(task'[w].blob) = {}
    <3>1. VerifierRows(NoBlob) = {}
      BY RelayAssumption DEF VerifierRows, RowsOf, TypeOK, Rows
    <3>2. \A b \in Unprobed : VerifierRows(b) = {}
      BY DEF Unprobed, VerifierRows
    <3> QED
      BY <1>4, <3>1, <3>2, QueryShape, IdleTyped
  <2>3. \A w \in Workers : task'[w].at \in {"idle", "queued"} /\ (task'[w].at = "queued" => task'[w].keys = {})
    BY <1>4, QueryShape, IdleTyped
  <2>4. OneGoroutinePerBlob'
    BY <1>4, QueryShape DEF OneGoroutinePerBlob
  <2>5. VerifiedOnce'
    BY <2>1 DEF VerifiedInv, VerifiedOnce, VerifierRows, RowsOf
  <2>6. ASSUME NEW w \in Workers PROVE (RowsArePassed(w) /\ KeysInHand(w))'
    BY <2>1, <2>2, <2>3 DEF RowsArePassed, KeysInHand, VerifierRows, RowsOf
  <2> QED
    BY <2>4, <2>5, <2>6 DEF VerifiedInv
<1>5. CASE NextAged
  BY <1>5, <1>s, RelayAssumption DEF NextAged, TypeOK
<1>6. ASSUME NEW g \in Goroutines, Step(g) PROVE VerifiedInv'
  BY <1>t, <1>6, StepKeepsVerifiedInv
<1>7. CASE UNCHANGED vars
  BY <1>7, <1>s DEF vars
<1> QED
  BY <1>1, <1>2, <1>3, <1>4, <1>5, <1>6, <1>7 DEF Next, Verify, Environment

\* The relay verifier never has two rows for one relay of a blob, and a blob with a
\* row for an unreadable certificate has no other row of the verifier.
THEOREM RecordedOnce == Spec => []VerifiedOnce
<1>1. VerifiedInv => VerifiedOnce
  BY DEF VerifiedInv
<1> QED
  BY <1>1, InitVerifiedInv, NextVerifiedInv, TypeCorrect, PTL DEF Spec

-----------------------------------------------------------------------------
(* The semaphore.                                                          *)

LEMMA InFlightFinite == IsFiniteSet(InFlight) /\ Cardinality(InFlight) \in Nat
<1>1. InFlight \in SUBSET Workers /\ IsFiniteSet(Workers)
  BY RelayAssumption DEF InFlight
<1> QED
  BY <1>1, FS_Subset, FS_CardinalityType

\* The goroutines at work hold one channel: InFlightBound alone is not inductive, as
\* Acquire only counts those that hold the channel of its own batch.
OneChannel ==
  \A v, w \in Workers : task[v] # Idle /\ task[w] # Idle => sem[v] = sem[w]

SemaphoreInv == OneChannel /\ InFlightBound

LEMMA NextOneChannel == TypeOK /\ OneChannel /\ [Next]_vars => OneChannel'
<1> SUFFICES ASSUME TypeOK, OneChannel, [Next]_vars PROVE OneChannel'
  OBVIOUS
<1>s. ASSUME sem' = sem, \A w \in Workers : task'[w] # Idle => task[w] # Idle PROVE OneChannel'
  BY <1>s DEF OneChannel
<1>1. CASE task' = task /\ sem' = sem
  BY <1>1, <1>s
<1>2. CASE Crash
  BY <1>2, <1>s DEF Crash, Goroutines
<1>3. CASE Query
  BY <1>3, QueryShape DEF OneChannel
<1>4. CASE NextAged
  BY <1>4, <1>s, RelayAssumption DEF NextAged, TypeOK
<1>5. ASSUME NEW g \in Goroutines, Step(g) PROVE OneChannel'
  <2>1. sem' = sem /\ \A w \in Workers \ {g} : task'[w] = task[w]
    BY <1>5, StepShape DEF TypeOK, Goroutines
  <2>2. task[g] # Idle
    BY <1>5, StepShape, IdleTyped
  <2> QED
    BY <1>s, <2>1, <2>2
<1> QED
  BY <1>1, <1>2, <1>3, <1>4, <1>5
  DEF Next, Verify, Environment, Observe, Certify, Cancel, Restart, Sample, Exit, vars

LEMMA NextInFlight == TypeOK /\ SemaphoreInv /\ [Next]_vars => InFlightBound'
<1> SUFFICES ASSUME TypeOK, OneChannel, InFlightBound, [Next]_vars PROVE InFlightBound'
  BY DEF SemaphoreInv
<1> USE RelayAssumption
<1>m. ASSUME InFlight' \subseteq InFlight PROVE InFlightBound'
  <2>1. Cardinality(InFlight') <= Cardinality(InFlight) /\ Cardinality(InFlight') \in Nat
    BY <1>m, InFlightFinite, FS_Subset, FS_CardinalityType
  <2> QED
    BY <2>1, InFlightFinite DEF InFlightBound
<1>1. CASE task' = task
  BY <1>1, <1>m DEF InFlight
<1>2. CASE Crash
  BY <1>2, <1>m, IdleTyped DEF Crash, InFlight, Goroutines
<1>3. CASE Query
  BY <1>3, <1>m, QueryShape, IdleTyped DEF InFlight
<1>4. CASE NextAged
  BY <1>4, <1>m DEF NextAged, InFlight, TypeOK
<1>5. ASSUME NEW g \in Goroutines, Acquire(g) PROVE InFlightBound'
  <2>1. InFlight' \subseteq InFlight \cup {g} /\ (g \notin Workers => InFlight' \subseteq InFlight)
    BY <1>5 DEF Acquire, InFlight, TypeOK, Goroutines
  <2>2. CASE g \notin Workers
    BY <1>m, <2>1, <2>2
  <2>3. CASE g \in Workers
    \* The channel of g is the one channel: all goroutines in flight are in it.
    <3>1. task[g] # Idle
      BY <1>5, IdleTyped DEF Acquire, At
    <3>2. \A w \in InFlight : w \in Workers /\ task[w] # Idle
      BY IdleTyped DEF InFlight
    <3>3. {w \in InFlight : sem[w] = sem[g]} = InFlight
      BY <2>3, <3>1, <3>2 DEF OneChannel
    <3>4. Cardinality(InFlight) < MaxInFlight
      BY <1>5, <3>3 DEF Acquire
    \* One more, where there was room for one more.
    <3>5. /\ IsFiniteSet(InFlight \cup {g})
          /\ Cardinality(InFlight \cup {g}) =
               IF g \in InFlight THEN Cardinality(InFlight) ELSE Cardinality(InFlight) + 1
      BY InFlightFinite, FS_AddElement
    <3>6. Cardinality(InFlight \cup {g}) <= Cardinality(InFlight) + 1
      BY <3>5, InFlightFinite
    <3>7. /\ Cardinality(InFlight') <= Cardinality(InFlight \cup {g})
          /\ Cardinality(InFlight') \in Nat /\ Cardinality(InFlight \cup {g}) \in Nat
      BY <2>1, <3>5, FS_Subset, FS_CardinalityType
    <3> QED
      BY <3>4, <3>6, <3>7, InFlightFinite DEF InFlightBound
  <2> QED
    BY <2>2, <2>3
<1>6. ASSUME NEW g \in Goroutines, Step(g), ~Acquire(g) PROVE InFlightBound'
  <2>1. task[g].at \notin {"idle", "queued"}
    BY <1>6 DEF Step, NoRegistry, CertificateRead, CertificateMissing, CertificateFails, AskRelay,
                InsertStored, InsertLost, Attest, At
  <2>2. \A w \in Workers \ {g} : task'[w] = task[w]
    BY <1>6, StepShape DEF TypeOK, Goroutines
  <2> QED
    BY <2>1, <2>2, <1>m DEF InFlight
<1> QED
  BY <1>1, <1>2, <1>3, <1>4, <1>5, <1>6
  DEF Next, Verify, Environment, Observe, Certify, Cancel, Restart, Sample, Exit, vars

\* Never more than MaxInFlight goroutines ask for blobs, although each batch has a channel
\* of its own: the wait between the batches leaves one channel in use.
THEOREM SemaphoreHolds == Spec => []InFlightBound
<1>1. Init => SemaphoreInv
  <2> SUFFICES ASSUME Init PROVE SemaphoreInv
    OBVIOUS
  <2>1. InFlight = {} /\ OneChannel
    BY IdleTyped DEF Init, InFlight, OneChannel, Goroutines
  <2> QED
    BY <2>1, FS_EmptySet, RelayAssumption DEF InFlightBound, SemaphoreInv
<1>2. TypeOK /\ SemaphoreInv /\ [Next]_vars => SemaphoreInv'
  BY NextOneChannel, NextInFlight DEF SemaphoreInv
<1>3. SemaphoreInv => InFlightBound
  BY DEF SemaphoreInv
<1> QED
  BY <1>1, <1>2, <1>3, TypeCorrect, PTL DEF Spec

-----------------------------------------------------------------------------
(* The refinement of WorkQueue.  Query takes a batch, InsertStored records  *)
(* the row of one relay, and a goroutine that ends leaves its blob.         *)

\* Steps that add no row of the verifier keep the counts.
LEMMA SameCounts ==
  ASSUME \A b \in Blobs : VerifierRows(b)' = VerifierRows(b) PROVE RowCounts' = RowCounts
<1>1. RowCounts' =
        [b \in Blobs |-> [k \in Keys |-> Cardinality({r \in VerifierRows(b)' : r.relay = k})]]
  BY DEF RowCounts, Keys, Relays
<1> QED
  BY <1>1 DEF RowCounts

\* A blob without rows is empty in the queue.
LEMMA NoRowsIsEmpty ==
  ASSUME NEW b \in Blobs, VerifierRows(b) = {} PROVE Queue!Empty(b)
<1> SUFFICES ASSUME NEW k \in Keys PROVE RowCounts[b][k] = 0
  BY DEF Queue!Empty
<1>1. Cardinality({r \in VerifierRows(b) : r.relay = k}) = 0
  BY FS_EmptySet
<1> QED
  BY <1>1 DEF RowCounts

LEMMA InitQueue == Init => Queue!Init
<1> SUFFICES ASSUME Init PROVE Queue!Init
  OBVIOUS
<1>1. ASSUME NEW b \in Blobs, NEW k \in Keys PROVE RowCounts[b][k] = 0
  <2>1. Queue!Empty(b)
    BY NoRowsIsEmpty DEF Init, VerifierRows, RowsOf
  <2> QED
    BY <2>1, <1>1 DEF Queue!Empty
<1>2. RowCounts = [b \in Blobs |-> [k \in Keys |-> 0]]
  BY <1>1 DEF RowCounts
<1>3. InHand = {}
  BY IdleTyped DEF Init, InHand, Goroutines
<1> QED
  BY <1>2, <1>3 DEF Queue!Init

\* Steps that add no row leave blobs or do nothing, when no worker gets one.
LEMMA Leaves ==
  ASSUME \A b \in Blobs : VerifierRows(b)' = VerifierRows(b), InHand' \subseteq InHand
  PROVE  Queue!Next
  BY SameCounts DEF Queue!Leave, Queue!Next

\* A batch is taken from blobs without a row, and only after the last one.
LEMMA QueryTakes ==
  ASSUME TypeOK, Query PROVE Queue!Next
<1>1. InHand = {}
  BY IdleTyped DEF Query, AllIdle, InHand
<1>2. ASSUME NEW b \in InHand' PROVE b \in Unprobed /\ b # NoBlob
  BY QueryShape, IdleTyped DEF InHand
<1>3. ASSUME NEW b \in InHand' PROVE b \in Blobs /\ Queue!Empty(b)
  <2>1. b \in Blobs /\ VerifierRows(b) = {}
    BY <1>2, <1>3 DEF Unprobed, VerifierRows, TypeOK
  <2> QED
    BY <2>1, NoRowsIsEmpty
<1>4. RowCounts' = RowCounts
  BY SameCounts DEF Query, VerifierRows, RowsOf
<1> QED
  BY <1>1, <1>3, <1>4 DEF Queue!Take, Queue!Next

\* The row a worker stores is its first for that relay of its blob, and it goes on
\* with the same blob.
LEMMA InsertRecords ==
  ASSUME TypeOK, VerifiedInv, NEW g \in Workers, InsertStored(g) PROVE Queue!Record
<1>0. PICK b, k : b = task[g].blob /\ k = task[g].key
  OBVIOUS
<1> DEFINE new == Row(task[g].blob, task[g].key, task[g].outcome, g)
           Before(c, j) == {r \in VerifierRows(c) : r.relay = j}
           After(c, j) == {r \in VerifierRows(c)' : r.relay = j}
<1>1. new.blob = b /\ new.relay = k /\ new.by = "verifier"
  BY <1>0, RelayAssumption DEF Row
<1>2. retrievalProbes' = retrievalProbes \cup {new} /\ task[g].at = "insert"
  BY DEF InsertStored, At
<1>3. /\ task[g] \in Tasks /\ task \in [Goroutines -> Tasks] /\ g \in Goroutines
      /\ task' = [task EXCEPT ![g] = AfterInsert(g)]
      /\ b \in Blobs /\ b # NoBlob /\ k \in Keys
  BY <1>0, <1>2, RelayAssumption DEF TypeOK, Goroutines, InsertStored, Tasks
<1> HIDE DEF new
<1>4. VerifierRows(b)' = VerifierRows(b) \cup {new}
  BY <1>1, <1>2 DEF VerifierRows, RowsOf
<1>5. ASSUME NEW c \in Blobs, c # b PROVE VerifierRows(c)' = VerifierRows(c)
  BY <1>1, <1>2, <1>5 DEF VerifierRows, RowsOf
<1>6. Before(b, k) = {}
  BY <1>0, <1>2 DEF VerifiedInv, RowsArePassed
<1>7. After(b, k) = {new}
  BY <1>1, <1>4, <1>6
<1>8. ASSUME NEW c \in Blobs, NEW j \in Keys, c # b \/ j # k
      PROVE  After(c, j) = Before(c, j)
  BY <1>1, <1>4, <1>5, <1>8
<1>9. Cardinality(Before(b, k)) = 0 /\ Cardinality(After(b, k)) = 1
  BY <1>6, <1>7, FS_EmptySet, FS_Singleton
<1>10. RowCounts = [c \in Blobs |-> [j \in Keys |-> Cardinality(Before(c, j))]]
  BY DEF RowCounts
<1>11. RowCounts' = [c \in Blobs |-> [j \in Keys |-> Cardinality(After(c, j))]]
  BY DEF RowCounts, Keys, Relays
<1> HIDE DEF Before, After
<1>12. RowCounts[b][k] = 0
  BY <1>3, <1>9, <1>10
<1>13. RowCounts' = [RowCounts EXCEPT ![b][k] = 1]
  <2> DEFINE f == [RowCounts EXCEPT ![b][k] = 1]
  <2>1. f = [c \in Blobs |-> IF c = b THEN [RowCounts[c] EXCEPT ![k] = 1] ELSE RowCounts[c]]
    BY <1>3, <1>10
  <2>2. ASSUME NEW c \in Blobs PROVE f[c] = RowCounts'[c]
    <3>1. RowCounts[c] = [j \in Keys |-> Cardinality(Before(c, j))]
      BY <1>10
    <3>2. RowCounts'[c] = [j \in Keys |-> Cardinality(After(c, j))]
      BY <1>11
    <3>3. f[c] = [j \in Keys |-> f[c][j]]
      BY <3>1, <2>1, <1>3
    <3>4. ASSUME NEW j \in Keys PROVE f[c][j] = RowCounts'[c][j]
      <4>1. CASE c = b /\ j = k
        BY <4>1, <3>1, <3>2, <2>1, <1>3, <1>9
      <4>2. CASE c # b \/ j # k
        BY <4>2, <3>1, <3>2, <2>1, <1>3, <1>8
      <4> QED
        BY <4>1, <4>2
    <3> HIDE DEF f
    <3> QED
      BY <3>2, <3>3, <3>4
  <2>3. f = [c \in Blobs |-> f[c]]
    BY <2>1
  <2>4. RowCounts' = [c \in Blobs |-> RowCounts'[c]]
    BY <1>11
  <2> HIDE DEF f
  <2>5. RowCounts' = f
    BY <2>2, <2>3, <2>4
  <2> QED
    BY <2>5 DEF f
<1>14. task'[g].blob = b /\ \A w \in Workers \ {g} : task'[w] = task[w]
  BY <1>0, <1>3, AfterInsertTyped, IdleTyped DEF Goroutines
<1>15. b \in InHand /\ InHand' = InHand
  BY <1>0, <1>3, <1>14 DEF InHand
<1> QED
  BY <1>3, <1>12, <1>13, <1>15 DEF Queue!Record

\* Every other step of a goroutine.
LEMMA StepQueue ==
  ASSUME TypeOK, VerifiedInv, NEW g \in Goroutines, Step(g) PROVE Queue!Next
<1>t. task[g] \in Tasks /\ task \in [Goroutines -> Tasks] /\ Workers \subseteq Goroutines
  BY DEF TypeOK, Goroutines
<1>1. InHand' \subseteq InHand
  BY <1>t, StepShape, IdleTyped DEF InHand
<1>2. CASE InsertStored(g) /\ g \in Workers
  BY <1>2, InsertRecords DEF Queue!Next
<1>3. CASE InsertStored(g) /\ g \notin Workers
  <2>1. Row(task[g].blob, task[g].key, task[g].outcome, g).by = "reverifier"
    BY <1>3, RelayAssumption DEF Row, Goroutines
  <2>2. \A b : VerifierRows(b)' = VerifierRows(b)
    BY <1>3, <2>1 DEF InsertStored, VerifierRows, RowsOf
  <2> QED
    BY <1>1, <2>2, Leaves
<1>4. CASE ~InsertStored(g)
  <2>1. retrievalProbes' = retrievalProbes
    BY <1>4 DEF Step, Acquire, NoRegistry, CertificateRead, CertificateMissing, CertificateFails,
                AskRelay, InsertLost, Attest
  <2>2. \A b : VerifierRows(b)' = VerifierRows(b)
    BY <2>1 DEF VerifierRows, RowsOf
  <2> QED
    BY <1>1, <2>2, Leaves
<1> QED
  BY <1>2, <1>3, <1>4

LEMMA NextQueue ==
  TypeOK /\ VerifiedInv /\ [Next]_vars => [Queue!Next]_<<RowCounts, InHand>>
<1> SUFFICES ASSUME TypeOK, VerifiedInv, [Next]_vars PROVE Queue!Next
  OBVIOUS
<1>s. ASSUME retrievalProbes' = retrievalProbes,
             \A w \in Workers : task'[w] = task[w] \/ task'[w] = Idle
      PROVE  Queue!Next
  <2>1. \A b : VerifierRows(b)' = VerifierRows(b)
    BY <1>s DEF VerifierRows, RowsOf
  <2>2. InHand' \subseteq InHand
    BY <1>s, IdleTyped DEF InHand
  <2> QED
    BY <2>1, <2>2, Leaves
<1>1. ASSUME NEW b \in Blobs, Observe(b) \/ Certify(b) PROVE Queue!Next
  BY <1>1, <1>s DEF Observe, Certify
<1>2. CASE Cancel \/ Restart \/ Sample \/ Exit
  BY <1>2, <1>s DEF Cancel, Restart, Sample, Exit
<1>3. CASE Crash
  BY <1>3, <1>s DEF Crash, Goroutines
<1>4. CASE Query
  BY <1>4, QueryTakes
<1>5. CASE NextAged
  BY <1>5, <1>s, RelayAssumption DEF NextAged, TypeOK
<1>6. ASSUME NEW g \in Goroutines, Step(g) PROVE Queue!Next
  BY <1>6, StepQueue
<1>7. CASE UNCHANGED vars
  BY <1>7, <1>s DEF vars
<1> QED
  BY <1>1, <1>2, <1>3, <1>4, <1>5, <1>6, <1>7 DEF Next, Verify, Environment

\* The relay verifier implements WorkQueue for its own rows: no batch before the
\* last one is done, no blob with a row of it, one row per relay of a blob in hand.
THEOREM ImplementsWorkQueue == Spec => QueueSpec
<1>1. Spec => [](TypeOK /\ VerifiedInv)
  BY InitVerifiedInv, NextVerifiedInv, TypeCorrect, PTL DEF Spec
<1>2. Spec => Queue!Init /\ [][Queue!Next]_<<RowCounts, InHand>>
  BY <1>1, InitQueue, NextQueue, PTL DEF Spec
<1> QED
  BY <1>2 DEF QueueSpec, Queue!Spec

=============================================================================
