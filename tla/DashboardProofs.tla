--------------------------- MODULE DashboardProofs ---------------------------
(***************************************************************************)
(* What GET /api/operators shows beside a running prober, for every set of *)
(* operators and sockets, every interval, threshold and length of time.    *)
(***************************************************************************)
EXTENDS Dashboard, OperatorVerifierProofs, SequenceTheorems

-----------------------------------------------------------------------------
(* The dashboard changes nothing: beside it the verifier runs as alone.    *)

LEMMA StepOfTheProber == [DashNext]_dashVars => [Next]_vars
  BY DEF DashNext, Prober, Tick, dashVars

\* The dashboard's view is one of a prober that follows its specification.
THEOREM ProberBesideDashboard == DashSpec => Spec
<1>1. DashInit => Init
  BY DEF DashInit
<1> QED
  BY <1>1, StepOfTheProber, PTL DEF DashSpec, Spec

\* A step stores the row in hand or leaves the table alone.
LEMMA RowsOfAStep ==
  ASSUME TypeOK, [Next]_vars
  PROVE  \/ operatorProbes' = operatorProbes /\ nextId' = nextId
         \/ /\ op \in Operators
            /\ operatorProbes' = operatorProbes \cup {Row(nextId, blob, op, result)}
            /\ nextId' = nextId + 1
<1>1. CASE InsertStored
  BY <1>1 DEF InsertStored, CountAnswer, TypeOK
<1>2. CASE InsertLost
  BY <1>2 DEF InsertLost
<1>3. ASSUME NEW b \in Blobs, Observe(b) PROVE UNCHANGED <<operatorProbes, nextId>>
  BY <1>3 DEF Observe
<1>4. CASE CacheExpires \/ Cancel \/ Crash \/ Restart \/ Exit \/ UNCHANGED vars
  BY <1>4 DEF CacheExpires, Cancel, Crash, Restart, Exit, vars, tables
<1>5. CASE Query \/ DiscoverCached \/ DiscoverFetch \/ DiscoverFails \/ ProbeChunks \/ Report
  BY <1>5 DEF Query, DiscoverCached, DiscoverFetch, StartScan, DiscoverFails, ProbeChunks,
              Report, tables
<1> QED
  BY <1>1, <1>2, <1>3, <1>4, <1>5 DEF Next, Verify, Environment

-----------------------------------------------------------------------------
(* Types.                                                                  *)

LEMMA InitDashTyped == DashInit => DashTypeOK
<1> SUFFICES ASSUME DashInit PROVE DashTypeOK
  OBVIOUS
<1>1. columns \in Seq([at : 0..now, socket : Sockets]) /\ Len(columns) = 0 /\ DOMAIN columns = {}
  BY EmptySeq DEF DashInit
<1> QED
  BY <1>1, DashboardAssumption DEF DashInit, Init, DashTypeOK

\* A row's column holds a time that has come.
LEMMA ColumnTyped ==
  ASSUME DashTypeOK, NEW i \in 1..Len(columns)
  PROVE  columns[i].at \in 0..now
<1> DEFINE C == [at : 0..now, socket : Sockets]
<1>1. columns \in Seq(C)
  BY DEF DashTypeOK
<1>2. columns[i] \in C
  <2> HIDE DEF C
  <2> QED
    BY <1>1, ElementOfSeq
<1> QED
  BY <1>2

LEMMA NextDashTyped == TypeOK /\ DashTypeOK /\ [DashNext]_dashVars => DashTypeOK'
<1> SUFFICES ASSUME TypeOK, DashTypeOK, [DashNext]_dashVars PROVE DashTypeOK'
  OBVIOUS
<1>n. now \in Nat /\ nextId \in Nat /\ MaxTime \in Nat
  BY DashboardAssumption DEF DashTypeOK, TypeOK
<1>1. CASE Tick
  <2>1. columns' \in Seq([at : 0..now', socket : Sockets])
    <3> DEFINE C == [at : 0..now, socket : Sockets]
               D == [at : 0..(now + 1), socket : Sockets]
    <3>1. C \subseteq D
      BY <1>n
    <3>2. columns \in Seq(C)
      BY DEF DashTypeOK
    <3>3. columns \in Seq(D)
      <4> HIDE DEF C, D
      <4> QED
        BY <3>1, <3>2, SeqMonotonic
    <3> QED
      BY <1>1, <3>3 DEF Tick
  <2> QED
    BY <1>1, <1>n, <2>1 DEF Tick, DashTypeOK, vars, tables
<1>2. CASE Prober
  <2>1. socket' \in [Operators -> Sockets] /\ now' = now
    BY <1>2 DEF Prober, DashTypeOK
  <2>2. CASE operatorProbes' = operatorProbes /\ nextId' = nextId
    BY <1>2, <2>1, <2>2 DEF Prober, Columns, DashTypeOK
  <2>3. CASE op \in Operators /\ nextId' = nextId + 1
    <3> DEFINE entry == [at |-> now, socket |-> socket[op]]
               C == [at : 0..now, socket : Sockets]
    <3>1. columns' = Append(columns, entry)
      BY <1>2, <1>n, <2>3 DEF Prober, Columns
    <3>2. entry \in C /\ columns \in Seq(C) /\ Len(columns) = nextId - 1
      BY <1>n, <2>3 DEF DashTypeOK
    <3>3. entry.at = now
      OBVIOUS
    <3>4. \A i \in 1..Len(columns) : columns[i].at \in 0..now
      BY ColumnTyped
    <3>5. /\ columns' \in Seq(C) /\ Len(columns') = Len(columns) + 1
          /\ \A i \in 1..Len(columns) : columns'[i] = columns[i]
          /\ columns'[Len(columns) + 1] = entry
          /\ DOMAIN columns' = 1..(Len(columns) + 1) /\ DOMAIN columns = 1..Len(columns)
      <4> HIDE DEF entry, C
      <4> QED
        BY <3>1, <3>2, AppendProperties, LenProperties
    <3>6. \A i, j \in DOMAIN columns' : i <= j => columns'[i].at <= columns'[j].at
      <4> SUFFICES ASSUME NEW i \in 1..(Len(columns) + 1), NEW j \in 1..(Len(columns) + 1), i <= j
                   PROVE  columns'[i].at <= columns'[j].at
        BY <3>5
      <4>1. CASE j \in 1..Len(columns)
        <5>1. i \in DOMAIN columns /\ j \in DOMAIN columns
          BY <1>n, <3>2, <3>5, <4>1
        <5>2. columns[i].at <= columns[j].at
          BY <5>1 DEF DashTypeOK
        <5> QED
          BY <3>5, <5>1, <5>2
      <4>2. CASE j = Len(columns) + 1 /\ i # j
        BY <1>n, <3>2, <3>3, <3>4, <3>5, <4>2
      <4>3. CASE j = Len(columns) + 1 /\ i = j
        BY <1>n, <3>3, <3>5, <4>3
      <4> QED
        BY <1>n, <3>2, <4>1, <4>2, <4>3
    <3> HIDE DEF entry
    <3> QED
      BY <1>n, <2>1, <2>3, <3>2, <3>5, <3>6 DEF DashTypeOK
  <2>4. [Next]_vars
    BY <1>2 DEF Prober
  <2> QED
    BY <2>2, <2>3, <2>4, RowsOfAStep
<1>3. CASE UNCHANGED dashVars
  BY <1>3 DEF dashVars, vars, tables, DashTypeOK
<1> QED
  BY <1>1, <1>2, <1>3 DEF DashNext

\* Types: every row has its two columns, and ids follow the clock.
THEOREM DashTypeCorrect == DashSpec => []DashTypeOK
  BY InitDashTyped, NextDashTyped, ProberBesideDashboard, TypeCorrect, PTL DEF DashSpec

\* What is known of the prober, and of the columns.
DashInv == DashTypeOK /\ TypeOK /\ ScanInv /\ FiniteRows /\ CounterInv

LEMMA AlwaysDashInv == DashSpec => []DashInv
  BY DashTypeCorrect, ProberBesideDashboard, AlwaysCounterInv, PTL DEF DashInv

\* The columns of a row never change.
LEMMA ColumnsStay ==
  ASSUME DashInv, [DashNext]_dashVars, NEW r \in operatorProbes
  PROVE  columns'[r.id] = columns[r.id] /\ columns[r.id].at \in 0..now
<1>0. DashTypeOK /\ TypeOK
  BY DEF DashInv
<1>1. columns \in Seq([at : 0..now, socket : Sockets]) /\ r.id \in 1..Len(columns)
  BY <1>0 DEF DashTypeOK, TypeOK, Rows
<1>2. columns[r.id].at \in 0..now
  BY <1>0, <1>1, ColumnTyped
<1>3. CASE columns' = columns
  BY <1>2, <1>3
<1>4. CASE Prober
  <2>1. CASE nextId' # nextId
    <3>1. op \in Operators
      BY <1>0, <1>4, <2>1, RowsOfAStep DEF Prober
    <3>2. [at |-> now, socket |-> socket[op]] \in [at : 0..now, socket : Sockets]
      BY <1>0, <3>1 DEF DashTypeOK
    <3>3. columns' = Append(columns, [at |-> now, socket |-> socket[op]])
      BY <1>4, <2>1 DEF Prober, Columns
    <3>4. columns'[r.id] = columns[r.id]
      BY <1>1, <3>2, <3>3, AppendProperties
    <3> QED
      BY <1>2, <3>4
  <2>2. CASE nextId' = nextId
    BY <1>2, <1>3, <1>4, <2>2 DEF Prober, Columns
  <2> QED
    BY <2>1, <2>2
<1> QED
  BY <1>3, <1>4 DEF DashNext, Tick, dashVars

-----------------------------------------------------------------------------
(* Recoverability.                                                         *)

\* A blob that the page shows as recoverable stops being so only because time passes.
THEOREM OnlyTimeTakesBack == DashSpec => VerdictOnlyAges
<1>1. DashInv /\ DashInv' /\ [DashNext]_dashVars =>
        [\A b \in Blobs : (ShownRecoverable(b) /\ ~ShownRecoverable(b)') => now' > now]_dashVars
  <2> SUFFICES ASSUME DashInv, DashInv', [DashNext]_dashVars, NEW b \in Blobs,
                      ShownRecoverable(b), ~(now' > now)
               PROVE  ShownRecoverable(b)'
    OBVIOUS
  <2> DEFINE A == {r \in RowsOf(b) : InWindow(r) /\ r.outcome = "ok"}
             B == {r \in operatorProbes' :
                     r.blob = b /\ now' - columns'[r.id].at < Hour /\ r.outcome = "ok"}
  <2>1. now' = now
    BY DEF DashInv, DashNext, Prober, Tick, dashVars, DashTypeOK
  <2>2. operatorProbes \subseteq operatorProbes'
    BY StepOfTheProber, RowsOfAStep DEF DashInv
  <2>3. A \subseteq B
    <3> SUFFICES ASSUME NEW r \in A PROVE r \in B
      OBVIOUS
    <3>1. r \in operatorProbes /\ r.blob = b /\ r.outcome = "ok" /\ now - columns[r.id].at < Hour
      BY DEF RowsOf, InWindow
    <3>2. columns'[r.id] = columns[r.id]
      BY <3>1, ColumnsStay
    <3> QED
      BY <2>1, <2>2, <3>1, <3>2
  <2>4. IsFiniteSet(B) /\ \A r \in B : r.chunks \in Nat
    <3>1. B \subseteq operatorProbes' /\ IsFiniteSet(operatorProbes')
      BY DEF DashInv, FiniteRows
    <3> HIDE DEF B
    <3> QED
      BY <3>1, FS_Subset DEF DashInv, TypeOK, Rows
  <2>5. ShownChunks(b) = Chunks(A) /\ ShownChunks(b)' = Chunks(B)
    <3>1. {r \in RowsOf(b)' : InWindow(r)' /\ r.outcome = "ok"} = B
      BY DEF RowsOf, InWindow
    <3>2. ShownChunks(b)' = Chunks({r \in RowsOf(b)' : InWindow(r)' /\ r.outcome = "ok"})
      BY DEF ShownChunks
    <3> QED
      BY <3>1, <3>2 DEF ShownChunks
  <2> HIDE DEF A, B
  <2>6. Chunks(A) \in Nat /\ Chunks(B) \in Nat /\ Chunks(A) <= Chunks(B)
    BY <2>3, <2>4, ChunksMonotone
  <2> QED
    BY <2>5, <2>6, ConstantsAssumption DEF ShownRecoverable
<1> QED
  BY <1>1, AlwaysDashInv, PTL DEF DashSpec, VerdictOnlyAges

\* When a scan ends whose rows were all stored within the hour, log and page agree.
THEOREM LogAndPageAgree == DashSpec => ReportMatchesDashboard
<1>1. DashInv /\ [DashNext]_dashVars =>
        [(Report /\ (\A o \in ops : HasRow(blob, o)) /\ (\A r \in RowsOf(blob) : InWindow(r)))
           => (logged'[blob] = "RECOVERABLE" <=> ShownRecoverable(blob))]_dashVars
  <2> SUFFICES ASSUME DashInv, Report, \A o \in ops : HasRow(blob, o),
                      \A r \in RowsOf(blob) : InWindow(r)
               PROVE  logged'[blob] = "RECOVERABLE" <=> ShownRecoverable(blob)
    OBVIOUS
  <2>1. pc = "probe" /\ blob \in Blobs /\ logged'[blob] = Tag(totalChunks)
    BY ConstantsAssumption DEF Report, DashInv, TypeOK
  <2>2. DbChunks(blob) = totalChunks
    BY <2>1 DEF DashInv, CounterInv, Passed
  <2>3. {r \in RowsOf(blob) : InWindow(r) /\ r.outcome = "ok"}
          = {r \in RowsOf(blob) : r.outcome = "ok"}
    OBVIOUS
  <2>4. ShownChunks(blob) = totalChunks
    BY <2>2, <2>3 DEF ShownChunks, DbChunks, OkRows
  <2>5. totalChunks \in Nat /\ MinChunks \in Nat
    BY ConstantsAssumption DEF DashInv, TypeOK
  <2> QED
    BY <2>1, <2>4, <2>5 DEF Tag, ShownRecoverable
<1> QED
  BY <1>1, AlwaysDashInv, PTL DEF DashSpec, ReportMatchesDashboard

-----------------------------------------------------------------------------
(* Dead operators.                                                         *)

\* As many failures under one socket as probes: each probe is one of them.
LEMMA DeadFailedAlways ==
  ASSUME FiniteRows, NEW o, NEW s, Dead(o, s)
  PROVE  FailuresOf(o, s) = ProbesOf(o)
<1>1. IsFiniteSet(ProbesOf(o))
  BY FS_Subset DEF ProbesOf, FiniteRows
<1>2. FailuresOf(o, s) \in SUBSET ProbesOf(o)
  BY DEF FailuresOf
<1>3. Cardinality(ProbesOf(o)) = Cardinality(FailuresOf(o, s))
  BY DEF Dead
<1> QED
  BY <1>1, <1>2, <1>3, FS_Subset

\* An operator on the list of dead operators never answered a probe.
THEOREM DeadNeverAnswered == DashSpec => []NoLivingDead
<1>1. DashInv => NoLivingDead
  <2> SUFFICES ASSUME DashInv, NEW o \in Operators, ListedDead(o), NEW r \in ProbesOf(o)
               PROVE  r.outcome # "ok"
    BY DEF NoLivingDead
  <2>1. PICK s \in Sockets : Dead(o, s)
    BY DEF ListedDead
  <2>2. r \in FailuresOf(o, s)
    BY <2>1, DeadFailedAlways DEF DashInv
  <2> QED
    BY <2>2 DEF FailuresOf
<1> QED
  BY <1>1, AlwaysDashInv, PTL

\* It leaves the list only by a stored probe of its own.
THEOREM OnlyAProbeRevives == DashSpec => DeadUntilProbed
<1>1. DashInv /\ [DashNext]_dashVars =>
        [\A o \in Operators : (ListedDead(o) /\ ~ListedDead(o)')
            => (op = o /\ nextId' > nextId)]_dashVars
  <2> SUFFICES ASSUME DashInv, [DashNext]_dashVars, NEW o \in Operators, ListedDead(o),
                      ~(op = o /\ nextId' > nextId)
               PROVE  ListedDead(o)'
    OBVIOUS
  <2>1. PICK s \in Sockets : Dead(o, s)
    BY DEF ListedDead
  <2>2. {r \in operatorProbes' : r.op = o} = {r \in operatorProbes : r.op = o}
    <3>1. CASE operatorProbes' = operatorProbes
      BY <3>1
    <3>2. CASE /\ operatorProbes' = operatorProbes \cup {Row(nextId, blob, op, result)}
               /\ nextId' = nextId + 1
      <4>1. op # o
        BY <3>2 DEF DashInv, TypeOK
      <4>2. Row(nextId, blob, op, result).op = op
        BY DEF Row
      <4> QED
        BY <3>2, <4>1, <4>2
    <3> QED
      BY <3>1, <3>2, StepOfTheProber, RowsOfAStep DEF DashInv
  <2>3. ProbesOf(o)' = ProbesOf(o)
    BY <2>2 DEF ProbesOf
  <2>4. FailuresOf(o, s)' = FailuresOf(o, s)
    <3>1. \A r \in ProbesOf(o) : columns'[r.id] = columns[r.id]
      BY ColumnsStay DEF ProbesOf
    <3> QED
      BY <2>3, <3>1 DEF FailuresOf
  <2>5. Dead(o, s)'
    BY <2>1, <2>3, <2>4 DEF Dead
  <2> QED
    BY <2>5 DEF ListedDead
<1> QED
  BY <1>1, AlwaysDashInv, PTL DEF DashSpec, DeadUntilProbed

=============================================================================
