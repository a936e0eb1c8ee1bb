------------------------------ MODULE Dashboard ------------------------------
(***************************************************************************)
(* GET /api/operators of the dashboard beside the operator verifier that   *)
(* fills its table.  To the rows of OperatorVerifier come the two columns  *)
(* the queries read beyond blob, operator and answer: probe_timestamp and  *)
(* operator_socket.  A socket is that of the operator list in use, so it   *)
(* changes only when the list is read from the chain again.                *)
(*                                                                         *)
(* The queries are operators on the state: a request may come at any time. *)
(***************************************************************************)
EXTENDS OperatorVerifier, Sequences

CONSTANTS
  Sockets,        \* the sockets operators register
  Hour,           \* the interval of the recoverability query, in clock steps
  DeadAfter,      \* the least number of probes of a dead operator
  MaxTime         \* bound: how far the clock goes

ASSUME DashboardAssumption ==
  /\ Hour \in Nat \ {0}
  /\ DeadAfter \in Nat \ {0}
  /\ MaxTime \in Nat

VARIABLES
  now,            \* NOW() of the database
  socket,         \* op.Socket of the list in use
  columns         \* probe_timestamp and operator_socket of the row with each id

dashVars == <<vars, now, socket, columns>>

-----------------------------------------------------------------------------
\* The clock goes on.
Tick ==
  /\ now < MaxTime
  /\ now' = now + 1
  /\ UNCHANGED <<vars, socket, columns>>

\* The list was read from the chain: by a scan, or by the warm-up of a restart.
ListRead == cache = {} /\ cache' # {}

\* Mutant: the two columns are kept apart from the row, also when that is lost.
ColumnsApart ==
  columns' = IF pc # "insert" \/ pc' # "probe" THEN columns
             ELSE Append(columns, [at |-> now, socket |-> socket[op]])

\* The step of the prober gives its row, if it stores one, the other two columns.
Columns ==
  columns' = IF nextId' = nextId THEN columns
             ELSE Append(columns, [at |-> now, socket |-> socket[op]])

DashInit ==
  /\ Init
  /\ now = 0
  /\ socket \in [Operators -> Sockets]
  /\ columns = <<>>

Prober ==
  /\ Next
  /\ IF ListRead THEN socket' \in [Operators -> Sockets] ELSE UNCHANGED socket
  /\ Columns
  /\ UNCHANGED now

DashNext == Prober \/ Tick

DashSpec == DashInit /\ [][DashNext]_dashVars

-----------------------------------------------------------------------------
(* The recoverability query.  Its LIMIT only cuts the list of blobs.       *)

\* WHERE probe_timestamp > NOW() - INTERVAL '1 hour'
InWindow(r) == now - columns[r.id].at < Hour

\* Mutant: only the last row of a blob counts.
ShownChunksLast(b) ==
  Chunks({r \in RowsOf(b) : r.outcome = "ok" /\ \A q \in RowsOf(b) : q.id <= r.id})

\* SUM(chunks_returned) FILTER (WHERE success = true)
ShownChunks(b) == Chunks({r \in RowsOf(b) : InWindow(r) /\ r.outcome = "ok"})

\* Mutant: the threshold itself is not enough.
ShownRecoverableMore(b) == ShownChunks(b) > MinChunks

ShownRecoverable(b) == ShownChunks(b) >= MinChunks

-----------------------------------------------------------------------------
(* The query of dead operators.                                            *)

ProbesOf(o) == {r \in operatorProbes : r.op = o}

\* The failures of one group of GROUP BY operator_id, operator_socket.
FailuresOf(o, s) ==
  {r \in ProbesOf(o) : r.outcome # "ok" /\ columns[r.id].socket = s}

\* Mutant: the subquery counts the probes of the socket as well.
DeadPerSocket(o, s) ==
  /\ Cardinality(FailuresOf(o, s)) =
       Cardinality({r \in ProbesOf(o) : columns[r.id].socket = s})
  /\ Cardinality(FailuresOf(o, s)) >= DeadAfter

\* Mutant: only the probes of the last hour count.
DeadLately(o, s) ==
  /\ Cardinality(FailuresOf(o, s)) = Cardinality(ProbesOf(o))
  /\ Cardinality({r \in FailuresOf(o, s) : InWindow(r)}) >= DeadAfter

\* HAVING: the failures of the group are all probes of the operator, and enough.
Dead(o, s) ==
  /\ Cardinality(FailuresOf(o, s)) = Cardinality(ProbesOf(o))
  /\ Cardinality(FailuresOf(o, s)) >= DeadAfter

ListedDead(o) == \E s \in Sockets : Dead(o, s)

-----------------------------------------------------------------------------
(* Properties.                                                             *)

\* Every row has its two columns, and ids follow the clock.
DashTypeOK ==
  /\ now \in 0..MaxTime
  /\ socket \in [Operators -> Sockets]
  /\ columns \in Seq([at : 0..now, socket : Sockets])
  /\ Len(columns) = nextId - 1
  /\ \A i, j \in DOMAIN columns : i <= j => columns[i].at <= columns[j].at

\* When a scan ends whose rows were all stored, none of them an hour ago, the page
\* and the log agree on the blob: the loop's counter and the query see one sum.
ReportMatchesDashboard ==
  [][(Report /\ (\A o \in ops : HasRow(blob, o)) /\ (\A r \in RowsOf(blob) : InWindow(r)))
       => (logged'[blob] = "RECOVERABLE" <=> ShownRecoverable(blob))]_dashVars

\* A blob that the page shows as recoverable stops being so only because time
\* passes and its rows leave the window, never by anything the prober writes: a
\* later failure, a lost row or an interrupted scan takes no verdict back.
VerdictOnlyAges ==
  [][\A b \in Blobs : (ShownRecoverable(b) /\ ~ShownRecoverable(b)') => now' > now]_dashVars

\* An operator on the list of dead operators never answered a probe, under no
\* socket it ever had, while the list is grouped by socket.
NoLivingDead ==
  \A o \in Operators : ListedDead(o) => \A r \in ProbesOf(o) : r.outcome # "ok"

\* It leaves the list only by a stored probe of its own, answered or not; neither time,
\* nor a list of operators without it, nor a probe of another operator takes it off.
DeadUntilProbed ==
  [][\A o \in Operators : (ListedDead(o) /\ ~ListedDead(o)') => (op = o /\ nextId' > nextId)]_dashVars

\* src/dashboard/src/app/api/operators/route.ts:52: "Dead operators (100% failure rate, 5+ probes)".
\* Claim: an operator that failed each of its probes, and enough of them, is listed.
AllFailuresAreListed ==
  \A o \in Operators :
    (Cardinality(ProbesOf(o)) >= DeadAfter /\ \A r \in ProbesOf(o) : r.outcome # "ok")
      => ListedDead(o)

=============================================================================
