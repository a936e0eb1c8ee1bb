----------------------- MODULE OperatorVerifierProofs -----------------------
(***************************************************************************)
(* What holds of the operator verifier for every set of blobs and          *)
(* operators, every share and every number of restarts.                    *)
(***************************************************************************)
EXTENDS OperatorVerifier, FiniteSetTheorems, WellFoundedInduction, TLAPS

-----------------------------------------------------------------------------
(* Types.                                                                  *)

\* Init establishes TypeOK.
LEMMA InitTyped == Init => TypeOK
  BY ConstantsAssumption DEF Init, TypeOK, Rows, Results, NoResult, Failure, Outcomes

\* A typed answer is what ProbeChunks returns.
LEMMA ProbeResultsTyped == ProbeResults \subseteq Results
<1> SUFFICES ASSUME NEW r \in ProbeResults PROVE r \in Results
  OBVIOUS
<1>1. Failure("cancelled") \in Results /\ Failure("refused") \in Results
  BY DEF Failure, Results, Outcomes
<1>2. [outcome : {"ok"}, chunks : Answers] \subseteq Results
  <2> SUFFICES ASSUME NEW a \in [outcome : {"ok"}, chunks : Answers] PROVE a \in Results
    OBVIOUS
  <2>1. a = [outcome |-> a.outcome, chunks |-> a.chunks]
    OBVIOUS
  <2>2. a.outcome \in Outcomes /\ a.chunks \in Nat
    BY ConstantsAssumption DEF Outcomes
  <2> QED
    BY <2>1, <2>2 DEF Results
<1> QED
  BY <1>1, <1>2 DEF ProbeResults

\* Every action keeps TypeOK.
LEMMA NextTyped == TypeOK /\ [Next]_vars => TypeOK'
<1> SUFFICES ASSUME TypeOK, [Next]_vars PROVE TypeOK'
  OBVIOUS
<1> USE ConstantsAssumption DEF TypeOK
<1>f. NoResult \in Results
  BY DEF NoResult, Failure, Results, Outcomes
<1>1. ASSUME NEW b \in Blobs, Observe(b) PROVE TypeOK'
  BY <1>1 DEF Observe, control, scan, Rows
<1>2. CASE CacheExpires
  BY <1>2 DEF CacheExpires, control, tables, scan, Rows
<1>3. CASE Cancel
  BY <1>3 DEF Cancel, tables, scan, Rows
<1>4. CASE Crash
  BY <1>4, <1>f DEF Crash, ForgetScan, tables, Rows
<1>5. CASE Restart
  BY <1>5 DEF Restart, tables, scan, Rows
<1>6. CASE Query
  BY <1>6 DEF Query, Newest, UnprobedOperatorBlobs, control, tables, Rows
<1>7. CASE DiscoverCached
  BY <1>7 DEF DiscoverCached, StartScan, control, tables, Rows
<1>8. CASE DiscoverFetch
  BY <1>8 DEF DiscoverFetch, StartScan, control, tables, Rows
<1>9. CASE DiscoverFails
  BY <1>9, <1>f DEF DiscoverFails, ForgetScan, control, tables, Rows
<1>10. CASE ProbeChunks
  <2>1. PICK o \in todo : op' = o /\ todo' = todo \ {o} /\ result' \in ProbeResults
    BY <1>10 DEF ProbeChunks
  <2>2. result' \in Results
    BY <2>1, ProbeResultsTyped
  <2> QED
    BY <1>10, <2>1, <2>2 DEF ProbeChunks, control, tables, Rows
<1>11. CASE InsertStored
  <2>1. totalChunks' \in Nat
    BY <1>11 DEF InsertStored, CountAnswer, Results
  <2>2. Row(nextId, blob, op, result) \in Rows'
    BY <1>11 DEF InsertStored, CountAnswer, Row, Rows, Results
  <2>3. Rows \subseteq Rows'
    BY <1>11 DEF InsertStored, Rows
  <2>4. operatorProbes' \in SUBSET Rows'
    BY <1>11, <2>2, <2>3 DEF InsertStored
  <2> QED
    BY <1>11, <1>f, <2>1, <2>4 DEF InsertStored, CountAnswer, control
<1>12. CASE InsertLost
  <2>1. totalChunks' \in Nat
    BY <1>12 DEF InsertLost, CountAnswer, Results
  <2> QED
    BY <1>12, <1>f, <2>1 DEF InsertLost, CountAnswer, control, Rows
<1>13. CASE Report
  BY <1>13, <1>f DEF Report, Tag, ForgetScan, control, tables, Rows
<1>14. CASE Exit
  BY <1>14 DEF Exit, tables, scan, Rows
<1>15. CASE UNCHANGED vars
  BY <1>15 DEF vars, control, tables, scan, Rows
<1> QED
  BY <1>1, <1>2, <1>3, <1>4, <1>5, <1>6, <1>7, <1>8, <1>9, <1>10, <1>11, <1>12,
     <1>13, <1>14, <1>15 DEF Next, Verify, Environment

\* Types: every variable keeps to its set in every reachable state.
THEOREM TypeCorrect == Spec => []TypeOK
  BY InitTyped, NextTyped, PTL DEF Spec

-----------------------------------------------------------------------------
(* One row per operator.  OneRowPerOperator alone is not inductive: that   *)
(* the row about to be written is the first one needs to know that a scan  *)
(* only starts on a blob without rows and that the rows written since are  *)
(* of operators the loop has already passed.                               *)

\* The rows of the blob in hand are of operators the loop has passed; the
\* operator in hand is one of them, but for its row.
RowsArePassed ==
  \A r \in operatorProbes :
    r.blob = blob => /\ pc \in {"probe", "insert"}
                     /\ r.op \notin todo
                     /\ r.op # op

ScanInv ==
  /\ OneRowPerOperator
  /\ RowsArePassed
  /\ op \notin todo

LEMMA InitScanInv == Init => ScanInv
  BY DEF Init, ScanInv, OneRowPerOperator, RowsArePassed

\* A row written for the operator in hand is its first row.
LEMMA InsertKeepsScanInv ==
  ASSUME TypeOK, ScanInv, InsertStored PROVE ScanInv'
<1> DEFINE new == Row(nextId, blob, op, result)
<1>1. /\ operatorProbes' = operatorProbes \cup {new}
      /\ op' = NoOperator /\ todo' = todo /\ blob' = blob
      /\ pc = "insert" /\ pc' = "probe"
  BY DEF InsertStored, CountAnswer
<1>2. new.blob = blob /\ new.op = op
  BY DEF Row
<1>3. \A r \in operatorProbes : ~(r.blob = blob /\ r.op = op)
  BY DEF ScanInv, RowsArePassed
<1>4. OneRowPerOperator'
  BY <1>1, <1>2, <1>3 DEF ScanInv, OneRowPerOperator
<1>5. op \in Operators /\ NoOperator \notin todo /\ \A r \in operatorProbes : r.op # NoOperator
  BY <1>1, ConstantsAssumption DEF TypeOK, Rows
<1>6. RowsArePassed'
  <2>1. new.op \notin todo /\ new.op # NoOperator
    BY <1>2, <1>5, ConstantsAssumption DEF ScanInv
  <2> HIDE DEF new
  <2> QED
    BY <1>1, <1>5, <2>1 DEF ScanInv, RowsArePassed
<1> QED
  BY <1>1, <1>4, <1>5, <1>6 DEF ScanInv

LEMMA NextScanInv == TypeOK /\ ScanInv /\ [Next]_vars => ScanInv'
<1> SUFFICES ASSUME TypeOK, ScanInv, [Next]_vars PROVE ScanInv'
  OBVIOUS
<1> USE DEF ScanInv, OneRowPerOperator, RowsArePassed
<1>r. \A r \in operatorProbes : r.blob # NoBlob /\ r.op # NoOperator
  BY ConstantsAssumption DEF TypeOK, Rows
<1>1. ASSUME NEW b \in Blobs, Observe(b) PROVE ScanInv'
  BY <1>1 DEF Observe, scan
<1>2. CASE CacheExpires
  BY <1>2 DEF CacheExpires, tables, scan
<1>3. CASE Cancel
  BY <1>3 DEF Cancel, tables, scan
<1>4. CASE Crash
  BY <1>4, <1>r DEF Crash, ForgetScan, tables
<1>5. CASE Restart
  BY <1>5 DEF Restart, tables, scan
<1>6. CASE Query
  \* The blob picked has no row.
  <2>1. \A r \in operatorProbes : r.blob # blob'
    BY <1>6 DEF Query, Newest, UnprobedOperatorBlobs
  <2> QED
    BY <1>6, <2>1 DEF Query, tables
<1>7. ASSUME NEW list \in SUBSET Operators, StartScan(list), pc = "discover" PROVE ScanInv'
  \* The blob in hand has no row before its scan starts.
  <2>1. \A r \in operatorProbes : r.blob # blob
    BY <1>7
  <2>2. op \notin list
    BY <1>7, ConstantsAssumption DEF TypeOK
  <2> QED
    BY <1>7, <2>1, <2>2 DEF StartScan, tables
<1>8. CASE DiscoverCached
  BY <1>7, <1>8 DEF DiscoverCached, TypeOK
<1>9. CASE DiscoverFetch
  BY <1>7, <1>9 DEF DiscoverFetch
<1>10. CASE DiscoverFails
  BY <1>10, <1>r DEF DiscoverFails, ForgetScan, tables
<1>11. CASE ProbeChunks
  BY <1>11 DEF ProbeChunks, tables
<1>12. CASE InsertStored
  BY <1>12, InsertKeepsScanInv
<1>13. CASE InsertLost
  BY <1>13, <1>r, ConstantsAssumption DEF InsertLost, CountAnswer, TypeOK
<1>14. CASE Report
  BY <1>14, <1>r DEF Report, ForgetScan, tables
<1>15. CASE Exit
  BY <1>15 DEF Exit, tables, scan
<1>16. CASE UNCHANGED vars
  BY <1>16 DEF vars, tables, scan
<1> QED
  BY <1>1, <1>2, <1>3, <1>4, <1>5, <1>6, <1>8, <1>9, <1>10, <1>11, <1>12, <1>13,
     <1>14, <1>15, <1>16 DEF Next, Verify, Environment

\* No operator ever has two rows for one blob.
THEOREM NeverTwoRows == Spec => []OneRowPerOperator
<1>1. ScanInv => OneRowPerOperator
  BY DEF ScanInv
<1> QED
  BY <1>1, InitScanInv, NextScanInv, TypeCorrect, PTL DEF Spec

-----------------------------------------------------------------------------
(* Shutdown.  The answer in hand can only be "cancelled" once the context  *)
(* is, and no row is written after that.                                   *)

ShutdownInv ==
  /\ NoShutdownRows
  /\ pc # "insert" => result = NoResult
  /\ result.outcome = "cancelled" => process = "cancelled"

LEMMA InitShutdownInv == Init => ShutdownInv
  BY DEF Init, ShutdownInv, NoShutdownRows, NoResult, Failure

LEMMA NextShutdownInv == TypeOK /\ ShutdownInv /\ [Next]_vars => ShutdownInv'
<1> SUFFICES ASSUME TypeOK, ShutdownInv, [Next]_vars PROVE ShutdownInv'
  OBVIOUS
<1> USE DEF ShutdownInv, NoShutdownRows
<1>n. NoResult.outcome # "cancelled"
  BY DEF NoResult, Failure
<1>1. ASSUME NEW b \in Blobs, Observe(b) PROVE ShutdownInv'
  BY <1>1 DEF Observe, control, scan
<1>2. CASE CacheExpires
  BY <1>2 DEF CacheExpires, control, tables, scan
<1>3. CASE Cancel
  BY <1>3 DEF Cancel, tables, scan
<1>4. CASE Crash
  BY <1>4, <1>n DEF Crash, ForgetScan, tables
<1>5. CASE Restart
  BY <1>5 DEF Restart, tables, scan
<1>6. CASE Query
  BY <1>6 DEF Query, control, tables
<1>7. CASE DiscoverCached \/ DiscoverFetch
  BY <1>7 DEF DiscoverCached, DiscoverFetch, StartScan, control, tables
<1>8. CASE DiscoverFails
  BY <1>8, <1>n DEF DiscoverFails, ForgetScan, control, tables
<1>9. CASE ProbeChunks
  <2>1. PICK o \in todo : result' \in ProbeResults
    BY <1>9 DEF ProbeChunks
  <2>2. result'.outcome = "cancelled" => process = "cancelled"
    BY <2>1 DEF ProbeResults, Failure
  <2> QED
    BY <1>9, <2>2 DEF ProbeChunks, control, tables
<1>10. CASE InsertStored
  <2>1. result.outcome # "cancelled"
    BY <1>10 DEF InsertStored
  <2>2. Row(nextId, blob, op, result).outcome # "cancelled"
    BY <2>1 DEF Row
  <2> QED
    BY <1>10, <1>n, <2>2 DEF InsertStored, CountAnswer, control
<1>11. CASE InsertLost
  BY <1>11, <1>n DEF InsertLost, CountAnswer, control
<1>12. CASE Report
  BY <1>12, <1>n DEF Report, ForgetScan, control, tables
<1>13. CASE Exit
  <2>1. result.outcome # "cancelled"
    BY <1>13, <1>n DEF Exit
  <2> QED
    BY <1>13, <2>1 DEF Exit, tables, scan
<1>14. CASE UNCHANGED vars
  BY <1>14 DEF vars, control, tables, scan
<1> QED
  BY <1>1, <1>2, <1>3, <1>4, <1>5, <1>6, <1>7, <1>8, <1>9, <1>10, <1>11, <1>12,
     <1>13, <1>14 DEF Next, Verify, Environment

\* No row ever records a failure that the prober's own shutdown caused.
THEOREM ShutdownLeavesNoRows == Spec => []NoShutdownRows
<1>1. ShutdownInv => NoShutdownRows
  BY DEF ShutdownInv
<1> QED
  BY <1>1, InitShutdownInv, NextShutdownInv, TypeCorrect, PTL DEF Spec

-----------------------------------------------------------------------------
(* The refinement of WorkQueue.  Query takes the blob, InsertStored records *)
(* the row of one operator, and whatever forgets the scan leaves the blob.  *)

\* Steps that leave the table alone keep the counts.
LEMMA SameRows ==
  ASSUME operatorProbes' = operatorProbes PROVE RowCounts' = RowCounts
  BY DEF RowCounts, RowsOf

\* A blob without rows counts none, and only such a blob is empty.
LEMMA NoRowsIsEmpty ==
  ASSUME NEW b \in Blobs, \A r \in operatorProbes : r.blob # b
  PROVE  Queue!Empty(b)
<1> SUFFICES ASSUME NEW o \in Operators PROVE RowCounts[b][o] = 0
  BY DEF Queue!Empty
<1>1. {r \in RowsOf(b) : r.op = o} = {}
  BY DEF RowsOf
<1>2. Cardinality({r \in RowsOf(b) : r.op = o}) = 0
  BY <1>1, FS_EmptySet
<1> QED
  BY <1>2 DEF RowCounts

LEMMA InitQueue == Init => Queue!Init
<1> SUFFICES ASSUME Init PROVE Queue!Init
  OBVIOUS
<1>1. ASSUME NEW b \in Blobs, NEW o \in Operators PROVE RowCounts[b][o] = 0
  <2>1. Queue!Empty(b)
    BY NoRowsIsEmpty DEF Init
  <2> QED
    BY <2>1 DEF Queue!Empty
<1>2. RowCounts = [b \in Blobs |-> [o \in Operators |-> 0]]
  BY <1>1 DEF RowCounts
<1>3. InHand = {}
  BY DEF Init, InHand
<1> QED
  BY <1>2, <1>3 DEF Queue!Init

\* The row stored is the first of its operator and the only entry that changes.
LEMMA InsertRecords ==
  ASSUME TypeOK, ScanInv, InsertStored PROVE Queue!Record
<1> DEFINE new == Row(nextId, blob, op, result)
           Before(b, o) == {r \in operatorProbes : r.blob = b /\ r.op = o}
           After(b, o) == {r \in operatorProbes' : r.blob = b /\ r.op = o}
<1>1. /\ operatorProbes' = operatorProbes \cup {new}
      /\ pc = "insert" /\ blob' = blob
  BY DEF InsertStored, CountAnswer
<1>2. blob \in Blobs /\ op \in Operators /\ blob \in InHand /\ InHand' = InHand
  BY <1>1 DEF TypeOK, InHand
<1>3. new.blob = blob /\ new.op = op
  BY DEF Row
<1>4. Before(blob, op) = {}
  BY <1>1 DEF ScanInv, RowsArePassed, RowsOf
<1> HIDE DEF new
<1>5. After(blob, op) = {new}
  BY <1>1, <1>3, <1>4
<1>6. ASSUME NEW b \in Blobs, NEW o \in Operators, b # blob \/ o # op
      PROVE  After(b, o) = Before(b, o)
  BY <1>1, <1>3, <1>6
<1>7. Cardinality(Before(blob, op)) = 0 /\ Cardinality(After(blob, op)) = 1
  BY <1>4, <1>5, FS_EmptySet, FS_Singleton
<1>8. RowCounts = [b \in Blobs |-> [o \in Operators |-> Cardinality(Before(b, o))]]
  <2>1. \A b \in Blobs, o \in Operators : {r \in RowsOf(b) : r.op = o} = Before(b, o)
    BY DEF RowsOf
  <2> QED
    BY <2>1 DEF RowCounts
<1>9. RowCounts' = [b \in Blobs |-> [o \in Operators |-> Cardinality(After(b, o))]]
  <2>1. \A b \in Blobs, o \in Operators : {r \in RowsOf(b)' : r.op = o} = After(b, o)
    BY DEF RowsOf
  <2>2. RowCounts' =
          [b \in Blobs |-> [o \in Operators |-> Cardinality({r \in RowsOf(b)' : r.op = o})]]
    BY DEF RowCounts
  <2> QED
    BY <2>1, <2>2
<1> HIDE DEF Before, After
<1>10. RowCounts[blob][op] = 0
  BY <1>2, <1>7, <1>8
<1>11. RowCounts' = [RowCounts EXCEPT ![blob][op] = 1]
  <2> DEFINE f == [RowCounts EXCEPT ![blob][op] = 1]
  <2>1. f = [b \in Blobs |-> IF b = blob THEN [RowCounts[b] EXCEPT ![op] = 1] ELSE RowCounts[b]]
    BY <1>2, <1>8
  <2>2. ASSUME NEW b \in Blobs, NEW o \in Operators PROVE f[b][o] = RowCounts'[b][o]
    <3>1. RowCounts[b] = [x \in Operators |-> Cardinality(Before(b, x))]
      BY <1>8
    <3>2. CASE b = blob /\ o = op
      BY <3>1, <3>2, <2>1, <1>2, <1>7, <1>9
    <3>3. CASE b # blob \/ o # op
      BY <3>1, <3>3, <2>1, <1>2, <1>6, <1>9
    <3> QED
      BY <3>2, <3>3
  <2>3. ASSUME NEW b \in Blobs PROVE f[b] = RowCounts'[b]
    <3>1. RowCounts[b] = [x \in Operators |-> Cardinality(Before(b, x))]
      BY <1>8
    <3>2. f[b] = [o \in Operators |-> f[b][o]]
      BY <3>1, <2>1, <1>2
    <3>3. RowCounts'[b] = [o \in Operators |-> Cardinality(After(b, o))]
      BY <1>9
    <3> HIDE DEF f
    <3> QED
      BY <3>2, <3>3, <2>2
  <2>4. f = [b \in Blobs |-> f[b]]
    BY <2>1
  <2>5. RowCounts' = [b \in Blobs |-> RowCounts'[b]]
    BY <1>9
  <2> HIDE DEF f
  <2>6. RowCounts' = f
    BY <2>3, <2>4, <2>5
  <2> QED
    BY <2>6 DEF f
<1> QED
  BY <1>2, <1>10, <1>11 DEF Queue!Record

LEMMA NextQueue ==
  TypeOK /\ ScanInv /\ [Next]_vars => [Queue!Next]_<<RowCounts, InHand>>
<1> SUFFICES ASSUME TypeOK, ScanInv, [Next]_vars
             PROVE  Queue!Next \/ UNCHANGED <<RowCounts, InHand>>
  OBVIOUS
<1>l. ASSUME ForgetScan, operatorProbes' = operatorProbes PROVE Queue!Next
  <2>1. InHand' = {} /\ RowCounts' = RowCounts
    BY <1>l, SameRows DEF ForgetScan, InHand
  <2> QED
    BY <2>1 DEF Queue!Leave, Queue!Next
<1>u. ASSUME operatorProbes' = operatorProbes, blob' = blob PROVE UNCHANGED <<RowCounts, InHand>>
  BY <1>u, SameRows DEF InHand
<1>1. CASE Query
  <2>1. blob' \in Blobs /\ \A r \in operatorProbes : r.blob # blob'
    BY <1>1 DEF Query, Newest, UnprobedOperatorBlobs, TypeOK
  <2>2. InHand = {} /\ InHand' = {blob'}
    BY <1>1, <2>1, ConstantsAssumption DEF Query, TypeOK, InHand
  <2>3. Queue!Empty(blob')
    BY <2>1, NoRowsIsEmpty
  <2>4. RowCounts' = RowCounts
    BY <1>1, SameRows DEF Query, tables
  <2> QED
    BY <2>1, <2>2, <2>3, <2>4 DEF Queue!Take, Queue!Next
<1>2. CASE InsertStored
  BY <1>2, InsertRecords DEF Queue!Next
<1>3. CASE DiscoverFails \/ Report \/ Crash
  BY <1>3, <1>l DEF DiscoverFails, Report, Crash, tables
<1>4. CASE DiscoverCached \/ DiscoverFetch \/ ProbeChunks \/ InsertLost \/ Exit
  BY <1>4, <1>u DEF DiscoverCached, DiscoverFetch, StartScan, ProbeChunks, InsertLost,
                    CountAnswer, Exit, tables, scan
<1>5. CASE CacheExpires \/ Cancel \/ Restart \/ UNCHANGED vars
  BY <1>5, <1>u DEF CacheExpires, Cancel, Restart, vars, tables, scan
<1>6. ASSUME NEW b \in Blobs, Observe(b) PROVE UNCHANGED <<RowCounts, InHand>>
  BY <1>6, <1>u DEF Observe, scan
<1> QED
  BY <1>1, <1>2, <1>3, <1>4, <1>5, <1>6 DEF Next, Verify, Environment

\* The operator verifier implements WorkQueue: it takes a blob only while that has
\* no row, writes one row per operator while it holds it, and never takes it again.
THEOREM ImplementsWorkQueue == Spec => QueueSpec
<1>1. Spec => [](TypeOK /\ ScanInv)
  BY InitScanInv, NextScanInv, TypeCorrect, PTL DEF Spec
<1>2. Spec => Queue!Init /\ [][Queue!Next]_<<RowCounts, InHand>>
  BY <1>1, InitQueue, NextQueue, PTL DEF Spec
<1> QED
  BY <1>2 DEF QueueSpec, Queue!Spec

-----------------------------------------------------------------------------
(* Sums over finite sets.  Chunks and Shares pick their elements by CHOOSE, *)
(* so every step of an argument about them needs that the order does not   *)
(* matter.  That is an induction over the number of elements; the library  *)
(* has the least element of a set (WFMin) to found it on.                  *)

\* One more element of a sum, or none.
SumStep(f, g, T) ==
  IF T = {} THEN 0 ELSE LET x == CHOOSE x \in T : TRUE IN f[x] + g[T \ {x}]

\* g gives the sum of f over every subset of S.
IsSum(f, g, S) == g = [T \in SUBSET S |-> SumStep(f, g, T)]

\* Induction over the natural numbers, for a set of them.
LEMMA NatInductionOnSet ==
  ASSUME NEW S, 0 \in S, \A n \in Nat : n \in S => n + 1 \in S
  PROVE  Nat \subseteq S
<1> DEFINE T == Nat \ S
           R == {ss \in Nat \X Nat : ss[1] < ss[2]}
<1> SUFFICES ASSUME T # {} PROVE FALSE
  OBVIOUS
<1>1. IsWellFoundedOn(R, Nat)
  BY NatLessThanWellFounded DEF OpToRel
<1>2. PICK x \in T : \A y \in T : ~ (<<y, x>> \in R)
  <2>1. T \subseteq Nat
    OBVIOUS
  <2> HIDE DEF T, R
  <2> QED
    BY <1>1, <2>1, WFMin
<1>3. \A y \in T : ~(y < x)
  BY <1>2
<1>4. x # 0 /\ x - 1 \in Nat
  OBVIOUS
<1>5. x - 1 \notin T
  BY <1>3, <1>4
<1> QED
  BY <1>4, <1>5

\* The same for finite sets.
LEMMA FiniteSetInduction ==
  ASSUME NEW S, IsFiniteSet(S), NEW F, {} \in F,
         \A T \in SUBSET S, x \in S : (T \in F /\ x \notin T) => T \cup {x} \in F
  PROVE  S \in F
<1> DEFINE N == {n \in Nat : \A T \in SUBSET S : Cardinality(T) = n => T \in F}
<1>1. 0 \in N
  BY FS_EmptySet, FS_Subset
<1>2. ASSUME NEW n \in Nat, n \in N PROVE n + 1 \in N
  <2> SUFFICES ASSUME NEW T \in SUBSET S, Cardinality(T) = n + 1 PROVE T \in F
    OBVIOUS
  <2>1. IsFiniteSet(T) /\ T # {}
    BY FS_Subset, FS_EmptySet
  <2>2. PICK x : x \in T
    BY <2>1
  <2>3. Cardinality(T \ {x}) = n
    <3>1. Cardinality(T \ {x}) = Cardinality(T) - 1
      BY <2>1, <2>2, FS_RemoveElement
    <3> QED
      BY <3>1
  <2>4. T \ {x} \in F
    BY <2>3, <1>2
  <2>5. (T \ {x}) \cup {x} \in F
    BY <2>2, <2>4
  <2>6. (T \ {x}) \cup {x} = T
    BY <2>2
  <2> QED
    BY <2>5, <2>6
<1> HIDE DEF N
<1>3. Nat \subseteq N
  BY <1>1, <1>2, NatInductionOnSet
<1>4. Cardinality(S) \in N
  BY <1>3, FS_CardinalityType
<1> QED
  BY <1>4 DEF N

\* There is such a sum: the one over the sets of at most n elements extends to n + 1.
LEMMA SumExists ==
  ASSUME NEW S, IsFiniteSet(S), NEW f, \A x \in S : f[x] \in Nat
  PROVE  \E g \in [SUBSET S -> Nat] : IsSum(f, g, S)
<1> DEFINE Small(n) == {T \in SUBSET S : Cardinality(T) <= n}
           Good(g, n) == \A T \in Small(n) : g[T] = SumStep(f, g, T)
           N == {n \in Nat : \E g \in [Small(n) -> Nat] : Good(g, n)}
<1>f. ASSUME NEW T \in SUBSET S
      PROVE  IsFiniteSet(T) /\ Cardinality(T) \in Nat /\ (Cardinality(T) = 0 <=> T = {})
  BY FS_Subset, FS_EmptySet, FS_CardinalityType
<1>1. 0 \in N
  <2> DEFINE g == [T \in Small(0) |-> 0]
  <2>1. \A T \in Small(0) : T = {}
    BY <1>f
  <2>2. Good(g, 0)
    BY <2>1 DEF SumStep
  <2> QED
    BY <2>2
<1>2. ASSUME NEW n \in Nat, n \in N PROVE n + 1 \in N
  <2>1. PICK g \in [Small(n) -> Nat] : Good(g, n)
    BY <1>2
  <2> DEFINE h == [T \in Small(n + 1) |-> SumStep(f, g, T)]
  <2>2. ASSUME NEW T \in Small(n + 1), T # {}
        PROVE  LET x == CHOOSE x \in T : TRUE
               IN  x \in T /\ T \ {x} \in Small(n) /\ T \ {x} \in Small(n + 1)
    <3> DEFINE x == CHOOSE x \in T : TRUE
    <3>1. x \in T
      BY <2>2
    <3>2. Cardinality(T \ {x}) = Cardinality(T) - 1 /\ T \ {x} \in SUBSET S
      BY <3>1, <1>f, FS_RemoveElement
    <3> HIDE DEF x
    <3>3. T \ {x} \in Small(n) /\ T \ {x} \in Small(n + 1)
      BY <3>2, <1>f
    <3> QED
      BY <3>1, <3>3 DEF x
  <2>3. h \in [Small(n + 1) -> Nat]
    <3> SUFFICES ASSUME NEW T \in Small(n + 1) PROVE SumStep(f, g, T) \in Nat
      OBVIOUS
    <3>1. CASE T = {}
      BY <3>1 DEF SumStep
    <3>2. CASE T # {}
      BY <3>2, <2>2 DEF SumStep
    <3> QED
      BY <3>1, <3>2
  <2>4. \A T \in Small(n) : h[T] = g[T]
    <3>1. Small(n) \subseteq Small(n + 1)
      BY <1>f
    <3> HIDE DEF Small
    <3> QED
      BY <2>1, <3>1
  <2>5. Good(h, n + 1)
    <3> SUFFICES ASSUME NEW T \in Small(n + 1) PROVE SumStep(f, g, T) = SumStep(f, h, T)
      OBVIOUS
    <3>1. CASE T = {}
      BY <3>1 DEF SumStep
    <3>2. CASE T # {}
      <4> HIDE DEF h, Small
      <4> QED
        BY <3>2, <2>2, <2>4 DEF SumStep
    <3> QED
      BY <3>1, <3>2
  <2> HIDE DEF h, Good, Small
  <2> QED
    BY <2>3, <2>5
<1> HIDE DEF N
<1>3. Cardinality(S) \in N
  BY <1>1, <1>2, NatInductionOnSet, <1>f
<1>4. Small(Cardinality(S)) = SUBSET S
  BY FS_Subset
<1>5. PICK g \in [Small(Cardinality(S)) -> Nat] : Good(g, Cardinality(S))
  BY <1>3 DEF N
<1>6. g = [T \in SUBSET S |-> SumStep(f, g, T)]
  <2> HIDE DEF Small
  <2> QED
    BY <1>4, <1>5
<1> QED
  BY <1>4, <1>5, <1>6 DEF IsSum

\* A sum may begin with any element.
LEMMA SumOrder ==
  ASSUME NEW S, IsFiniteSet(S), NEW f, \A x \in S : f[x] \in Nat, NEW g, IsSum(f, g, S)
  PROVE  /\ g[{}] = 0
         /\ \A T \in SUBSET S : g[T] \in Nat /\ \A x \in T : g[T] = f[x] + g[T \ {x}]
<1> DEFINE Good(T) == g[T] \in Nat /\ \A x \in T : g[T] = f[x] + g[T \ {x}]
           N == {n \in Nat : \A T \in SUBSET S : Cardinality(T) <= n => Good(T)}
<1>f. ASSUME NEW T \in SUBSET S
      PROVE  /\ IsFiniteSet(T) /\ Cardinality(T) \in Nat /\ (Cardinality(T) = 0 <=> T = {})
             /\ \A x \in T : Cardinality(T \ {x}) = Cardinality(T) - 1
  BY FS_Subset, FS_EmptySet, FS_CardinalityType, FS_RemoveElement
<1>e. \A T \in SUBSET S : g[T] = SumStep(f, g, T)
  BY DEF IsSum
<1>z. g[{}] = 0
  BY <1>e DEF SumStep
<1>1. 0 \in N
  <2> SUFFICES ASSUME NEW T \in SUBSET S, Cardinality(T) <= 0 PROVE Good(T)
    OBVIOUS
  <2>1. T = {}
    BY <1>f
  <2> QED
    BY <2>1, <1>z
<1>2. ASSUME NEW n \in Nat, n \in N PROVE n + 1 \in N
  <2> SUFFICES ASSUME NEW T \in SUBSET S, Cardinality(T) <= n + 1 PROVE Good(T)
    OBVIOUS
  <2>1. ASSUME NEW U \in SUBSET S, NEW x \in T, U = T \ {x} PROVE Good(U)
    <3>1. Cardinality(U) \in Nat /\ Cardinality(U) = Cardinality(T) - 1 /\ Cardinality(T) \in Nat
      BY <1>f, <2>1
    <3>2. Cardinality(U) <= n
      BY <3>1
    <3> QED
      BY <1>2, <3>2
  <2> DEFINE y == CHOOSE x \in T : TRUE
  <2>2. CASE T = {}
    BY <2>2, <1>z
  <2>3. CASE T # {}
    <3>1. y \in T
      BY <2>3
    <3>2. g[T] = f[y] + g[T \ {y}]
      BY <1>e, <2>3 DEF SumStep
    <3> HIDE DEF y
    <3>3. Good(T \ {y})
      BY <2>1, <3>1
    <3>4. g[T] \in Nat
      BY <3>1, <3>2, <3>3
    <3>5. ASSUME NEW x \in T, x # y PROVE g[T] = f[x] + g[T \ {x}]
      <4>1. g[T \ {y}] = f[x] + g[(T \ {y}) \ {x}]
        BY <3>3, <3>5
      <4>2. Good(T \ {x})
        BY <2>1
      <4>3. g[T \ {x}] = f[y] + g[(T \ {x}) \ {y}]
        BY <3>1, <3>5, <4>2
      <4>4. (T \ {y}) \ {x} = (T \ {x}) \ {y}
        OBVIOUS
      <4>5. f[x] \in Nat /\ f[y] \in Nat /\ g[(T \ {x}) \ {y}] \in Nat
        <5>1. /\ T \in SUBSET S /\ T \ {x} \in SUBSET S /\ y \in T \ {x}
              /\ (T \ {x}) \ {y} \in SUBSET S
          BY <3>1, <3>5
        <5>2. /\ Cardinality(T \ {x}) = Cardinality(T) - 1
              /\ Cardinality((T \ {x}) \ {y}) = Cardinality(T \ {x}) - 1
              /\ Cardinality(T) \in Nat /\ Cardinality((T \ {x}) \ {y}) \in Nat
          BY <1>f, <5>1
        <5>3. Cardinality((T \ {x}) \ {y}) <= n
          BY <5>2
        <5> QED
          BY <1>2, <3>1, <5>1, <5>3
      <4>6. PICK c \in Nat : c = g[(T \ {x}) \ {y}]
        BY <4>5
      <4>7. g[T] = f[y] + (f[x] + c) /\ g[T \ {x}] = f[y] + c
        BY <3>2, <4>1, <4>3, <4>4, <4>6
      <4> QED
        BY <4>5, <4>7
    <3> QED
      BY <3>2, <3>4, <3>5
  <2> QED
    BY <2>2, <2>3
<1> HIDE DEF N
<1>3. ASSUME NEW T \in SUBSET S PROVE Good(T)
  <2>1. Cardinality(T) \in N
    BY <1>1, <1>2, NatInductionOnSet, <1>f
  <2> QED
    BY <2>1, <1>f DEF N
<1> QED
  BY <1>3, <1>z

\* A sum over S does not depend on the set it is a part of.
LEMMA SumAgree ==
  ASSUME NEW S, IsFiniteSet(S), NEW D, S \subseteq D,
         NEW f, NEW g, NEW h, IsSum(f, g, S), IsSum(f, h, D)
  PROVE  g[S] = h[S]
<1> DEFINE N == {n \in Nat : \A T \in SUBSET S : Cardinality(T) = n => g[T] = h[T]}
<1>f. ASSUME NEW T \in SUBSET S
      PROVE  /\ IsFiniteSet(T) /\ Cardinality(T) \in Nat /\ (Cardinality(T) = 0 <=> T = {})
             /\ \A x \in T : Cardinality(T \ {x}) = Cardinality(T) - 1
  BY FS_Subset, FS_EmptySet, FS_CardinalityType, FS_RemoveElement
<1>e. \A T \in SUBSET S : g[T] = SumStep(f, g, T) /\ h[T] = SumStep(f, h, T)
  BY DEF IsSum
<1>1. 0 \in N
  BY <1>f, <1>e DEF SumStep
<1>2. ASSUME NEW n \in Nat, n \in N PROVE n + 1 \in N
  <2> SUFFICES ASSUME NEW T \in SUBSET S, Cardinality(T) = n + 1 PROVE g[T] = h[T]
    OBVIOUS
  <2> DEFINE x == CHOOSE x \in T : TRUE
  <2>1. T # {}
    BY <1>f
  <2>2. x \in T
    BY <2>1
  <2>3. g[T] = f[x] + g[T \ {x}] /\ h[T] = f[x] + h[T \ {x}]
    BY <1>e, <2>1 DEF SumStep
  <2> HIDE DEF x
  <2>4. Cardinality(T \ {x}) = n
    BY <1>f, <2>2
  <2>5. g[T \ {x}] = h[T \ {x}]
    BY <1>2, <2>4
  <2> QED
    BY <2>3, <2>5
<1> HIDE DEF N
<1>3. Cardinality(S) \in N
  BY <1>1, <1>2, NatInductionOnSet, <1>f
<1> QED
  BY <1>3 DEF N

\* What the sum of the community modules unfolds to.
LEMMA ChunksUnfold ==
  ASSUME NEW S, IsFiniteSet(S), NEW f, \A r \in S : f[r] = r.chunks /\ f[r] \in Nat
  PROVE  \E g : IsSum(f, g, S) /\ Chunks(S) = g[S]
<1> DEFINE Body(h) == [T \in SUBSET S |->
             IF T = {} THEN 0
             ELSE (CHOOSE x \in T : TRUE).chunks + h[T \ {CHOOSE x \in T : TRUE}]]
           g == CHOOSE h : h = Body(h)
<1>1. Chunks(S) = g[S]
  BY Zenon DEF Chunks, MapThenSumSet, MapThenFoldSet
<1>2. ASSUME NEW h PROVE Body(h) = [T \in SUBSET S |-> SumStep(f, h, T)]
  <2> SUFFICES ASSUME NEW T \in SUBSET S PROVE Body(h)[T] = SumStep(f, h, T)
    OBVIOUS
  <2>1. CASE T = {}
    BY <2>1 DEF SumStep
  <2>2. CASE T # {}
    BY <2>2 DEF SumStep
  <2> QED
    BY <2>1, <2>2
<1>3. \E h : IsSum(f, h, S)
  BY SumExists
<1>4. \A h : h = Body(h) <=> IsSum(f, h, S)
  <2> HIDE DEF Body
  <2> QED
    BY <1>2 DEF IsSum
<1>5. g = Body(g)
  <2> HIDE DEF Body
  <2> QED
    BY <1>3, <1>4
<1> HIDE DEF g
<1> QED
  BY <1>1, <1>4, <1>5

LEMMA SharesUnfold ==
  ASSUME NEW S, IsFiniteSet(S), \A o \in S : Share[o] \in Nat
  PROVE  \E g : IsSum(Share, g, S) /\ Shares(S) = g[S]
<1> DEFINE Body(h) == [T \in SUBSET S |-> SumStep(Share, h, T)]
           g == CHOOSE h : h = Body(h)
<1>1. Shares(S) = g[S]
  BY Zenon DEF Shares, MapThenSumSet, MapThenFoldSet, SumStep
<1>2. \E h : IsSum(Share, h, S)
  BY SumExists
<1>3. \A h : h = Body(h) <=> IsSum(Share, h, S)
  BY DEF IsSum
<1>4. g = Body(g)
  <2> HIDE DEF Body
  <2> QED
    BY <1>2, <1>3
<1> HIDE DEF g
<1> QED
  BY <1>1, <1>3, <1>4

LEMMA NatSums ==
  \A m, n \in Nat : m + n \in Nat /\ m + n = n + m /\ m <= m + n
  OBVIOUS

\* One more element adds its value.
LEMMA SumAdd ==
  ASSUME NEW S, IsFiniteSet(S), NEW x, x \notin S, NEW f, \A y \in S \cup {x} : f[y] \in Nat,
         NEW g, NEW h, IsSum(f, g, S), IsSum(f, h, S \cup {x})
  PROVE  g[S] \in Nat /\ h[S \cup {x}] = g[S] + f[x]
<1> DEFINE D == S \cup {x}
<1>1. IsFiniteSet(D) /\ S \subseteq D /\ x \in D /\ D \ {x} = S /\ IsSum(f, h, D)
  BY FS_AddElement
<1>2. \A y \in D : f[y] \in Nat
  OBVIOUS
<1>3. h[D] = g[S] + f[x] /\ g[S] \in Nat
  <2> HIDE DEF D
  <2>1. g[S] = h[S]
    BY <1>1, SumAgree
  <2>2. \A T \in SUBSET D : h[T] \in Nat /\ \A y \in T : h[T] = f[y] + h[T \ {y}]
    BY <1>1, <1>2, SumOrder
  <2>3. h[D] = f[x] + h[D \ {x}] /\ h[S] \in Nat
    BY <1>1, <2>2
  <2>4. f[x] \in Nat
    BY <1>1, <1>2
  <2>5. h[D \ {x}] = h[S]
    BY <1>1
  <2>6. PICK m, n \in Nat : m = f[x] /\ n = h[S]
    BY <2>3, <2>4
  <2>7. h[D] = m + n
    BY <2>3, <2>5, <2>6
  <2>8. g[S] + f[x] = n + m
    BY <2>1, <2>6
  <2> QED
    BY <2>1, <2>3, <2>6, <2>7, <2>8
<1> QED
  BY <1>3

\* One more row adds its chunks.
LEMMA ChunksAdd ==
  ASSUME NEW S, IsFiniteSet(S), NEW x, x \notin S,
         \A r \in S \cup {x} : r.chunks \in Nat
  PROVE  Chunks(S) \in Nat /\ Chunks(S \cup {x}) = Chunks(S) + x.chunks
<1> DEFINE f == [r \in S \cup {x} |-> r.chunks]
<1>1. /\ \A r \in S \cup {x} : f[r] = r.chunks /\ f[r] \in Nat
      /\ IsFiniteSet(S \cup {x}) /\ f[x] = x.chunks
  BY FS_AddElement
<1> HIDE DEF f
<1>2. PICK g : IsSum(f, g, S) /\ Chunks(S) = g[S]
  BY <1>1, ChunksUnfold
<1>3. PICK h : IsSum(f, h, S \cup {x}) /\ Chunks(S \cup {x}) = h[S \cup {x}]
  BY <1>1, ChunksUnfold
<1>4. g[S] \in Nat /\ h[S \cup {x}] = g[S] + f[x]
  BY <1>1, <1>2, <1>3, SumAdd
<1> QED
  BY <1>1, <1>2, <1>3, <1>4

\* One more operator adds its share.
LEMMA SharesAdd ==
  ASSUME NEW S, IsFiniteSet(S), NEW x, x \notin S,
         \A o \in S \cup {x} : Share[o] \in Nat
  PROVE  Shares(S) \in Nat /\ Shares(S \cup {x}) = Shares(S) + Share[x]
<1>1. IsFiniteSet(S \cup {x})
  BY FS_AddElement
<1>2. PICK g : IsSum(Share, g, S) /\ Shares(S) = g[S]
  BY SharesUnfold
<1>3. PICK h : IsSum(Share, h, S \cup {x}) /\ Shares(S \cup {x}) = h[S \cup {x}]
  BY <1>1, SharesUnfold
<1>4. g[S] \in Nat /\ h[S \cup {x}] = g[S] + Share[x]
  BY <1>2, <1>3, SumAdd
<1> QED
  BY <1>2, <1>3, <1>4

\* No rows, no chunks; no operators, no shares.
LEMMA NothingSums == Chunks({}) = 0 /\ Shares({}) = 0
<1>1. PICK g : IsSum([r \in {} |-> 0], g, {}) /\ Chunks({}) = g[{}]
  BY FS_EmptySet, ChunksUnfold
<1>2. PICK h : IsSum(Share, h, {}) /\ Shares({}) = h[{}]
  BY FS_EmptySet, SharesUnfold
<1>3. g[{}] = 0 /\ h[{}] = 0
  BY <1>1, <1>2 DEF IsSum, SumStep
<1> QED
  BY <1>1, <1>2, <1>3

\* More rows do not have fewer chunks.
LEMMA ChunksMonotone ==
  ASSUME NEW B, IsFiniteSet(B), NEW A, A \subseteq B, \A r \in B : r.chunks \in Nat
  PROVE  Chunks(A) \in Nat /\ Chunks(B) \in Nat /\ Chunks(A) <= Chunks(B)
<1> DEFINE F == {T \in SUBSET (B \ A) : Chunks(A \cup T) \in Nat /\ Chunks(A) <= Chunks(A \cup T)}
<1>1. IsFiniteSet(A) /\ IsFiniteSet(B \ A)
  BY FS_Subset
<1>2. Chunks(A) \in Nat
  <2>2. CASE A = {}
    BY <2>2, NothingSums
  <2>3. CASE A # {}
    <3>1. PICK r : r \in A
      BY <2>3
    <3>2. IsFiniteSet(A \ {r}) /\ r \notin A \ {r} /\ (A \ {r}) \cup {r} = A
      BY <1>1, <3>1, FS_RemoveElement
    <3>3. Chunks(A \ {r}) \in Nat /\ Chunks((A \ {r}) \cup {r}) = Chunks(A \ {r}) + r.chunks
      BY <3>1, <3>2, ChunksAdd
    <3> QED
      BY <3>1, <3>2, <3>3, NatSums
  <2> QED
    BY <2>2, <2>3
<1>3. {} \in F
  <2>1. A \cup {} = A
    OBVIOUS
  <2> QED
    BY <1>2, <2>1
<1>4. ASSUME NEW T \in SUBSET (B \ A), NEW x \in B \ A, T \in F, x \notin T
      PROVE  T \cup {x} \in F
  <2>1. IsFiniteSet(A \cup T) /\ x \notin A \cup T /\ A \cup T \cup {x} \subseteq B
    BY <1>4, FS_Subset
  <2>2. Chunks((A \cup T) \cup {x}) = Chunks(A \cup T) + x.chunks
    BY <2>1, ChunksAdd
  <2>3. (A \cup T) \cup {x} = A \cup (T \cup {x})
    OBVIOUS
  <2>4. x.chunks \in Nat /\ Chunks(A \cup T) \in Nat /\ Chunks(A) <= Chunks(A \cup T)
    BY <1>4
  <2>5. Chunks(A \cup (T \cup {x})) \in Nat /\ Chunks(A) <= Chunks(A \cup (T \cup {x}))
    <3>1. PICK m, n, k \in Nat : m = Chunks(A) /\ n = Chunks(A \cup T) /\ k = x.chunks
      BY <1>2, <2>4
    <3>2. Chunks(A \cup (T \cup {x})) = n + k /\ m <= n
      BY <2>2, <2>3, <2>4, <3>1
    <3> QED
      BY <3>1, <3>2
  <2> QED
    BY <2>5, <1>4
<1> HIDE DEF F
<1>5. B \ A \in F
  BY <1>1, <1>3, <1>4, FiniteSetInduction
<1>6. A \cup (B \ A) = B
  OBVIOUS
<1> QED
  BY <1>2, <1>5, <1>6 DEF F

\* The sums over finite sets are natural numbers.
LEMMA SharesTyped ==
  ASSUME NEW S \in SUBSET Operators PROVE Shares(S) \in Nat
<1>1. IsFiniteSet(S) /\ \A o \in S : Share[o] \in Nat
  BY FS_Subset, ConstantsAssumption
<1>2. PICK g : IsSum(Share, g, S) /\ Shares(S) = g[S]
  BY <1>1, SharesUnfold
<1>3. g[S] \in Nat
  BY <1>1, <1>2, SumOrder
<1> QED
  BY <1>2, <1>3

-----------------------------------------------------------------------------
(* What the dashboard shows and what a scan counts.                        *)

\* The table never has infinitely many rows, so that they have a sum.
FiniteRows == IsFiniteSet(operatorProbes)

LEMMA NextFiniteRows == FiniteRows /\ [Next]_vars => FiniteRows'
<1> SUFFICES ASSUME FiniteRows, [Next]_vars PROVE FiniteRows'
  OBVIOUS
<1>1. CASE InsertStored
  <2>1. operatorProbes' = operatorProbes \cup {Row(nextId, blob, op, result)}
    BY <1>1 DEF InsertStored
  <2> QED
    BY <2>1, FS_AddElement DEF FiniteRows
<1>2. ASSUME NEW b \in Blobs, Observe(b) PROVE operatorProbes' = operatorProbes
  BY <1>2 DEF Observe
<1>3. CASE CacheExpires \/ Cancel \/ Crash \/ Restart \/ UNCHANGED vars
  BY <1>3 DEF CacheExpires, Cancel, Crash, Restart, vars, tables, FiniteRows
<1>4. CASE Query \/ DiscoverCached \/ DiscoverFetch \/ DiscoverFails
  BY <1>4 DEF Query, DiscoverCached, DiscoverFetch, DiscoverFails, StartScan, tables, FiniteRows
<1>5. CASE ProbeChunks \/ InsertLost \/ Report \/ Exit
  BY <1>5 DEF ProbeChunks, InsertLost, Report, Exit, tables, FiniteRows
<1> QED
  BY <1>1, <1>2, <1>3, <1>4, <1>5 DEF Next, Verify, Environment, FiniteRows

LEMMA AlwaysFiniteRows == Spec => []FiniteRows
<1>1. Init => FiniteRows
  BY FS_EmptySet DEF Init, FiniteRows
<1> QED
  BY <1>1, NextFiniteRows, PTL DEF Spec

\* Honest rows of different operators have no more chunks than these operators hold.
LEMMA RowsWithinShares ==
  ASSUME NEW R, IsFiniteSet(R),
         \A r \in R : r.op \in Operators /\ r.chunks \in Nat /\ r.chunks <= Share[r.op],
         \A q, r \in R : q.op = r.op => q = r
  PROVE  Chunks(R) <= Shares({r.op : r \in R})
<1> DEFINE Ops(T) == {r.op : r \in T}
           F == {T \in SUBSET R : /\ Chunks(T) \in Nat /\ Shares(Ops(T)) \in Nat
                                  /\ Chunks(T) <= Shares(Ops(T))}
<1>1. {} \in F
  <2>1. Ops({}) = {}
    OBVIOUS
  <2> QED
    BY <2>1, NothingSums
<1>2. ASSUME NEW T \in SUBSET R, NEW x \in R, T \in F, x \notin T PROVE T \cup {x} \in F
  <2>1. Ops(T \cup {x}) = Ops(T) \cup {x.op} /\ x.op \notin Ops(T) /\ Ops(T) \subseteq Operators
    BY <1>2
  <2>2. IsFiniteSet(T) /\ \A r \in T \cup {x} : r.chunks \in Nat
    BY <1>2, FS_Subset
  <2>3. Chunks(T \cup {x}) = Chunks(T) + x.chunks
    BY <1>2, <2>2, ChunksAdd
  <2>4. Shares(Ops(T \cup {x})) = Shares(Ops(T)) + Share[x.op]
    <3>1. IsFiniteSet(Ops(T))
      BY <2>1, FS_Subset, ConstantsAssumption
    <3>2. \A o \in Ops(T) \cup {x.op} : Share[o] \in Nat
      BY <2>1, ConstantsAssumption
    <3> HIDE DEF Ops
    <3> QED
      BY <2>1, <3>1, <3>2, SharesAdd
  <2>5. PICK m, n, k, s \in Nat :
          m = Chunks(T) /\ n = Shares(Ops(T)) /\ k = x.chunks /\ s = Share[x.op]
    BY <1>2, ConstantsAssumption
  <2>6. k <= s /\ m <= n
    <3> HIDE DEF Ops
    <3> QED
      BY <1>2, <2>5
  <2>7. m + k <= n + s /\ m + k \in Nat /\ n + s \in Nat
    BY <2>6
  <2> HIDE DEF Ops
  <2> QED
    BY <1>2, <2>3, <2>4, <2>5, <2>7
<1> HIDE DEF F
<1>3. R \in F
  BY <1>1, <1>2, FiniteSetInduction
<1> QED
  BY <1>3 DEF F

\* What the dashboard shows for a blob is no more than the operators that answered hold,
\* if their answers said no more: no operator is counted twice.
THEOREM ShownChunksExist == Spec => []NeverOverstated
<1>1. TypeOK /\ ScanInv /\ FiniteRows => NeverOverstated
  <2> SUFFICES ASSUME TypeOK, ScanInv, FiniteRows, NEW b \in Blobs,
                      \A r \in OkRows(b) : r.chunks <= Share[r.op]
               PROVE  DbChunks(b) <= Shares(Answered(b))
    BY DEF NeverOverstated
  <2>1. OkRows(b) \subseteq operatorProbes /\ IsFiniteSet(OkRows(b))
    BY FS_Subset DEF OkRows, RowsOf, FiniteRows
  <2>2. \A r \in OkRows(b) : r.op \in Operators /\ r.chunks \in Nat
    BY <2>1 DEF TypeOK, Rows
  <2>3. \A q, r \in OkRows(b) : q.op = r.op => q = r
    BY DEF OkRows, RowsOf, ScanInv, OneRowPerOperator
  <2> QED
    BY <2>1, <2>2, <2>3, RowsWithinShares DEF DbChunks, Answered
<1> QED
  BY <1>1, InitScanInv, NextScanInv, AlwaysFiniteRows, TypeCorrect, PTL DEF Spec

-----------------------------------------------------------------------------
(* The verdict.  The counter of the loop is never below what the table has *)
(* for the blob, and equal to it while no row of the scan was lost.        *)

Passed == {o \in ops \ todo : o # op}

CounterInv ==
  /\ pc = "insert" => op \in ops
  /\ pc \in {"probe", "insert"} =>
       /\ DbChunks(blob) <= totalChunks
       /\ (\A o \in Passed : HasRow(blob, o)) => DbChunks(blob) = totalChunks

\* The sum of the table is a natural number.
LEMMA DbChunksTyped ==
  ASSUME TypeOK, FiniteRows, NEW b PROVE DbChunks(b) \in Nat
<1>1. /\ OkRows(b) \subseteq operatorProbes /\ IsFiniteSet(OkRows(b))
  BY FS_Subset DEF OkRows, RowsOf, FiniteRows
<1>2. \A r \in OkRows(b) : r.chunks \in Nat
  BY <1>1 DEF TypeOK, Rows
<1>3. Chunks(OkRows(b)) \in Nat
  BY <1>1, <1>2, ChunksMonotone
<1> QED
  BY <1>3 DEF DbChunks, OkRows

\* It depends on the table only.
LEMMA SameDbChunks ==
  ASSUME operatorProbes' = operatorProbes, blob' = blob
  PROVE  /\ DbChunks(blob)' = DbChunks(blob)
         /\ \A o : HasRow(blob, o)' <=> HasRow(blob, o)
  BY DEF DbChunks, OkRows, HasRow, RowsOf

\* A blob without rows counts nothing.
LEMMA NoDbChunks ==
  ASSUME \A r \in operatorProbes : r.blob # blob PROVE DbChunks(blob) = 0
<1>1. OkRows(blob) = {}
  BY DEF OkRows, RowsOf
<1>2. DbChunks(blob) = Chunks({})
  BY <1>1 DEF DbChunks
<1> QED
  BY <1>2, NothingSums

\* A row stored counts in both.
LEMMA InsertKeepsCounterInv ==
  ASSUME TypeOK, ScanInv, FiniteRows, CounterInv, InsertStored PROVE CounterInv'
<1> DEFINE new == Row(nextId, blob, op, result)
           gain == IF result.outcome = "ok" THEN result.chunks ELSE 0
<1>1. /\ operatorProbes' = operatorProbes \cup {new}
      /\ pc = "insert" /\ pc' = "probe" /\ blob' = blob /\ ops' = ops /\ todo' = todo
      /\ op' = NoOperator /\ totalChunks' = totalChunks + gain
  BY DEF InsertStored, CountAnswer
<1>2. /\ new.blob = blob /\ new.op = op /\ new.outcome = result.outcome
      /\ new.chunks = result.chunks
  BY DEF Row
<1>3. gain \in Nat /\ result.chunks \in Nat /\ totalChunks \in Nat
  BY DEF TypeOK, Results
<1>4. new \notin OkRows(blob)
  BY <1>2 DEF OkRows, RowsOf, ScanInv, RowsArePassed
<1> HIDE DEF new
<1>5. IsFiniteSet(OkRows(blob)) /\ \A r \in OkRows(blob) \cup {new} : r.chunks \in Nat
  <2>1. IsFiniteSet(OkRows(blob))
    BY FS_Subset DEF OkRows, RowsOf, FiniteRows
  <2> QED
    BY <2>1, <1>2, <1>3 DEF OkRows, RowsOf, TypeOK, Rows
<1>6. DbChunks(blob)' = DbChunks(blob) + gain /\ DbChunks(blob) \in Nat
  <2>0. DbChunks(blob) \in Nat /\ DbChunks(blob) = Chunks(OkRows(blob))
    BY DbChunksTyped DEF DbChunks, OkRows
  <2>1. CASE result.outcome = "ok"
    <3>1. OkRows(blob)' = OkRows(blob) \cup {new}
      BY <1>1, <1>2, <2>1 DEF OkRows, RowsOf
    <3>2. DbChunks(blob)' = Chunks(OkRows(blob) \cup {new})
      BY <3>1 DEF DbChunks, OkRows
    <3>3. Chunks(OkRows(blob) \cup {new}) = Chunks(OkRows(blob)) + new.chunks
      BY <1>4, <1>5, ChunksAdd
    <3> QED
      BY <2>0, <2>1, <3>2, <3>3, <1>2
  <2>2. CASE result.outcome # "ok"
    <3>1. OkRows(blob)' = OkRows(blob)
      BY <1>1, <1>2, <2>2 DEF OkRows, RowsOf
    <3>2. DbChunks(blob)' = Chunks(OkRows(blob))
      BY <3>1 DEF DbChunks, OkRows
    <3> QED
      BY <2>0, <2>2, <3>2
  <2> QED
    BY <2>1, <2>2
<1>7. DbChunks(blob) <= totalChunks
  BY <1>1 DEF CounterInv
<1>8. ASSUME \A o \in Passed' : HasRow(blob, o)' PROVE DbChunks(blob) = totalChunks
  <2>1. \A o \in Passed : o \in Passed' /\ o # op
    BY <1>1, ConstantsAssumption DEF Passed, TypeOK
  <2>2. \A o \in Passed : HasRow(blob, o)
    <3> SUFFICES ASSUME NEW o \in Passed PROVE HasRow(blob, o)
      OBVIOUS
    <3>1. PICK r \in operatorProbes \cup {new} : r.blob = blob /\ r.op = o
      BY <1>1, <1>8, <2>1 DEF HasRow, RowsOf
    <3>2. r \in operatorProbes
      BY <1>2, <2>1, <3>1
    <3> QED
      BY <3>1, <3>2 DEF HasRow, RowsOf
  <2> QED
    BY <1>1, <2>2 DEF CounterInv
<1> HIDE DEF gain
<1>9. DbChunks(blob)' <= totalChunks'
  BY <1>1, <1>3, <1>6, <1>7
<1>10. (\A o \in Passed' : HasRow(blob, o)') => DbChunks(blob)' = totalChunks'
  BY <1>1, <1>6, <1>8
<1> QED
  BY <1>1, <1>9, <1>10 DEF CounterInv

\* A row lost counts in the loop only, and its operator has no row.
LEMMA LostKeepsCounterInv ==
  ASSUME TypeOK, ScanInv, FiniteRows, CounterInv, InsertLost PROVE CounterInv'
<1>1. /\ operatorProbes' = operatorProbes /\ pc = "insert" /\ pc' = "probe" /\ blob' = blob
      /\ ops' = ops /\ todo' = todo /\ op' = NoOperator
      /\ totalChunks' = totalChunks + (IF result.outcome = "ok" THEN result.chunks ELSE 0)
  BY DEF InsertLost, CountAnswer
<1>2. DbChunks(blob)' = DbChunks(blob) /\ \A o : HasRow(blob, o)' <=> HasRow(blob, o)
  BY <1>1, SameDbChunks
<1>3. op \in Passed' /\ ~HasRow(blob, op)
  <2>1. op \in ops \ todo /\ op # NoOperator
    BY <1>1, ConstantsAssumption DEF CounterInv, ScanInv, TypeOK
  <2>2. ~HasRow(blob, op)
    BY DEF HasRow, RowsOf, ScanInv, RowsArePassed
  <2> QED
    BY <1>1, <2>1, <2>2 DEF Passed
<1>4. ~ \A o \in Passed' : HasRow(blob, o)'
  BY <1>2, <1>3
<1>5. DbChunks(blob) <= totalChunks' /\ DbChunks(blob) \in Nat
  <2>1. DbChunks(blob) \in Nat /\ DbChunks(blob) <= totalChunks
    BY <1>1, DbChunksTyped DEF CounterInv
  <2> QED
    BY <1>1, <2>1 DEF TypeOK, Results
<1> QED
  BY <1>1, <1>2, <1>4, <1>5 DEF CounterInv

LEMMA NextCounterInv ==
  TypeOK /\ ScanInv /\ FiniteRows /\ CounterInv /\ [Next]_vars => CounterInv'
<1> SUFFICES ASSUME TypeOK, ScanInv, FiniteRows, CounterInv, [Next]_vars PROVE CounterInv'
  OBVIOUS
<1>s. ASSUME operatorProbes' = operatorProbes, UNCHANGED <<pc, scan>> PROVE CounterInv'
  BY <1>s, SameDbChunks DEF CounterInv, Passed, scan
<1>o. ASSUME pc' \notin {"probe", "insert"} PROVE CounterInv'
  BY <1>o DEF CounterInv
<1>1. ASSUME NEW b \in Blobs, Observe(b) PROVE CounterInv'
  BY <1>1, <1>s DEF Observe
<1>2. CASE CacheExpires \/ Cancel \/ Restart \/ Exit \/ UNCHANGED vars
  BY <1>2, <1>s DEF CacheExpires, Cancel, Restart, Exit, vars, tables
<1>3. CASE Crash \/ DiscoverFails \/ Report \/ Query
  BY <1>3, <1>o DEF Crash, DiscoverFails, Report, Query, ForgetScan
<1>4. CASE DiscoverCached \/ DiscoverFetch
  <2>1. /\ pc = "discover" /\ pc' = "probe" /\ totalChunks' = 0 /\ ops' = todo'
        /\ operatorProbes' = operatorProbes /\ blob' = blob
    BY <1>4 DEF DiscoverCached, DiscoverFetch, StartScan, tables
  <2>2. DbChunks(blob) = 0
    BY <2>1, NoDbChunks DEF ScanInv, RowsArePassed
  <2>3. DbChunks(blob)' = 0
    BY <2>1, <2>2, SameDbChunks
  <2> QED
    BY <2>1, <2>3 DEF CounterInv
<1>5. CASE ProbeChunks
  <2>1. PICK o \in todo : op' = o /\ todo' = todo \ {o}
    BY <1>5 DEF ProbeChunks
  <2>2. /\ pc = "probe" /\ pc' = "insert" /\ operatorProbes' = operatorProbes
        /\ blob' = blob /\ ops' = ops /\ totalChunks' = totalChunks
    BY <1>5 DEF ProbeChunks, tables
  <2>3. Passed' = Passed /\ op' \in ops'
    BY <2>1, <2>2, ConstantsAssumption DEF Passed, TypeOK
  <2> QED
    BY <2>2, <2>3, SameDbChunks DEF CounterInv
<1>6. CASE InsertStored
  BY <1>6, InsertKeepsCounterInv
<1>7. CASE InsertLost
  BY <1>7, LostKeepsCounterInv
<1> QED
  BY <1>1, <1>2, <1>3, <1>4, <1>5, <1>6, <1>7 DEF Next, Verify, Environment

LEMMA AlwaysCounterInv == Spec => [](TypeOK /\ ScanInv /\ FiniteRows /\ CounterInv)
<1>1. Init => CounterInv
  BY DEF Init, CounterInv
<1> QED
  BY <1>1, NextCounterInv, InitScanInv, NextScanInv, AlwaysFiniteRows, TypeCorrect, PTL DEF Spec

\* The verdict logged at the end of a scan is the one the rows give, when none of
\* them was lost; AT_RISK is never logged for a blob that they show as recoverable.
THEOREM VerdictIsTheTables == Spec => VerdictMatchesTable
<1>1. TypeOK /\ ScanInv /\ FiniteRows /\ CounterInv /\ [Next]_vars =>
        [Report =>
           /\ logged'[blob] = "AT_RISK" => ~Recoverable(blob)
           /\ (\A o \in ops : HasRow(blob, o))
                => (logged'[blob] = "RECOVERABLE" <=> Recoverable(blob))]_vars
  <2> SUFFICES ASSUME TypeOK, ScanInv, FiniteRows, CounterInv, Report
               PROVE  /\ logged'[blob] = "AT_RISK" => ~Recoverable(blob)
                      /\ (\A o \in ops : HasRow(blob, o))
                           => (logged'[blob] = "RECOVERABLE" <=> Recoverable(blob))
    OBVIOUS
  <2>1. /\ pc = "probe" /\ todo = {} /\ blob \in Blobs
        /\ logged'[blob] = Tag(totalChunks)
    BY ConstantsAssumption DEF Report, TypeOK
  <2>2. totalChunks \in Nat /\ DbChunks(blob) \in Nat /\ MinChunks \in Nat
    BY DbChunksTyped, ConstantsAssumption DEF TypeOK
  <2>3. DbChunks(blob) <= totalChunks
    BY <2>1 DEF CounterInv
  <2>4. (\A o \in ops : HasRow(blob, o)) => DbChunks(blob) = totalChunks
    BY <2>1 DEF CounterInv, Passed
  <2> QED
    BY <2>1, <2>2, <2>3, <2>4 DEF Tag, Recoverable
<1> QED
  BY <1>1, AlwaysCounterInv, PTL DEF Spec, VerdictMatchesTable

=============================================================================
