--------------------------- MODULE CollectorProofs ---------------------------
(***************************************************************************)
(* What holds of the collector for every set of blobs, every order of      *)
(* their times, every page limit and every number of restarts.             *)
(***************************************************************************)
EXTENDS Collector, TLAPS

-----------------------------------------------------------------------------
(* Types.                                                                  *)

LEMMA InitTyped == Init => TypeOK
  BY CollectorAssumption DEF Init, TypeOK

LEMMA WatermarkTyped == TypeOK => Watermark \in Nat
  BY DEF TypeOK, Watermark

LEMMA NextTyped == TypeOK /\ [Next]_vars => TypeOK'
<1> SUFFICES ASSUME TypeOK, [Next]_vars PROVE TypeOK'
  OBVIOUS
<1> USE CollectorAssumption DEF TypeOK
<1>1. ASSUME NEW b \in Blobs, Publish(b) PROVE TypeOK'
  BY <1>1 DEF Publish, control, local
<1>2. CASE Cancel
  BY <1>2 DEF Cancel, local, history
<1>3. CASE Crash
  BY <1>3 DEF Crash, Forget
<1>4. CASE Restart
  BY <1>4 DEF Restart, local, history
<1>5. CASE Poll
  BY <1>5 DEF Poll, control, history
<1>6. CASE Fetch
  <2>1. PICK S \in SUBSET published :
          /\ page' = S
          /\ newest' \in {RequestedAt[b] : b \in Newest(S)}
          /\ offPage' = offPage \cup (published \ (observed \cup S))
    BY <1>6 DEF Fetch
  <2>2. newest' \in Nat
    BY <2>1 DEF Newest
  <2> QED
    BY <1>6, <2>1, <2>2 DEF Fetch, control
<1>7. CASE FetchFails
  BY <1>7 DEF FetchFails, control, history
<1>8. CASE FinishPage
  BY <1>8, WatermarkTyped DEF FinishPage, control, history
<1>9. ASSUME NEW b \in Blobs, UpsertStored(b) PROVE TypeOK'
  BY <1>9 DEF UpsertStored, Visit, Newest, control
<1>10. ASSUME NEW b \in Blobs, UpsertFails(b) PROVE TypeOK'
  BY <1>10 DEF UpsertFails, Visit, Newest, control
<1>11. CASE Exit
  BY <1>11 DEF Exit, Forget
<1>12. CASE UNCHANGED vars
  BY <1>12 DEF vars, control, local, history
<1> QED
  BY <1>1, <1>2, <1>3, <1>4, <1>5, <1>6, <1>7, <1>8, <1>9, <1>10, <1>11, <1>12
  DEF Next, Collect, Environment

\* Types: every variable keeps to its set in every reachable state.
THEOREM TypeCorrect == Spec => []TypeOK
  BY InitTyped, NextTyped, PTL DEF Spec

-----------------------------------------------------------------------------
(* Losses.  OnlyKnownLosses is inductive relative to TypeOK.               *)

LEMMA InitLosses == Init => OnlyKnownLosses
  BY DEF Init, OnlyKnownLosses, Missing

\* A loop that has ended has no blob left on its page that it could still insert.
LEMMA EndedLoop ==
  ASSUME TypeOK, PageDone, NEW b \in page PROVE RequestedAt[b] <= lastSeen
  BY CollectorAssumption DEF TypeOK, PageDone, Newest

LEMMA NextLosses == TypeOK /\ OnlyKnownLosses /\ [Next]_vars => OnlyKnownLosses'
<1> SUFFICES ASSUME TypeOK, OnlyKnownLosses, [Next]_vars PROVE OnlyKnownLosses'
  OBVIOUS
<1> USE CollectorAssumption DEF OnlyKnownLosses, Missing
<1>1. ASSUME NEW b \in Blobs, Publish(b) PROVE OnlyKnownLosses'
  \* A blob that is not behind the watermark is above both the old and the coming one.
  <2>1. b \in late' \/ (RequestedAt[b] > lastSeen /\ (pc = "page" => RequestedAt[b] > newest))
    BY <1>1 DEF Publish, Watermark, TypeOK
  <2> QED
    BY <1>1, <2>1 DEF Publish, local
<1>2. CASE Cancel
  BY <1>2 DEF Cancel, local, history
<1>3. ASSUME Forget, published' = published, observed' = observed PROVE OnlyKnownLosses'
  BY <1>3 DEF Forget, TypeOK
<1>4. CASE Crash
  BY <1>3, <1>4 DEF Crash
<1>5. CASE Restart
  BY <1>5 DEF Restart, local, history
<1>6. CASE Poll
  BY <1>6 DEF Poll, history
<1>7. CASE Fetch
  BY <1>7 DEF Fetch
<1>8. CASE FetchFails
  BY <1>8 DEF FetchFails, history
<1>9. CASE FinishPage
  \* What is missing and not excused is newer than the watermark and than the page.
  <2>1. \A b \in Missing \ (dropped \cup late \cup offPage) : RequestedAt[b] > Watermark
    <3> SUFFICES ASSUME NEW b \in Missing \ (dropped \cup late \cup offPage)
                 PROVE  RequestedAt[b] > Watermark
      OBVIOUS
    <3>1. RequestedAt[b] \in Nat /\ lastSeen \in Nat /\ newest \in Nat
      BY DEF TypeOK
    <3>2. b \notin page
      BY <1>9, <3>1, EndedLoop DEF FinishPage
    <3> QED
      BY <3>1, <3>2 DEF Watermark
  <2> QED
    BY <1>9, <2>1 DEF FinishPage, history
<1>10. ASSUME NEW b \in Blobs, UpsertStored(b) PROVE OnlyKnownLosses'
  BY <1>10 DEF UpsertStored, Visit
<1>11. ASSUME NEW b \in Blobs, UpsertFails(b) PROVE OnlyKnownLosses'
  BY <1>11 DEF UpsertFails, Visit
<1>12. CASE Exit
  BY <1>3, <1>12 DEF Exit
<1>13. CASE UNCHANGED vars
  BY <1>13 DEF vars, local, history
<1> QED
  BY <1>1, <1>2, <1>4, <1>5, <1>6, <1>7, <1>8, <1>9, <1>10, <1>11, <1>12, <1>13
  DEF Next, Collect, Environment

\* A blob is only ever missing because its insert failed, because it came late, or
\* because it had left the page.
THEOREM LossesAreKnown == Spec => []OnlyKnownLosses
  BY InitLosses, NextLosses, TypeCorrect, PTL DEF Spec

=============================================================================
