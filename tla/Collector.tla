------------------------------ MODULE Collector ------------------------------
(***************************************************************************)
(* Goroutine 1 of the prober: the collector.  It reads the first page of   *)
(* the DataAPI feed, newest blob first, inserts the blobs that are newer   *)
(* than the watermark lastSeenTimestamp, and then moves the watermark to   *)
(* the newest blob of the page.                                            *)
(*                                                                         *)
(* The watermark lives in memory only; the table observed_blobs survives.  *)
(* A page is the set of its blobs, visited from the newest to the oldest.  *)
(*                                                                         *)
(* dropped, late and offPage are history variables: no action reads them.  *)
(* They say why a blob may be missing from the table.                      *)
(***************************************************************************)
EXTENDS Integers, FiniteSets

CONSTANTS
  Blobs,          \* blob keys
  RequestedAt,    \* requested_at of every blob, unix nanoseconds
  PageLimit,      \* the limit given to FetchBlobFeed
  MaxRestarts     \* bound: how often the process is started again

ASSUME CollectorAssumption ==
  /\ RequestedAt \in [Blobs -> Nat \ {0}]
  /\ PageLimit \in Nat \ {0}
  /\ MaxRestarts \in Nat
  /\ IsFiniteSet(Blobs)

VARIABLES
  process,        \* the prober process: "running", "cancelled", "exited", "crashed"
  restarts,       \* how often it was started again
  published,      \* the blobs in the feed of the DataAPI
  observed,       \* table observed_blobs
  lastSeen,       \* lastSeenTimestamp
  pc,             \* where the goroutine is: "idle", "fetch", "page"
  page,           \* the blobs of the page the loop has not visited
  newest,         \* requested_at of the first blob of the page
  dropped,        \* history: blobs whose insert failed in this run of the process
  late,           \* history: blobs published behind the watermark of this run
  offPage         \* history: missing blobs that some page read did not reach

control == <<process, restarts>>
local   == <<lastSeen, pc, page, newest>>
history == <<dropped, late, offPage>>
vars    == <<control, published, observed, local, history>>

-----------------------------------------------------------------------------
\* The first page of the feed: its PageLimit newest blobs, equal times in any order.
IsPage(S) ==
  /\ S \subseteq published
  /\ Cardinality(S) <= PageLimit
  /\ S # published => Cardinality(S) = PageLimit
  /\ \A b \in S, c \in published \ S : RequestedAt[c] <= RequestedAt[b]

Newest(S) == {b \in S : \A c \in S : RequestedAt[c] <= RequestedAt[b]}

\* The watermark the goroutine has, or will have after the page in hand.
Watermark == IF pc = "page" /\ newest > lastSeen THEN newest ELSE lastSeen

-----------------------------------------------------------------------------
Init ==
  /\ process = "running"
  /\ restarts = 0
  /\ published = {}
  /\ observed = {}
  /\ lastSeen = 0
  /\ pc = "idle"
  /\ page = {}
  /\ newest = 0
  /\ dropped = {}
  /\ late = {}
  /\ offPage = {}

(* The environment: the feed, signals and crashes.                         *)

\* The DataAPI shows a blob; nothing makes it show blobs in the order of their times.
Publish(b) ==
  /\ b \notin published
  /\ published' = published \cup {b}
  /\ late' = (IF RequestedAt[b] <= Watermark THEN late \cup {b} ELSE late)
  /\ UNCHANGED <<control, observed, local, dropped, offPage>>

\* SIGINT or SIGTERM: the context is cancelled.
Cancel ==
  /\ process = "running"
  /\ process' = "cancelled"
  /\ UNCHANGED <<restarts, published, observed, local, history>>

\* The memory of the process is lost, and with it what this run was behind with.
Forget ==
  /\ lastSeen' = 0
  /\ pc' = "idle"
  /\ page' = {}
  /\ newest' = 0
  /\ dropped' = {}
  /\ late' = {}

Crash ==
  /\ process \in {"running", "cancelled"}
  /\ restarts < MaxRestarts
  /\ process' = "crashed"
  /\ Forget
  /\ UNCHANGED <<restarts, published, observed, offPage>>

\* The container is started again.
Restart ==
  /\ process \in {"crashed", "exited"}
  /\ restarts < MaxRestarts
  /\ process' = "running"
  /\ restarts' = restarts + 1
  /\ UNCHANGED <<published, observed, local, history>>

-----------------------------------------------------------------------------
(* The goroutine.                                                          *)

Alive == process \in {"running", "cancelled"}

\* The select at the top of the loop finds the context live.
Poll ==
  /\ process = "running"
  /\ pc = "idle"
  /\ pc' = "fetch"
  /\ UNCHANGED <<control, published, observed, lastSeen, page, newest, history>>

\* Mutant: the watermark moves when the page is read, before its blobs are stored.
FetchMovesWatermark ==
  /\ Alive
  /\ pc = "fetch"
  /\ \E S \in SUBSET published :
       /\ S # {}
       /\ IsPage(S)
       /\ page' = S
       /\ newest' \in {RequestedAt[b] : b \in Newest(S)}
       /\ offPage' = offPage \cup (published \ (observed \cup S))
  /\ lastSeen' = newest'
  /\ pc' = "page"
  /\ UNCHANGED <<control, published, observed, dropped, late>>

\* FetchBlobFeed(100, "") answered with a page.  It runs without the context.
Fetch ==
  /\ Alive
  /\ pc = "fetch"
  /\ \E S \in SUBSET published :
       /\ S # {}
       /\ IsPage(S)
       /\ page' = S
       /\ newest' \in {RequestedAt[b] : b \in Newest(S)}
       /\ offPage' = offPage \cup (published \ (observed \cup S))
  /\ pc' = "page"
  /\ UNCHANGED <<control, published, observed, lastSeen, dropped, late>>

\* Mutant: the goroutine returns when the feed cannot be read.
FetchFailsReturns ==
  /\ Alive
  /\ pc = "fetch"
  /\ pc' = "returned"
  /\ UNCHANGED <<control, published, observed, lastSeen, page, newest, history>>

\* It failed, or the feed is empty: the goroutine sleeps.
FetchFails ==
  /\ Alive
  /\ pc = "fetch"
  /\ pc' = "idle"
  /\ UNCHANGED <<control, published, observed, lastSeen, page, newest, history>>

\* One iteration of the loop over the page, b being the next blob of it.
Visit(b) ==
  /\ Alive
  /\ pc = "page"
  /\ b \in Newest(page)
  /\ RequestedAt[b] > lastSeen
  /\ page' = page \ {b}
  /\ UNCHANGED <<control, published, lastSeen, pc, newest, late, offPage>>

\* UpsertBlob succeeded; a key that is in the table is left as it is.
UpsertStored(b) ==
  /\ process = "running"
  /\ Visit(b)
  /\ observed' = observed \cup {b}
  /\ UNCHANGED dropped

\* UpsertBlob failed, as it must under a cancelled context; the loop goes on.
UpsertFails(b) ==
  /\ Visit(b)
  /\ dropped' = dropped \cup {b}
  /\ UNCHANGED observed

\* The loop is over, at its end or at a blob that is not newer than the watermark.
PageDone == page = {} \/ \E b \in Newest(page) : RequestedAt[b] <= lastSeen

\* Mutant: the page in hand is kept for the next round.
FinishKeepsPage ==
  /\ Alive
  /\ pc = "page"
  /\ PageDone
  /\ lastSeen' = Watermark
  /\ pc' = "idle"
  /\ UNCHANGED <<control, published, observed, page, newest, history>>

\* The watermark moves to the newest blob of the page.
FinishPage ==
  /\ Alive
  /\ pc = "page"
  /\ PageDone
  /\ lastSeen' = Watermark
  /\ pc' = "idle"
  /\ page' = {}
  /\ newest' = 0
  /\ UNCHANGED <<control, published, observed, history>>

\* The select sees the cancelled context and Run returns.
Exit ==
  /\ process = "cancelled"
  /\ pc = "idle"
  /\ process' = "exited"
  /\ Forget
  /\ UNCHANGED <<restarts, published, observed, offPage>>

Collect ==
  \/ Poll \/ Fetch \/ FetchFails \/ FinishPage \/ Exit
  \/ \E b \in Blobs : UpsertStored(b) \/ UpsertFails(b)

Environment ==
  \/ \E b \in Blobs : Publish(b)
  \/ Cancel \/ Crash \/ Restart

Next == Collect \/ Environment

Spec == Init /\ [][Next]_vars

\* The goroutine runs, a feed that is polled over and over answers now and then,
\* and the container policy starts a crashed process again.
Fairness ==
  /\ WF_vars(Collect)
  /\ SF_vars(Fetch)
  /\ WF_vars(process = "crashed" /\ Restart)

FairSpec == Spec /\ Fairness

-----------------------------------------------------------------------------
(* Properties.                                                             *)

\* Every variable keeps to its set.
TypeOK ==
  /\ process \in {"running", "cancelled", "exited", "crashed"}
  /\ restarts \in 0..MaxRestarts
  /\ published \in SUBSET Blobs
  /\ observed \in SUBSET published
  /\ lastSeen \in Nat
  /\ pc \in {"idle", "fetch", "page"}
  /\ page \in SUBSET published
  /\ newest \in Nat
  /\ pc # "page" => page = {} /\ newest = 0
  /\ dropped \in SUBSET published
  /\ late \in SUBSET published
  /\ offPage \in SUBSET published

Missing == published \ observed

\* There are three ways to lose a blob and no fourth: its insert failed, it came
\* to the feed behind the watermark, or it had left the first page when the page
\* was read.  Any other missing blob is still on its way: it is newer than the
\* watermark, and on the page in hand or newer than all of that page.  A crash or
\* a shutdown in the middle of a page is not a fourth way.
OnlyKnownLosses ==
  \A b \in Missing \ (dropped \cup late \cup offPage) :
    /\ RequestedAt[b] > lastSeen
    /\ pc = "page" => b \in page \/ RequestedAt[b] > newest

\* A published blob gets into the table, or is lost in one of the three ways, or
\* the prober is shut down.
CollectedOrLost ==
  \A b \in Blobs :
    (b \in published) ~>
      (b \in observed \cup dropped \cup late \cup offPage \/ process \in {"cancelled", "exited"})

=============================================================================
