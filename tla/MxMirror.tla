------------------------------ MODULE MxMirror ------------------------------
(***************************************************************************)
(* One MaintainX work order and its mirror: the row of mx_work_order and   *)
(* its expenditures (mx_work_order_expenditure), written by refreshes that *)
(* nothing keeps apart.  A webhook or the time sweep re-reads the one work *)
(* order (processWorkOrder); the ingest meets it on a page of a list walk  *)
(* (runWorkOrderPass).  Each refresh upserts the parent and then replaces  *)
(* the lines, which have no id upstream: read the dates they were first    *)
(* seen, delete, insert again.                                             *)
(*                                                                         *)
(* Time items are replaced the same way beside the expenditures; parts and *)
(* attachments carry no date.  The status of the work order and the page   *)
(* it is met on belong to the sync state, not to this module.              *)
(***************************************************************************)
EXTENDS Integers, FiniteSets

CONSTANTS
  Lines,      \* expenditure lines, by dedupe_key
  Readers,    \* invocations that re-read one work order: webhook, drain, sweep
  Walkers,    \* invocations of the ingest that may overlap: cron, manual kick
  Reactive,   \* is it a REACTIVE work order?  Only those are swept
  MaxEdits,   \* bound: changes made in MaintainX
  MaxMishaps  \* bound: failed calls, evictions, duplicated deletions

ASSUME MirrorAssumption ==
  /\ Readers \cap Walkers = {}
  /\ Reactive \in BOOLEAN /\ MaxEdits \in Nat /\ MaxMishaps \in Nat

Refreshers == Readers \cup Walkers

VARIABLES
  order,     \* the work order in MaintainX
  deletes,   \* WORK_ORDER_DELETE deliveries recorded and not yet applied
  row,       \* the row of mx_work_order
  costs,     \* first_seen_at of each line in mx_work_order_expenditure
  job,       \* what each refresher is doing
  edits, mishaps,
  \* History variables, never read by the system:
  recorded,  \* lines the mirror has ever held
  dropped,   \* lines ever removed from the work order in MaintainX
  excuses,   \* what has happened that may cost the mirror something
  alone      \* refreshes nothing has interfered with

marks == <<recorded, dropped, excuses, alone>>
mirrorVars == <<order, deletes, row, costs, job, edits, mishaps, marks>>

\* A line is dated "first" on the day it was first mirrored, "moved" when
\* it has any later date.
Dates == {"absent", "first", "moved"}
Held(c) == {l \in Lines : c[l] # "absent"}
NoLines == [l \in Lines |-> "absent"]

\* "gone": the read was answered 404.  Mode "prune" is the incremental pass,
\* "fill" a backfill or reconciling walk, "one" a reader.  read is what the
\* refresher fetched, seen the dates it found before it deletes.
Job == [at : {"idle", "gone", "read", "parent", "snapped", "cleared"},
        mode : {"one", "prune", "fill"},
        read : SUBSET Lines, seen : [Lines -> Dates]]
NoJob == [at |-> "idle", mode |-> "one", read |-> {}, seen |-> NoLines]
Busy(j) == job[j].at # "idle"

\* The total in the row is that of the lines it was mapped from.
MirrorTypeOK ==
  /\ order \in [exists : BOOLEAN, lines : SUBSET Lines]
  /\ deletes \in Nat
  /\ row \in [state : {"none", "shown", "hidden"}, total : SUBSET Lines]
  /\ costs \in [Lines -> Dates]
  /\ job \in [Refreshers -> Job]
  /\ edits \in Nat /\ mishaps \in Nat
  /\ recorded \subseteq Lines /\ dropped \subseteq Lines
  /\ excuses \subseteq {"torn", "raced"}
  /\ alone \subseteq Refreshers

MirrorInit ==
  /\ order = [exists |-> TRUE, lines |-> {}]
  /\ deletes = 0
  /\ row = [state |-> "none", total |-> {}]
  /\ costs = NoLines
  /\ job = [j \in Refreshers |-> NoJob]
  /\ edits = 0 /\ mishaps = 0
  /\ recorded = {} /\ dropped = {} /\ excuses = {} /\ alone = {}

Mishap == mishaps < MaxMishaps /\ mishaps' = mishaps + 1

-----------------------------------------------------------------------------
\* MaintainX.  A refresh that has already read is no longer alone.

Edit == edits < MaxEdits /\ edits' = edits + 1 /\ alone' = {}

AddLine(l) ==
  /\ order.exists /\ l \notin order.lines /\ Edit
  /\ order' = [order EXCEPT !.lines = @ \cup {l}]
  /\ UNCHANGED <<deletes, row, costs, job, mishaps, recorded, dropped, excuses>>

DropLine(l) ==
  /\ order.exists /\ l \in order.lines /\ Edit
  /\ order' = [order EXCEPT !.lines = @ \ {l}]
  /\ dropped' = dropped \cup {l}
  /\ UNCHANGED <<deletes, row, costs, job, mishaps, recorded, excuses>>

Delete ==
  /\ order.exists /\ Edit
  /\ order' = [order EXCEPT !.exists = FALSE]
  /\ deletes' = deletes + 1
  /\ UNCHANGED <<row, costs, job, mishaps, recorded, dropped, excuses>>

Restore ==
  /\ ~order.exists /\ Edit
  /\ order' = [order EXCEPT !.exists = TRUE]
  /\ UNCHANGED <<deletes, row, costs, job, mishaps, recorded, dropped, excuses>>

-----------------------------------------------------------------------------
\* Deletion.

\* Mutant of Hide: a work order with costs is kept.
HideUnbilled == row' = IF row.state = "none" \/ row.total # {} THEN row
                       ELSE [row EXCEPT !.state = "hidden"]
\* The PATCH of softDeleteWorkOrder; without a row it changes nothing.
Hide == row' = IF row.state = "none" THEN row ELSE [row EXCEPT !.state = "hidden"]

\* A deletion applied while a refresh is under way.
Raced == IF \E j \in Refreshers : Busy(j) THEN excuses \cup {"raced"} ELSE excuses

\* A WORK_ORDER_DELETE delivery is processed, late perhaps, perhaps twice.
SoftDelete ==
  /\ deletes > 0 /\ Hide
  /\ \/ deletes' = deletes - 1 /\ UNCHANGED mishaps
     \/ deletes' = deletes /\ Mishap
  /\ excuses' = Raced /\ alone' = {}
  /\ UNCHANGED <<order, costs, job, edits, recorded, dropped>>

-----------------------------------------------------------------------------
\* A refresh, in the order of its calls.

GoOn(j, at) == job' = [job EXCEPT ![j].at = at]
Finish(j) == job' = [job EXCEPT ![j] = NoJob]

Modes(j) == IF j \in Readers THEN {"one"} ELSE {"prune", "fill"}

\* The read.  A reader is answered 404 for a deleted work order; a walk meets
\* only work orders that exist, and may be listed without them.
Refetch(j, mode) ==
  /\ ~Busy(j) /\ mode \in Modes(j)
  /\ order.exists \/ j \in Readers
  /\ job' = [job EXCEPT ![j] = IF order.exists
                 THEN [NoJob EXCEPT !.at = "read", !.mode = mode, !.read = order.lines]
                 ELSE [NoJob EXCEPT !.at = "gone"]]
  /\ IF \E k \in Refreshers : Busy(k)
     THEN excuses' = excuses \cup {"raced"} /\ alone' = {}
     ELSE alone' = {j} /\ UNCHANGED excuses
  /\ UNCHANGED <<order, deletes, row, costs, edits, mishaps, recorded, dropped>>

\* runMxTimeSweep picks the row.
Sweep(j) == Reactive /\ row.state = "shown" /\ j \in Readers /\ Refetch(j, "one")

\* Mutant of Gone: a 404 is a failure like any other.
GoneUnnoticed(j) ==
  /\ job[j].at = "gone" /\ Finish(j)
  /\ UNCHANGED <<order, deletes, row, costs, edits, mishaps, marks>>
\* A 404 is as good as a WORK_ORDER_DELETE.
Gone(j) ==
  /\ job[j].at = "gone" /\ Hide /\ Finish(j)
  /\ UNCHANGED <<order, deletes, costs, edits, mishaps, marks>>

\* Mutant of MappedRow: deleted_at is not among the columns sent.
MappedRowStaysHidden(read) ==
  [state |-> IF row.state = "hidden" THEN "hidden" ELSE "shown", total |-> read]
\* A read that succeeded is proof that the work order exists.
MappedRow(read) == [state |-> "shown", total |-> read]

\* A walk that does not prune leaves the children of a work order alone when
\* it returned none.
TouchesChildren(j) == job[j].mode # "fill" \/ job[j].read # {}

\* The upsert of the parent, whose children are written only after it.
UpsertParent(j) ==
  /\ job[j].at = "read"
  /\ row' = MappedRow(job[j].read)
  /\ IF TouchesChildren(j) THEN GoOn(j, "parent") ELSE Finish(j)
  /\ UNCHANGED <<order, deletes, costs, edits, mishaps, marks>>

\* The dates of the lines that are about to be deleted.
Snapshotted == costs

Snapshot(j) ==
  /\ job[j].at = "parent"
  /\ job' = [job EXCEPT ![j].at = "snapped", ![j].seen = Snapshotted]
  /\ UNCHANGED <<order, deletes, row, costs, edits, mishaps, marks>>

\* Deletes every line of the work order, whoever inserted it.
Clear(j) ==
  /\ job[j].at = "snapped"
  /\ costs' = NoLines
  /\ IF job[j].read = {} THEN Finish(j) ELSE GoOn(j, "cleared")
  /\ UNCHANGED <<order, deletes, row, edits, mishaps, marks>>

\* Mutant of Dated: nothing is carried over.
DatedNow(j, l) == IF l \in recorded THEN "moved" ELSE "first"
\* withFirstSeen: the date carried over, or this refresh's own.
Dated(j, l) == IF job[j].seen[l] # "absent" THEN job[j].seen[l]
               ELSE IF l \in recorded THEN "moved" ELSE "first"

\* Mutant of Inserted: lines seen before are thought to be there still.
InsertedNew(j, ls) ==
  [l \in Lines |-> IF l \in ls \ Held(job[j].seen) THEN Dated(j, l) ELSE "absent"]
Inserted(j, ls) == [l \in Lines |-> IF l \in ls THEN Dated(j, l) ELSE "absent"]

\* One statement inserts lines ls; ordinals start at 0, so it conflicts with
\* any line another refresh has inserted meanwhile.
InsertLines(j, ls) ==
  IF Held(costs) = {}
  THEN costs' = Inserted(j, ls) /\ recorded' = recorded \cup Held(costs')
  ELSE UNCHANGED <<costs, recorded>>

Insert(j) ==
  /\ job[j].at = "cleared"
  /\ InsertLines(j, job[j].read) /\ Finish(j)
  /\ UNCHANGED <<order, deletes, row, edits, mishaps, dropped, excuses, alone>>

\* A call fails or the invocation ends.  The retry, by the drain or by the
\* next tick on the same cursor, is a refresh like any other.  A walk inserts
\* its page in batches, some of which may have been written.
FailRefresh(j) ==
  /\ Busy(j) /\ Mishap /\ Finish(j) /\ alone' = alone \ {j}
  /\ IF job[j].at = "cleared"
     THEN /\ excuses' = excuses \cup {"torn"}
          /\ \E ls \in SUBSET job[j].read :
               (ls # {} => j \in Walkers) /\ InsertLines(j, ls)
     ELSE UNCHANGED <<costs, recorded, excuses>>
  /\ UNCHANGED <<order, deletes, row, edits, dropped>>

Refresh(j) ==
  \/ Gone(j) \/ UpsertParent(j) \/ Snapshot(j) \/ Clear(j) \/ Insert(j)

MirrorNext ==
  \/ \E l \in Lines : AddLine(l) \/ DropLine(l)
  \/ Delete \/ Restore \/ SoftDelete
  \/ \E j \in Refreshers : \/ \E mode \in Modes(j) : Refetch(j, mode)
                            \/ Refresh(j) \/ FailRefresh(j)

\* A refresh that began goes on or fails, a recorded deletion is processed in
\* the end (MxDeliveries), the sweep comes round to every candidate, and the
\* daily reconcile walks the live queue.
MirrorFairness ==
  /\ \A j \in Refreshers : WF_mirrorVars(Refresh(j) \/ FailRefresh(j))
  /\ WF_mirrorVars(SoftDelete)
  /\ \A j \in Readers : WF_mirrorVars(Sweep(j))
  /\ \A j \in Walkers : WF_mirrorVars(Refetch(j, "fill"))

MirrorSpec == MirrorInit /\ [][MirrorNext]_mirrorVars /\ MirrorFairness

-----------------------------------------------------------------------------
\* A line's date of first sighting, on which the expense posting keys, moves
\* only when a replace ended between its delete and its insert or refreshes
\* raced each other.  Failures at other points, a parent written without its
\* children and retries cost no date.  (A line taken off may come back anew.)
DatesMoveOnlyByTearsOrRaces ==
  (\E l \in Lines \ dropped : costs[l] = "moved") => excuses # {}

\* A line once mirrored and still on the work order is missing only within a
\* replace, after a torn one, or when refreshes raced each other: the later
\* to write may be the earlier to have read.
LinesVanishOnlyByTearsOrRaces ==
  (\E l \in (recorded \cap order.lines) \ dropped : costs[l] = "absent")
     => \/ \E j \in Refreshers : job[j].at = "cleared"
        \/ excuses # {}

\* Once its deletion has been applied, a deleted work order is shown again
\* only if something overlapped a refresh that had read it before.
GhostsComeFromRaces ==
  ~order.exists /\ deletes = 0 /\ row.state = "shown" => "raced" \in excuses

Exact == IF order.exists
         THEN row = [state |-> "shown", total |-> order.lines] /\ Held(costs) = order.lines
         ELSE row.state # "shown"

\* A refresh nothing interfered with leaves the mirror as MaintainX has it,
\* total and lines, whatever state earlier refreshes left behind.  A walk
\* that does not prune is exempt where it returned no lines.
AloneIsExact ==
  [][\A j \in alone : (Busy(j) /\ TouchesChildren(j) /\ Finish(j) /\ mishaps' = mishaps)
                        => Exact']_mirrorVars

\* When MaintainX stops changing and calls stop failing, the mirror of a
\* reactive work order becomes exact and stays so, except within a replace.
Converges == <>[]((\A j \in Refreshers : job[j].at # "cleared") => Exact)
=============================================================================
