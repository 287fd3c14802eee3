------------------------------ MODULE MxSweep ------------------------------
(***************************************************************************)
(* How the mirror of MaintainX's work orders is kept complete: the ingest  *)
(* (workorders-worker/src/mx-ingest.ts), which walks the list page by page *)
(* and keeps a cursor and a watermark in mx_sync_state, and the daily      *)
(* reconcile (mx-reconcile.ts), which has the open work orders walked once *)
(* more.  The cron and a manual kick may run the ingest at once.           *)
(*                                                                         *)
(* A page is one row, and writing it is one step: MxMirror takes it apart. *)
(* Every change has an instant of its own, which tells its versions apart. *)
(* The backfill is over when a behaviour begins.  The pass over the past,  *)
(* which never runs again, the work requests, the comments and what        *)
(* webhooks write to the mirror are left out.                              *)
(***************************************************************************)
EXTENDS Integers, FiniteSets

CONSTANTS
  Orders,       \* work orders, by id
  Cron, Kicks,  \* invocations of the ingest: the cron's, the manual ones
  Overlap,      \* INCREMENTAL_OVERLAP_MS
  MaxTime,      \* bound: instants
  MaxKicks,     \* bound: manual kicks
  MaxFaults,    \* bound: failed calls, evictions, empty answers
  MaxLags       \* bound: changes that the list shows late

ASSUME RunsAssumption == Cron \notin Kicks
ASSUME OrdersAssumption == Orders \subseteq Nat /\ IsFiniteSet(Orders)
ASSUME TimesAssumption ==
  {Overlap, MaxTime, MaxKicks, MaxFaults, MaxLags} \subseteq Nat

Runs == {Cron} \cup Kicks

VARIABLES
  now,
  up,         \* [Orders -> the work order in MaintainX]
  list,       \* [Orders -> the work order as the list shows it]
  mirror,     \* [Orders -> the row of mx_work_order]
  sync,       \* mx_sync_state: [Passes -> cursor and last_success_at]
  watermark,  \* mx_sync_state: the sweep's
  runs,       \* [Runs -> an invocation of the ingest]
  reconcile,  \* "rearm": it has read the live pass and is about to re-arm it
  kicks, faults, lags,
  \* History variables:
  unlisted,   \* versions not shown by the list while a sweep was under way
  excused,    \* versions the sweep may never ask for (see NoHole)
  owed        \* open work orders the last re-arm is still to have read

mx == <<now, up, list>>
ghosts == <<unlisted, excused, owed>>
vars == <<mx, mirror, sync, watermark, runs, reconcile, kicks, faults, lags, ghosts>>

-----------------------------------------------------------------------------
(* State. *)

None == -1
Times == 0..MaxTime

Rows == [at : Times, open : BOOLEAN]
Versions == [id : Orders, at : Times]
Version(o, rows) == [id |-> o, at |-> rows[o].at]

\* A place in the list: the row it is after, and the filter it was made for.
NoCursor == [at |-> None, id |-> None, since |-> None]
Cursors == {NoCursor} \cup [at : Times, id : Orders, since : Int]

Passes == {"live", "sweep"}

\* prior: the watermark it found; next: the page's cursor; seen: maxUpdatedAt.
Idle == [step |-> "idle", pass |-> "live", cursor |-> NoCursor, prior |-> None,
         page |-> {}, next |-> NoCursor, seen |-> None, started |-> 0]
Run == [step : {"idle", "fetch", "write", "commit", "fail"}, pass : Passes,
        cursor : Cursors, prior : Times \cup {None}, page : SUBSET [id : Orders, row : Rows],
        next : Cursors, seen : Times \cup {None}, started : Times]

TypeOK ==
  /\ now \in Times
  /\ up \in [Orders -> Rows] /\ list \in [Orders -> Rows]
  /\ mirror \in [Orders -> Rows]
  /\ sync \in [Passes -> [cursor : Cursors, done : BOOLEAN]]
  /\ watermark \in Times
  /\ runs \in [Runs -> Run]
  /\ reconcile \in {"idle", "rearm"}
  /\ kicks \in 0..MaxKicks /\ faults \in 0..MaxFaults /\ lags \in 0..MaxLags
  /\ unlisted \subseteq Versions /\ excused \subseteq Versions /\ owed \subseteq Orders

Init ==
  /\ now = 0
  /\ up = [o \in Orders |-> [at |-> 0, open |-> TRUE]] /\ list = up
  /\ mirror = up
  /\ sync = [p \in Passes |-> [cursor |-> NoCursor, done |-> TRUE]]
  /\ watermark = 0
  /\ runs = [r \in Runs |-> Idle]
  /\ reconcile = "idle"
  /\ kicks = 0 /\ faults = 0 /\ lags = 0
  /\ unlisted = {} /\ excused = {} /\ owed = {}

Fault == faults < MaxFaults /\ faults' = faults + 1

-----------------------------------------------------------------------------
(* MaintainX. *)

\* The list may lag.  A run's twenty seconds are over long before an overlap is.
Change(o) ==
  /\ now < MaxTime /\ now' = now + 1
  /\ \A r \in Runs : runs[r].step = "idle" \/ now' <= runs[r].started + Overlap
  /\ \E open \in BOOLEAN : up' = [up EXCEPT ![o] = [at |-> now', open |-> open]]
  /\ \/ list' = [list EXCEPT ![o] = up'[o]] /\ UNCHANGED lags
     \/ lags < MaxLags /\ lags' = lags + 1 /\ UNCHANGED list
  /\ owed' = owed \ {o}
  /\ UNCHANGED <<mirror, sync, watermark, runs, reconcile, kicks, faults, unlisted, excused>>

Show(o) ==
  /\ list[o] # up[o]
  /\ list' = [list EXCEPT ![o] = up[o]]
  /\ owed' = owed \ {o}
  /\ UNCHANGED <<now, up, mirror, sync, watermark, runs, reconcile, kicks, faults,
                 lags, unlisted, excused>>

\* GET /workorders: the rows a pass asks for, and their order.
Asked(pass, since) ==
  {o \in Orders : CASE pass = "live" -> list[o].open
                    [] pass = "sweep" -> list[o].at >= since}

Before(pass, a, b) ==
  IF pass = "sweep" THEN a.at < b.at \/ (a.at = b.at /\ a.id < b.id)
  ELSE a.at > b.at \/ (a.at = b.at /\ a.id > b.id)

Place(o, since) == [at |-> list[o].at, id |-> o, since |-> since]

\* A cursor keeps the filter it was made for.
Rest(pass, cursor, since) ==
  IF cursor = NoCursor THEN Asked(pass, since)
  ELSE {o \in Asked(pass, cursor.since) : Before(pass, cursor, Place(o, since))}

-----------------------------------------------------------------------------
(* The ingest. *)

DoneByCursor(p) == sync[p].cursor = NoCursor
Done(p) == sync[p].cursor = NoCursor /\ sync[p].done
Step(r, step) == runs' = [runs EXCEPT ![r].step = step]
End(r) == runs' = [runs EXCEPT ![r] = Idle]

\* What the sweep asks for: everything since a while before its watermark.
LookBack(prior) == prior - Overlap

\* runMxIngest: the live pass while it is not complete, or else the sweep.
Current == IF Done("live") THEN "sweep" ELSE "live"

Start(r) ==
  /\ runs[r].step = "idle"
  /\ IF r = Cron THEN UNCHANGED kicks ELSE kicks < MaxKicks /\ kicks' = kicks + 1
  /\ runs' = [runs EXCEPT ![r] =
       [Idle EXCEPT !.step = "fetch", !.pass = Current, !.cursor = sync[Current].cursor,
                    !.prior = IF Current = "sweep" THEN watermark ELSE None,
                    !.started = now]]
  /\ UNCHANGED <<mx, mirror, sync, watermark, reconcile, faults, lags, unlisted, excused, owed>>

\* The page that starts with the first of the rows that are left.
Page(r, o, rest, since) ==
  /\ \A x \in rest \ {o} : Before(runs[r].pass, Place(o, since), Place(x, since))
  /\ runs' = [runs EXCEPT ![r].step = "write",
                ![r].page = {[id |-> o, row |-> list[o]]},
                ![r].next = IF rest = {o} THEN NoCursor ELSE Place(o, since),
                ![r].seen = IF list[o].at > @ THEN list[o].at ELSE @]

\* A page, nothing where nothing is left, a failure, or an empty answer where there
\* is something, which only the sweep is on its guard against.
Fetch(r) ==
  LET t == runs[r]
      since == CASE t.cursor # NoCursor -> t.cursor.since
                 [] t.pass = "sweep" -> LookBack(t.prior)
                 [] OTHER -> None
      rest == Rest(t.pass, t.cursor, since)
  IN /\ t.step = "fetch"
     /\ \/ (\E o \in rest : Page(r, o, rest, since)) /\ UNCHANGED faults
        \/ rest = {} /\ Step(r, "write") /\ UNCHANGED faults
        \/ Fault /\ Step(r, "fail")
        \/ Fault /\ t.pass = "sweep" /\ Step(r, "write")
     /\ unlisted' = IF t.pass = "sweep"
                    THEN unlisted \cup {Version(o, up) : o \in {x \in Orders : list[x] # up[x]}}
                    ELSE unlisted
     /\ UNCHANGED <<mx, mirror, sync, watermark, reconcile, kicks, lags, excused, owed>>

\* The rows once the page is upserted, the pass's state once its checkpoint is, and
\* the run past its page.
Upserted(t) == [o \in Orders |-> IF \E x \in t.page : x.id = o
                                 THEN (CHOOSE x \in t.page : x.id = o).row ELSE mirror[o]]
Checkpoint(t) == [sync EXCEPT ![t.pass] = [cursor |-> t.next,
                                           done |-> @.done \/ t.next = NoCursor]]
Past(t, step) == [Idle EXCEPT !.step = step, !.pass = t.pass, !.cursor = t.next,
                              !.prior = t.prior, !.seen = t.seen, !.started = t.started]

\* The page's rows and then the checkpoint; the failure of one leaves the other
\* undone.  After it the pass is over, or the budget is, or there is another page.
Write(r) ==
  LET t == runs[r]
      complete == t.next = NoCursor
      Goes(step) == runs' = [runs EXCEPT ![r] = Past(t, step)]
  IN /\ t.step = "write"
     /\ \/ /\ mirror' = Upserted(t) /\ sync' = Checkpoint(t)
           /\ \/ complete /\ t.pass = "sweep" /\ Goes("commit")
              \/ (complete => t.pass # "sweep") /\ End(r)
              \/ ~complete /\ Goes("fetch")
           /\ UNCHANGED faults
        \/ /\ Fault
           /\ \/ /\ mirror' \in {mirror, Upserted(t)} /\ UNCHANGED sync
                 /\ Step(r, "fail")
              \/ /\ mirror' = Upserted(t) /\ sync' \in {sync, Checkpoint(t)}
                 /\ Goes("fail")
     /\ owed' = IF t.pass = "live" /\ mirror' = Upserted(t)
                THEN owed \ {x.id : x \in t.page} ELSE owed
     /\ UNCHANGED <<mx, watermark, reconcile, kicks, lags, unlisted, excused>>

\* The incremental pass commits what this run has seen, and forwards only.
\* It is written if it is later than the watermark the run has found.
Advances(prior, seen) == seen # None /\ ~(prior >= seen)

ObservedOrNow(seen) == IF seen = None THEN now ELSE seen
Observed(seen) == seen

Commit(r) ==
  LET t == runs[r]
      observed == Observed(t.seen)
  IN /\ t.step = "commit"
     /\ \/ /\ watermark' = IF Advances(t.prior, observed) THEN observed ELSE watermark
           /\ UNCHANGED faults
        \/ Fault /\ UNCHANGED watermark
     /\ excused' = excused \cup {v \in unlisted : v.at + Overlap < now}
     /\ unlisted' = {}
     /\ End(r)
     /\ UNCHANGED <<mx, mirror, sync, reconcile, kicks, lags, owed>>

\* A failed run writes the cursor it has come to: that of the page that failed.
ResumeAfter(t) == t.next
ResumeAt(t) == t.cursor

Fail(r) ==
  /\ runs[r].step = "fail"
  /\ \/ /\ sync' = [sync EXCEPT ![runs[r].pass].cursor = ResumeAt(runs[r])]
        /\ UNCHANGED faults
     \/ Fault /\ UNCHANGED sync
  /\ End(r)
  /\ UNCHANGED <<mx, mirror, watermark, reconcile, kicks, lags, ghosts>>

Evict(r) ==
  /\ runs[r].step # "idle" /\ Fault
  /\ End(r)
  /\ UNCHANGED <<mx, mirror, sync, watermark, reconcile, kicks, lags, ghosts>>

-----------------------------------------------------------------------------
(* runMxReconcile. *)

\* Mid-walk or never complete: it declines.
ReadLive ==
  /\ reconcile = "idle" /\ Done("live")
  /\ reconcile' = "rearm"
  /\ UNCHANGED <<mx, mirror, sync, watermark, runs, kicks, faults, lags, ghosts>>

ReArm ==
  /\ reconcile = "rearm" /\ reconcile' = "idle"
  /\ \/ /\ sync' = [sync EXCEPT !["live"] = [cursor |-> NoCursor, done |-> FALSE]]
        /\ owed' = {o \in Orders : list[o].open}
        /\ UNCHANGED faults
     \/ Fault /\ UNCHANGED <<sync, owed>>
  /\ UNCHANGED <<mx, mirror, watermark, runs, kicks, lags, unlisted, excused>>

-----------------------------------------------------------------------------
Ingest(r) == Fetch(r) \/ Write(r) \/ Commit(r) \/ Fail(r)

Next ==
  \/ \E o \in Orders : Change(o) \/ Show(o)
  \/ \E r \in Runs : Start(r) \/ Ingest(r) \/ Evict(r)
  \/ ReadLive \/ ReArm

\* The crons fire, what has been started goes on, and the list catches up.
Fairness ==
  /\ \A o \in Orders : WF_vars(Show(o))
  /\ WF_vars(Start(Cron)) /\ \A r \in Runs : WF_vars(Ingest(r))
  /\ WF_vars(ReadLive) /\ WF_vars(ReArm)

Spec == Init /\ [][Next]_vars /\ Fairness

-----------------------------------------------------------------------------
(* Properties. *)

\* "A row skipped while the watermark ran ahead [...] is not stale, it is
\* invisible" (mx-reconcile.ts): a row that the list shows and the mirror lacks is
\* still ahead of what the sweep will ask for, unless the list was more than the
\* overlap late to show it.
NoHole ==
  \A o \in Orders :
    mirror[o] # list[o] =>
      list[o].at >= watermark - Overlap \/ Version(o, list) \in excused

\* Once the live pass is complete again after a re-arm, it has read every open work
\* order that has not changed since.
ReArmIsWalked == Done("live") => owed = {}

\* "Monotonic on purpose": the watermark never goes back, although each sweep reads
\* again what is older than it.
WatermarkForward == [][watermark' >= watermark]_vars

\* "A gap is at most a day old": an open work order that the mirror lacks is
\* mirrored in the end, whatever had hidden it.
GapsHeal ==
  \A o \in Orders :
    up[o].open /\ mirror[o] # up[o] ~> mirror[o] = up[o] \/ ~up[o].open
=============================================================================
