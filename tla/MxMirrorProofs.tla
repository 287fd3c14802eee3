--------------------------- MODULE MxMirrorProofs ----------------------------
(***************************************************************************)
(* Theorems about the mirror of MaintainX's work orders: about MxSweep,    *)
(* which keeps it complete, for every finite set of work orders, every     *)
(* look-back and every bound, and about MxMirror, the refresh of one work  *)
(* order, for every set of lines, of readers and of walkers and every      *)
(* bound.                                                                  *)
(***************************************************************************)
EXTENDS MxSweep, MxMirror, TLAPS

-----------------------------------------------------------------------------
\* The ingest as it is without kicks: there is one run, the cron's.
T == runs[Cron]
Sweeping == T.step # "idle" /\ T.pass = "sweep"
Walking == T.step \in {"fetch", "write", "fail"} /\ T.pass = "live"

\* What is known of the instants: the list is behind MaintainX, the mirror behind the
\* list, and nothing is ahead of the clock.
ClockInv ==
  /\ watermark <= now
  /\ \A o \in Orders :
       /\ mirror[o].at <= list[o].at /\ list[o].at <= up[o].at /\ up[o].at <= now
       /\ list[o].at = up[o].at => list[o] = up[o]
  /\ \A p \in Passes : sync[p].cursor.at <= now
  /\ T.cursor.at <= now /\ T.next.at <= now /\ T.seen <= now

\* A page is one row, which the list showed when it was fetched.  If the list shows
\* another one since, the mirror does not have that.
PageInv ==
  /\ \A x, y \in T.page : x = y
  /\ \A x \in T.page :
       /\ x.row.at <= list[x.id].at
       /\ x.row # list[x.id] => mirror[x.id] # list[x.id]
  /\ T.step = "fetch" => T.page = {} /\ T.next = NoCursor

\* The sweep's cursors were made for the watermark that is still to be moved.
SinceInv ==
  /\ \A c \in {sync["sweep"].cursor} \cup IF Sweeping THEN {T.cursor, T.next} ELSE {} :
       c # NoCursor => c.since = watermark - Overlap
  /\ Sweeping => T.prior = watermark
  /\ T.step = "commit" => T.pass = "sweep" /\ sync["sweep"].cursor = NoCursor
  /\ Sweeping /\ T.step = "fetch" => T.seen <= T.cursor.at
  /\ Sweeping /\ T.step = "write" /\ T.next # NoCursor => T.seen <= T.next.at

\* The instants a sweep has come to.
Reached == {sync["sweep"].cursor.at} \cup
           IF Sweeping THEN {T.cursor.at, T.next.at, T.seen} ELSE {}

Good(o) == mirror[o] = list[o] \/ Version(o, list) \in unlisted \cup excused
Due(o) == list[o].at >= watermark - Overlap
Passed(c, o) == c # NoCursor /\ ~Before("sweep", c, Place(o, None))
OnPage(o) == \E x \in T.page : x.id = o /\ x.row = list[o]
Walked(c) == \A o \in Orders : Due(o) /\ Passed(c, o) => Good(o)

\* The prefix of a cursor is written, but for what the list hid from the sweep.
WalkInv ==
  /\ Walked(sync["sweep"].cursor)
  /\ Sweeping => Walked(T.cursor)
  /\ Sweeping /\ T.step = "write" =>
       \A o \in Orders : Due(o) =>
         \/ Good(o) \/ OnPage(o)
         \/ IF T.next = NoCursor THEN list[o].at >= T.seen ELSE ~Passed(T.next, o)
  /\ T.step = "commit" =>
       \A o \in Orders : Due(o) => Good(o) \/ list[o].at >= T.seen

\* A version the list does not show yet will be shown ahead of the sweep, or has
\* been noted.
HiddenInv ==
  \A o \in Orders : list[o] # up[o] =>
    /\ up[o].at >= watermark - Overlap \/ Version(o, up) \in excused
    /\ (\A i \in Reached : up[o].at > i) \/ Version(o, up) \in unlisted \cup excused

OwedAhead(c) == \A o \in owed : c = NoCursor \/ Before("live", c, Place(o, None))

\* A live pass that is not complete has what is owed ahead of it.
OwedInv ==
  /\ \A o \in owed : list[o].open
  /\ reconcile = "rearm" => sync["live"].done
  /\ sync["live"].done => sync["live"].cursor = NoCursor /\ owed = {}
  /\ OwedAhead(sync["live"].cursor)
  /\ Walking => /\ OwedAhead(T.cursor)
                /\ sync["live"].done => T.step = "fail" /\ T.cursor = NoCursor
  /\ Walking /\ T.step = "write" =>
       \A o \in owed : \/ \E x \in T.page : x.id = o
                       \/ T.next # NoCursor /\ Before("live", T.next, Place(o, None))

HoleInv == WalkInv /\ HiddenInv /\ NoHole

IInv == TypeOK /\ ClockInv /\ PageInv /\ SinceInv /\ HoleInv /\ OwedInv

-----------------------------------------------------------------------------
\* Types.

Steps == {"idle", "fetch", "write", "commit", "fail"}

LEMMA Constants ==
  /\ MaxTime \in Nat /\ Overlap \in Nat /\ MaxFaults \in Nat /\ MaxKicks \in Nat /\ MaxLags \in Nat
  /\ \A i \in Times : i \in Nat /\ i <= MaxTime
  /\ 0 \in Times /\ None = -1 /\ None \notin Times
  /\ \A o \in Orders : o \in Nat
BY OrdersAssumption, TimesAssumption DEF Times, None

LEMMA CursorTyped ==
  /\ NoCursor \in Cursors
  /\ \A c \in Cursors : /\ c.at \in Times \cup {None} /\ c.id \in Orders \cup {None}
                        /\ c.since \in Int
                        /\ c = NoCursor <=> c.at = None
  /\ \A o \in Orders, i \in Times, s \in Int :
       [at |-> i, id |-> o, since |-> s] \in Cursors \ {NoCursor}
BY Constants DEF Cursors, NoCursor, None

LEMMA IdleTyped ==
  /\ Idle \in Run /\ Idle.step = "idle" /\ Idle.pass = "live" /\ Idle.cursor = NoCursor
  /\ Idle.prior = None /\ Idle.page = {} /\ Idle.next = NoCursor /\ Idle.seen = None
  /\ Idle.started = 0
BY Constants, CursorTyped DEF Idle, Run, Passes

LEMMA RunTyped ==
  ASSUME TypeOK, NEW r \in Runs
  PROVE  /\ runs[r] \in Run /\ runs[r].step \in Steps /\ runs[r].pass \in Passes
         /\ runs[r].cursor \in Cursors /\ runs[r].next \in Cursors
         /\ runs[r].prior \in Times \cup {None} /\ runs[r].seen \in Times \cup {None}
         /\ runs[r].page \in SUBSET [id : Orders, row : Rows] /\ runs[r].started \in Times
BY DEF TypeOK, Run, Steps

LEMMA StepEffect ==
  ASSUME TypeOK, NEW r \in Runs, NEW s \in Steps, Step(r, s)
  PROVE  /\ runs' \in [Runs -> Run]
         /\ runs'[r].step = s /\ runs'[r].pass = runs[r].pass
         /\ runs'[r].cursor = runs[r].cursor /\ runs'[r].next = runs[r].next
         /\ runs'[r].prior = runs[r].prior /\ runs'[r].seen = runs[r].seen
         /\ runs'[r].page = runs[r].page /\ runs'[r].started = runs[r].started
<1> DEFINE new == [runs[r] EXCEPT !.step = s]
<1>1. /\ new \in Run /\ new.step = s /\ new.pass = runs[r].pass
      /\ new.cursor = runs[r].cursor /\ new.next = runs[r].next
      /\ new.prior = runs[r].prior /\ new.seen = runs[r].seen
      /\ new.page = runs[r].page /\ new.started = runs[r].started
  BY RunTyped DEF Run, Steps
<1>2. runs' = [runs EXCEPT ![r] = new]
  BY DEF Step, TypeOK
<1> HIDE DEF new
<1> QED BY <1>1, <1>2 DEF TypeOK

LEMMA EndEffect ==
  ASSUME TypeOK, NEW r \in Runs, End(r)
  PROVE  runs' \in [Runs -> Run] /\ runs'[r] = Idle
BY IdleTyped DEF End, TypeOK

LEMMA StartEffect ==
  ASSUME TypeOK, NEW r \in Runs, Start(r)
  PROVE  /\ runs' \in [Runs -> Run]
         /\ runs'[r].step = "fetch" /\ runs'[r].pass = Current
         /\ runs'[r].cursor = sync[Current].cursor
         /\ runs'[r].prior = IF Current = "sweep" THEN watermark ELSE None
         /\ runs'[r].page = {} /\ runs'[r].next = NoCursor /\ runs'[r].seen = None
<1> DEFINE prior == IF Current = "sweep" THEN watermark ELSE None
           new == [Idle EXCEPT !.step = "fetch", !.pass = Current,
                               !.cursor = sync[Current].cursor, !.prior = prior,
                               !.started = now]
<1>1. Current \in Passes
  BY DEF Current, Passes
<1>2. sync[Current].cursor \in Cursors
  BY <1>1 DEF TypeOK
<1>3. watermark \in Times /\ now \in Times
  BY DEF TypeOK
<1>4. runs' = [runs EXCEPT ![r] = new]
  BY DEF Start
<1>5. prior \in Times \cup {None}
  BY <1>3
<1> HIDE DEF prior
<1>6. /\ new \in Run /\ new.step = "fetch" /\ new.pass = Current
      /\ new.cursor = sync[Current].cursor /\ new.prior = prior
      /\ new.page = {} /\ new.next = NoCursor /\ new.seen = None
  BY <1>1, <1>2, <1>3, <1>5, IdleTyped DEF Run
<1> HIDE DEF new
<1>7. runs' \in [Runs -> Run] /\ runs'[r] = new
  BY <1>4, <1>6 DEF TypeOK
<1> QED BY <1>6, <1>7 DEF prior

\* What a pass asks for, and where its next cursor is.
LEMMA PageEffect ==
  ASSUME TypeOK, NEW r \in Runs, NEW rest \in SUBSET Orders, NEW o \in rest, NEW since \in Int,
         Page(r, o, rest, since)
  PROVE  /\ runs' \in [Runs -> Run]
         /\ runs'[r].step = "write" /\ runs'[r].pass = runs[r].pass
         /\ runs'[r].cursor = runs[r].cursor /\ runs'[r].prior = runs[r].prior
         /\ runs'[r].page = {[id |-> o, row |-> list[o]]}
         /\ rest = {o} => runs'[r].next = NoCursor
         /\ rest # {o} => runs'[r].next = Place(o, since) /\ runs'[r].next # NoCursor
         /\ runs'[r].seen = IF list[o].at > runs[r].seen THEN list[o].at ELSE runs[r].seen
<1> DEFINE page == {[id |-> o, row |-> list[o]]}
           next == IF rest = {o} THEN NoCursor ELSE Place(o, since)
           seen == IF list[o].at > runs[r].seen THEN list[o].at ELSE runs[r].seen
           new == [runs[r] EXCEPT !.step = "write", !.page = page, !.next = next, !.seen = seen]
<1>1. list[o] \in Rows /\ list[o].at \in Times
  BY DEF TypeOK, Rows
<1>2. Place(o, since) \in Cursors \ {NoCursor}
  BY <1>1, CursorTyped DEF Place
<1>3. page \in SUBSET [id : Orders, row : Rows] /\ next \in Cursors /\ seen \in Times \cup {None}
  BY <1>1, <1>2, CursorTyped, RunTyped
<1>4. runs' = [runs EXCEPT ![r] = new]
  BY DEF Page, TypeOK
<1> HIDE DEF page, next, seen
<1>5. /\ new \in Run /\ new.step = "write" /\ new.pass = runs[r].pass
      /\ new.cursor = runs[r].cursor /\ new.prior = runs[r].prior
      /\ new.page = page /\ new.next = next /\ new.seen = seen
  BY <1>3, RunTyped DEF Run
<1> HIDE DEF new
<1>6. runs' \in [Runs -> Run] /\ runs'[r] = new
  BY <1>4, <1>5 DEF TypeOK
<1> QED BY <1>2, <1>5, <1>6 DEF page, next, seen

LEMMA PastFields ==
  ASSUME TypeOK, NEW r \in Runs, NEW s \in Steps
  PROVE  LET new == Past(runs[r], s) IN
         /\ new \in Run /\ new.step = s /\ new.pass = runs[r].pass
         /\ new.cursor = runs[r].next /\ new.prior = runs[r].prior
         /\ new.page = {} /\ new.next = NoCursor /\ new.seen = runs[r].seen
<1> DEFINE t == runs[r]
           new == Past(t, s)
<1>1. /\ t.pass \in Passes /\ t.next \in Cursors /\ t.prior \in Times \cup {None}
      /\ t.seen \in Times \cup {None} /\ t.started \in Times
  BY RunTyped
<1> HIDE DEF t
<1>2. /\ new \in Run /\ new.step = s /\ new.pass = t.pass
      /\ new.cursor = t.next /\ new.prior = t.prior
      /\ new.page = {} /\ new.next = NoCursor /\ new.seen = t.seen
  BY <1>1, IdleTyped DEF Past, Run, Steps
<1> QED BY <1>2 DEF t

LEMMA PastEffect ==
  ASSUME TypeOK, NEW r \in Runs, NEW s \in Steps, runs' = [runs EXCEPT ![r] = Past(runs[r], s)]
  PROVE  /\ runs' \in [Runs -> Run]
         /\ runs'[r].step = s /\ runs'[r].pass = runs[r].pass
         /\ runs'[r].cursor = runs[r].next /\ runs'[r].prior = runs[r].prior
         /\ runs'[r].page = {} /\ runs'[r].next = NoCursor /\ runs'[r].seen = runs[r].seen
<1> DEFINE new == Past(runs[r], s)
<1>1. runs' \in [Runs -> Run] /\ runs'[r] = new
  BY PastFields DEF TypeOK
<1> QED BY <1>1, PastFields

\* The rows of a page are those it holds.
LEMMA UpsertedTyped ==
  ASSUME TypeOK, NEW r \in Runs
  PROVE  /\ Upserted(runs[r]) \in [Orders -> Rows]
         /\ \A o \in Orders :
              \/ Upserted(runs[r])[o] = mirror[o] /\ \A x \in runs[r].page : x.id # o
              \/ \E x \in runs[r].page : x.id = o /\ Upserted(runs[r])[o] = x.row
<1> DEFINE page == runs[r].page
           new == [o \in Orders |-> IF \E x \in page : x.id = o
                                    THEN (CHOOSE x \in page : x.id = o).row ELSE mirror[o]]
<1>1. page \in SUBSET [id : Orders, row : Rows] /\ mirror \in [Orders -> Rows]
  BY RunTyped DEF TypeOK
<1> HIDE DEF page
<1>2. ASSUME NEW o \in Orders
      PROVE  /\ new[o] \in Rows
             /\ \/ new[o] = mirror[o] /\ \A x \in page : x.id # o
                \/ \E x \in page : x.id = o /\ new[o] = x.row
  <2>1. CASE \E x \in page : x.id = o
    <3>1. PICK x \in page : x = CHOOSE y \in page : y.id = o
      BY <2>1
    <3>2. x.id = o /\ new[o] = x.row
      BY <2>1, <3>1
    <3> QED BY <1>1, <3>1, <3>2
  <2>2. CASE \A x \in page : x.id # o
    BY <1>1, <2>2
  <2> QED BY <2>1, <2>2
<1>3. new \in [Orders -> Rows]
  BY <1>2
<1>4. Upserted(runs[r]) = new
  BY DEF Upserted, page
<1> HIDE DEF new
<1> QED BY <1>2, <1>3, <1>4 DEF page

LEMMA CheckpointTyped ==
  ASSUME TypeOK, NEW r \in Runs
  PROVE  LET p == runs[r].pass
             new == Checkpoint(runs[r])
         IN /\ new \in [Passes -> [cursor : Cursors, done : BOOLEAN]]
            /\ new[p].cursor = runs[r].next
            /\ new[p].done = (sync[p].done \/ runs[r].next = NoCursor)
            /\ \A q \in Passes \ {p} : new[q] = sync[q]
BY RunTyped DEF TypeOK, Checkpoint

LEMMA SinceTyped ==
  ASSUME TypeOK, NEW r \in Runs
  PROVE  /\ runs[r].cursor.since \in Int
         /\ LookBack(runs[r].prior) \in Int
BY RunTyped, CursorTyped, Constants DEF LookBack, None

LEMMA InitType == Init => TypeOK
<1> SUFFICES ASSUME Init PROVE TypeOK
  OBVIOUS
<1>1. runs \in [Runs -> Run]
  BY IdleTyped DEF Init
<1>2. up \in [Orders -> Rows] /\ list \in [Orders -> Rows] /\ mirror \in [Orders -> Rows]
  BY Constants DEF Init, Rows
<1>3. sync \in [Passes -> [cursor : Cursors, done : BOOLEAN]]
  BY CursorTyped DEF Init
<1> QED BY <1>1, <1>2, <1>3, Constants DEF Init, TypeOK

LEMMA ChangeTyped ==
  ASSUME TypeOK, NEW o \in Orders, Change(o)
  PROVE  /\ now' = now + 1 /\ now' \in Times
         /\ up' \in [Orders -> Rows] /\ up'[o].at = now'
         /\ \A p \in Orders \ {o} : up'[p] = up[p] /\ list'[p] = list[p]
         /\ list' \in [Orders -> Rows] /\ list'[o] \in {list[o], up'[o]}
         /\ lags' \in 0..MaxLags
<1>1. now' = now + 1 /\ now' \in Times
  BY Constants DEF Change, TypeOK, Times
<1>2. PICK open \in BOOLEAN : up' = [up EXCEPT ![o] = [at |-> now', open |-> open]]
  BY DEF Change
<1>3. [at |-> now', open |-> open] \in Rows
  BY <1>1 DEF Rows
<1>4. up' \in [Orders -> Rows] /\ up'[o].at = now' /\ \A p \in Orders \ {o} : up'[p] = up[p]
  BY <1>2, <1>3 DEF TypeOK
<1>5. list' = list \/ list' = [list EXCEPT ![o] = up'[o]]
  BY DEF Change
<1>6. lags' \in 0..MaxLags
  BY Constants DEF Change, TypeOK
<1> QED BY <1>1, <1>4, <1>5, <1>6 DEF TypeOK

LEMMA NextType == TypeOK /\ [Next]_vars => TypeOK'
<1> SUFFICES ASSUME TypeOK, [Next]_vars PROVE TypeOK'
  OBVIOUS
<1> USE DEF mx, ghosts
<1>1. ASSUME NEW o \in Orders, Change(o) PROVE TypeOK'
  <2>1. UNCHANGED <<mirror, sync, watermark, runs, reconcile, kicks, faults, unlisted, excused>>
    BY <1>1 DEF Change
  <2>2. owed' \subseteq Orders
    BY <1>1 DEF Change, TypeOK
  <2> QED BY <1>1, <2>1, <2>2, ChangeTyped DEF TypeOK
<1>2. ASSUME NEW o \in Orders, Show(o) PROVE TypeOK'
  BY <1>2 DEF Show, TypeOK
<1>3. ASSUME NEW r \in Runs, Start(r) PROVE TypeOK'
  <2>1. kicks' \in 0..MaxKicks
    BY <1>3, Constants DEF Start, TypeOK
  <2>2. runs' \in [Runs -> Run]
    BY <1>3, StartEffect
  <2>3. UNCHANGED <<mx, mirror, sync, watermark, reconcile, faults, lags, unlisted, excused, owed>>
    BY <1>3 DEF Start
  <2> QED BY <2>1, <2>2, <2>3 DEF TypeOK
<1>4. ASSUME NEW r \in Runs, Fetch(r) PROVE TypeOK'
  <2>1. runs' \in [Runs -> Run]
    <3>1. ASSUME NEW s \in Steps, Step(r, s) PROVE runs' \in [Runs -> Run]
      BY <3>1, StepEffect
    <3>2. ASSUME NEW rest \in SUBSET Orders, NEW since \in Int, NEW o \in rest,
                 Page(r, o, rest, since)
          PROVE  runs' \in [Runs -> Run]
      BY <3>2, PageEffect
    <3>3. \A p \in Passes, c \in Cursors, s \in Int : Rest(p, c, s) \in SUBSET Orders
      BY DEF Rest, Asked
    <3>4. None \in Int
      BY Constants
    <3> QED BY <1>4, <3>1, <3>2, <3>3, <3>4, SinceTyped, RunTyped DEF Fetch, Steps
  <2>2. faults' \in 0..MaxFaults
    BY <1>4, Constants DEF Fetch, Fault, TypeOK
  <2>3. unlisted' \subseteq Versions
    <3>1. \A o \in Orders : Version(o, up) \in Versions
      BY DEF Version, Versions, TypeOK, Rows
    <3> QED BY <1>4, <3>1 DEF Fetch, TypeOK
  <2>4. UNCHANGED <<mx, mirror, sync, watermark, reconcile, kicks, lags, excused, owed>>
    BY <1>4 DEF Fetch
  <2> QED BY <2>1, <2>2, <2>3, <2>4 DEF TypeOK
<1>5. ASSUME NEW r \in Runs, Write(r) PROVE TypeOK'
  <2>1. runs' \in [Runs -> Run]
    BY <1>5, StepEffect, EndEffect, PastEffect DEF Write, Steps
  <2>2. mirror' \in [Orders -> Rows] /\ sync' \in [Passes -> [cursor : Cursors, done : BOOLEAN]]
    BY <1>5, UpsertedTyped, CheckpointTyped DEF Write, TypeOK
  <2>3. faults' \in 0..MaxFaults
    BY <1>5, Constants DEF Write, Fault, TypeOK
  <2>4. owed' \subseteq Orders
    BY <1>5 DEF Write, TypeOK
  <2>5. UNCHANGED <<mx, watermark, reconcile, kicks, lags, unlisted, excused>>
    BY <1>5 DEF Write
  <2> QED BY <2>1, <2>2, <2>3, <2>4, <2>5 DEF TypeOK
<1>6. ASSUME NEW r \in Runs, Commit(r) PROVE TypeOK'
  <2>1. watermark' \in Times
    BY <1>6, RunTyped, Constants DEF Commit, Advances, Observed, TypeOK
  <2>2. excused' \subseteq Versions /\ unlisted' \subseteq Versions
    BY <1>6 DEF Commit, TypeOK
  <2>3. faults' \in 0..MaxFaults
    BY <1>6, Constants DEF Commit, Fault, TypeOK
  <2>4. runs' \in [Runs -> Run]
    BY <1>6, EndEffect DEF Commit
  <2>5. UNCHANGED <<mx, mirror, sync, reconcile, kicks, lags, owed>>
    BY <1>6 DEF Commit
  <2> QED BY <2>1, <2>2, <2>3, <2>4, <2>5 DEF TypeOK
<1>7. ASSUME NEW r \in Runs, Fail(r) \/ Evict(r) PROVE TypeOK'
  <2>1. sync' \in [Passes -> [cursor : Cursors, done : BOOLEAN]]
    BY <1>7, RunTyped DEF Fail, Evict, ResumeAt, TypeOK
  <2>2. faults' \in 0..MaxFaults
    BY <1>7, Constants DEF Fail, Evict, Fault, TypeOK
  <2>3. runs' \in [Runs -> Run]
    BY <1>7, EndEffect DEF Fail, Evict
  <2>4. UNCHANGED <<mx, mirror, watermark, reconcile, kicks, lags, ghosts>>
    BY <1>7 DEF Fail, Evict
  <2> QED BY <2>1, <2>2, <2>3, <2>4 DEF TypeOK
<1>8. CASE ReadLive
  BY <1>8 DEF ReadLive, TypeOK
<1>9. CASE ReArm
  <2>1. sync' \in [Passes -> [cursor : Cursors, done : BOOLEAN]] /\ owed' \subseteq Orders
    <3>1. [cursor |-> NoCursor, done |-> FALSE] \in [cursor : Cursors, done : BOOLEAN]
      BY CursorTyped
    <3>2. \/ sync' = [sync EXCEPT !["live"] = [cursor |-> NoCursor, done |-> FALSE]]
          \/ sync' = sync
      BY <1>9 DEF ReArm
    <3>3. owed' \subseteq Orders
      BY <1>9 DEF ReArm, TypeOK
    <3> QED BY <3>1, <3>2, <3>3 DEF TypeOK
  <2>2. faults' \in 0..MaxFaults
    BY <1>9, Constants DEF ReArm, Fault, TypeOK
  <2>3. UNCHANGED <<mx, mirror, watermark, runs, kicks, lags, unlisted, excused>>
    BY <1>9 DEF ReArm
  <2>4. reconcile' \in {"idle", "rearm"}
    BY <1>9 DEF ReArm
  <2> QED BY <2>1, <2>2, <2>3, <2>4 DEF TypeOK
<1>10. CASE UNCHANGED vars
  BY <1>10 DEF vars, TypeOK
<1> QED BY <1>1, <1>2, <1>3, <1>4, <1>5, <1>6, <1>7, <1>8, <1>9, <1>10 DEF Next, Ingest

-----------------------------------------------------------------------------
\* The cron's run alone.

LEMMA OneRun == Kicks = {} => Runs = {Cron}
BY DEF Runs

LEMMA Numbers ==
  ASSUME TypeOK
  PROVE  /\ Cron \in Runs /\ T \in Run
         /\ now \in Nat /\ watermark \in Nat /\ Overlap \in Nat
         /\ \A o \in Orders : list[o].at \in Nat /\ up[o].at \in Nat /\ mirror[o].at \in Nat
         /\ T.cursor \in Cursors /\ T.next \in Cursors
         /\ \A p \in Passes : sync[p].cursor \in Cursors /\ sync[p].cursor.at \in Nat \cup {None}
         /\ T.cursor.at \in Nat \cup {None} /\ T.next.at \in Nat \cup {None}
         /\ T.seen \in Nat \cup {None} /\ None = -1
<1>1. Cron \in Runs
  BY DEF Runs
<1>2. \A i \in Times : i \in Nat
  BY Constants
<1>3. \A o \in Orders : list[o] \in Rows /\ up[o] \in Rows /\ mirror[o] \in Rows
  BY DEF TypeOK
<1>4. \A p \in Passes : sync[p].cursor \in Cursors
  BY DEF TypeOK
<1>5. now \in Times /\ watermark \in Times
  BY DEF TypeOK
<1> QED BY <1>1, <1>2, <1>3, <1>4, <1>5, RunTyped, CursorTyped, Constants DEF Rows, T

\* Where a page begins does not depend on the filter.
LEMMA Places ==
  ASSUME NEW p \in Passes, NEW c, NEW o, NEW s
  PROVE  /\ Before(p, c, Place(o, s)) = Before(p, c, Place(o, None))
         /\ Before(p, Place(o, s), c) = Before(p, Place(o, None), c)
         /\ Place(o, s).at = list[o].at
BY DEF Before, Place

\* The rows that are left for the run.
Since == CASE T.cursor # NoCursor -> T.cursor.since
           [] T.pass = "sweep" -> LookBack(T.prior)
           [] OTHER -> None
Left == Rest(T.pass, T.cursor, Since)

LEMMA SweepSince ==
  ASSUME SinceInv, Sweeping
  PROVE  Since = watermark - Overlap
BY DEF Sweeping, SinceInv, Since, LookBack

LEMMA SweepLeft ==
  ASSUME TypeOK, SinceInv, Sweeping
  PROVE  Left = {o \in Orders : Due(o) /\ ~Passed(T.cursor, o)}
<1>1. CASE T.cursor = NoCursor
  <2>1. Since = watermark - Overlap
    BY SweepSince
  <2> QED BY <1>1, <2>1 DEF Left, Rest, Asked, Due, Passed, Sweeping
<1>2. CASE T.cursor # NoCursor
  <2>1. T.cursor.since = watermark - Overlap
    BY <1>2 DEF SinceInv
  <2>2. \A o \in Orders : Before("sweep", T.cursor, Place(o, Since))
                            = Before("sweep", T.cursor, Place(o, None))
    BY Places DEF Passes
  <2> QED BY <1>2, <2>1, <2>2 DEF Left, Rest, Asked, Due, Passed, Sweeping
<1> QED BY <1>1, <1>2

LEMMA LiveLeft ==
  ASSUME TypeOK, T.pass = "live"
  PROVE  Left = {o \in Orders : /\ list[o].open
                                /\ T.cursor = NoCursor \/ Before("live", T.cursor, Place(o, None))}
<1>1. \A o \in Orders : Before("live", T.cursor, Place(o, Since))
                          = Before("live", T.cursor, Place(o, None))
  BY Places DEF Passes
<1> QED BY <1>1 DEF Left, Rest, Asked

\* What a fetch does to the run: a page, or nothing.
Turned(o) ==
  /\ o \in Left
  /\ \A x \in Left \ {o} : Before(T.pass, Place(o, None), Place(x, None))
  /\ T'.step = "write" /\ T'.page = {[id |-> o, row |-> list[o]]}
  /\ Left = {o} => T'.next = NoCursor
  /\ Left # {o} => /\ T'.next # NoCursor /\ T'.next.at = list[o].at /\ T'.next.id = o
                   /\ T'.next.since = Since
  /\ T'.seen = IF list[o].at > T.seen THEN list[o].at ELSE T.seen

LEMMA FetchEffect ==
  ASSUME TypeOK, Fetch(Cron)
  PROVE  /\ T.step = "fetch"
         /\ T'.pass = T.pass /\ T'.cursor = T.cursor /\ T'.prior = T.prior
         /\ \/ \E o \in Orders : Turned(o)
            \/ /\ T'.step \in {"write", "fail"}
               /\ T'.page = T.page /\ T'.next = T.next /\ T'.seen = T.seen
               /\ T'.step = "write" /\ T.pass = "live" => Left = {}
         /\ unlisted' = IF T.pass = "sweep"
              THEN unlisted \cup {Version(o, up) : o \in {x \in Orders : list[x] # up[x]}}
              ELSE unlisted
         /\ UNCHANGED <<mx, mirror, sync, watermark, reconcile, excused, owed>>
<1>1. /\ T.step = "fetch"
      /\ UNCHANGED <<mx, mirror, sync, watermark, reconcile, excused, owed>>
      /\ unlisted' = IF T.pass = "sweep"
           THEN unlisted \cup {Version(o, up) : o \in {x \in Orders : list[x] # up[x]}}
           ELSE unlisted
  BY DEF Fetch, T
<1>2. \/ \E o \in Left : Page(Cron, o, Left, Since)
      \/ Left = {} /\ Step(Cron, "write")
      \/ Step(Cron, "fail")
      \/ T.pass = "sweep" /\ Step(Cron, "write")
  BY DEF Fetch, T, Left, Since
<1>3. Cron \in Runs /\ Left \in SUBSET Orders /\ Since \in Int /\ T.pass \in Passes
  <2>1. Cron \in Runs
    BY DEF Runs
  <2>2. Left \in SUBSET Orders
    BY DEF Left, Rest, Asked
  <2>3. Since \in {T.cursor.since, LookBack(T.prior), None}
    BY DEF Since
  <2>4. None \in Int
    BY Constants
  <2> QED BY <2>1, <2>2, <2>3, <2>4, SinceTyped, RunTyped DEF T
<1>4. ASSUME NEW o \in Left, Page(Cron, o, Left, Since)
      PROVE  /\ T'.pass = T.pass /\ T'.cursor = T.cursor /\ T'.prior = T.prior
             /\ Turned(o) /\ o \in Orders
  <2>1. ASSUME NEW x \in Left \ {o} PROVE Before(T.pass, Place(o, None), Place(x, None))
    <3>1. Before(T.pass, Place(o, Since), Place(x, Since))
      BY <1>4 DEF Page, T
    <3> QED BY <1>3, <3>1, Places
  <2>2. T'.next = Place(o, Since) =>
          T'.next.at = list[o].at /\ T'.next.id = o /\ T'.next.since = Since
    BY DEF Place
  <2> HIDE DEF Left, Since
  <2> QED BY <1>3, <1>4, <2>1, <2>2, PageEffect DEF Turned, T
<1>5. ASSUME NEW s \in Steps, Step(Cron, s)
      PROVE  /\ T'.step = s /\ T'.pass = T.pass /\ T'.cursor = T.cursor /\ T'.prior = T.prior
             /\ T'.page = T.page /\ T'.next = T.next /\ T'.seen = T.seen
  BY <1>3, <1>5, StepEffect DEF T
<1> QED BY <1>1, <1>2, <1>3, <1>4, <1>5 DEF Steps, Passes

\* What a write does to the run, the rows and the state of its pass.
LEMMA WriteEffect ==
  ASSUME TypeOK, Write(Cron)
  PROVE  /\ T.step = "write"
         /\ mirror' \in {mirror, Upserted(T)} /\ sync' \in {sync, Checkpoint(T)}
         /\ sync' = Checkpoint(T) => sync' = sync \/ mirror' = Upserted(T)
         /\ \/ /\ sync' = Checkpoint(T) /\ T' = Idle
               /\ T.next = NoCursor => T.pass = "live"
            \/ /\ T'.step = "fail" /\ T'.pass = T.pass /\ T'.cursor = T.cursor
               /\ T'.prior = T.prior /\ T'.page = T.page /\ T'.next = T.next /\ T'.seen = T.seen
               /\ sync' = sync
            \/ /\ T'.step \in {"commit", "fetch", "fail"}
               /\ T'.step = "commit" => T.next = NoCursor /\ T.pass = "sweep"
               /\ T'.step = "fetch" => T.next # NoCursor
               /\ T'.step # "fail" => sync' = Checkpoint(T)
               /\ T'.pass = T.pass /\ T'.cursor = T.next /\ T'.prior = T.prior
               /\ T'.page = {} /\ T'.next = NoCursor /\ T'.seen = T.seen
               /\ mirror' = Upserted(T)
         /\ owed' = IF T.pass = "live" /\ mirror' = Upserted(T)
                    THEN owed \ {x.id : x \in T.page} ELSE owed
         /\ UNCHANGED <<mx, watermark, reconcile, unlisted, excused>>
<1>1. Cron \in Runs
  BY DEF Runs
<1>2. T.pass \in Passes
  BY <1>1, RunTyped DEF T
<1>3. ASSUME NEW s \in Steps, runs' = [runs EXCEPT ![Cron] = Past(T, s)]
      PROVE  /\ T'.step = s /\ T'.pass = T.pass /\ T'.cursor = T.next /\ T'.prior = T.prior
             /\ T'.page = {} /\ T'.next = NoCursor /\ T'.seen = T.seen
  BY <1>1, <1>3, PastEffect DEF T
<1>4. ASSUME Step(Cron, "fail")
      PROVE  /\ T'.step = "fail" /\ T'.pass = T.pass /\ T'.cursor = T.cursor
             /\ T'.prior = T.prior /\ T'.page = T.page /\ T'.next = T.next /\ T'.seen = T.seen
  BY <1>1, <1>4, StepEffect DEF T, Steps
<1>5. ASSUME End(Cron) PROVE T' = Idle
  BY <1>1, <1>5, EndEffect DEF T
<1>6. /\ T.step = "write"
      /\ owed' = IF T.pass = "live" /\ mirror' = Upserted(T)
                 THEN owed \ {x.id : x \in T.page} ELSE owed
      /\ UNCHANGED <<mx, watermark, reconcile, unlisted, excused>>
      /\ \/ /\ mirror' = Upserted(T) /\ sync' = Checkpoint(T)
            /\ \/ /\ T.next = NoCursor /\ T.pass = "sweep"
                  /\ runs' = [runs EXCEPT ![Cron] = Past(T, "commit")]
               \/ (T.next = NoCursor => T.pass # "sweep") /\ End(Cron)
               \/ T.next # NoCursor /\ runs' = [runs EXCEPT ![Cron] = Past(T, "fetch")]
         \/ mirror' \in {mirror, Upserted(T)} /\ sync' = sync /\ Step(Cron, "fail")
         \/ /\ mirror' = Upserted(T) /\ sync' \in {sync, Checkpoint(T)}
            /\ runs' = [runs EXCEPT ![Cron] = Past(T, "fail")]
  BY DEF Write, T
<1> HIDE DEF T
<1> QED BY <1>2, <1>3, <1>4, <1>5, <1>6 DEF Steps, Passes

LEMMA EndsEffect ==
  ASSUME TypeOK, End(Cron)
  PROVE  T' = Idle
BY EndEffect DEF T, Runs

-----------------------------------------------------------------------------
\* The instants.

LEMMA InitClock == Init => ClockInv
<1> SUFFICES ASSUME Init PROVE ClockInv
  OBVIOUS
<1>1. Cron \in Runs /\ T = Idle
  BY DEF Init, Runs, T
<1> QED BY <1>1, IdleTyped, Constants DEF Init, ClockInv, NoCursor, None

\* A step of the cron that leaves the rows where they are.
LEMMA ClockQuiet ==
  ASSUME TypeOK, ClockInv, UNCHANGED <<mx, mirror, watermark>>,
         \A p \in Passes : sync'[p].cursor.at <= now,
         T'.cursor.at <= now, T'.next.at <= now, T'.seen <= now
  PROVE  ClockInv'
BY DEF ClockInv, mx

LEMMA IdleClock ==
  ASSUME TypeOK
  PROVE  Idle.cursor.at <= now /\ Idle.next.at <= now /\ Idle.seen <= now
BY IdleTyped, CursorTyped, Numbers DEF NoCursor

LEMMA ClockFetch == TypeOK /\ ClockInv /\ Fetch(Cron) => ClockInv'
<1> SUFFICES ASSUME TypeOK, ClockInv, Fetch(Cron) PROVE ClockInv'
  OBVIOUS
<1>1. /\ UNCHANGED <<mx, mirror, sync, watermark>> /\ T'.cursor = T.cursor
      /\ \/ \E o \in Orders : Turned(o)
         \/ T'.next = T.next /\ T'.seen = T.seen
  BY FetchEffect
<1>2. ASSUME NEW o \in Orders, Turned(o) PROVE T'.next.at <= now /\ T'.seen <= now
  <2>1. list[o].at <= now /\ list[o].at \in Nat
    BY Numbers DEF ClockInv
  <2>2. T'.next = NoCursor \/ T'.next.at = list[o].at
    BY <1>2 DEF Turned
  <2>3. T'.seen \in {T.seen, list[o].at}
    BY <1>2 DEF Turned
  <2> QED BY <2>1, <2>2, <2>3, Numbers DEF ClockInv, NoCursor
<1> QED BY <1>1, <1>2, ClockQuiet DEF ClockInv

LEMMA ClockWrite == TypeOK /\ ClockInv /\ PageInv /\ Write(Cron) => ClockInv'
<1> SUFFICES ASSUME TypeOK, ClockInv, PageInv, Write(Cron) PROVE ClockInv'
  OBVIOUS
<1>1. Cron \in Runs /\ T.pass \in Passes
  BY RunTyped, Numbers DEF T
<1>2. /\ UNCHANGED <<mx, watermark>> /\ mirror' \in {mirror, Upserted(T)}
      /\ sync' \in {sync, Checkpoint(T)}
  BY WriteEffect
<1>3. \A o \in Orders : Upserted(T)[o].at <= list[o].at
  BY <1>1, UpsertedTyped DEF PageInv, ClockInv, T
<1>4. \A p \in Passes : Checkpoint(T)[p].cursor.at <= now
  BY <1>1, CheckpointTyped DEF ClockInv, T
<1>5. T'.cursor.at <= now /\ T'.next.at <= now /\ T'.seen <= now
  BY WriteEffect, IdleClock, IdleTyped DEF ClockInv
<1> QED BY <1>2, <1>3, <1>4, <1>5 DEF ClockInv, mx

LEMMA NextClock ==
  ASSUME TypeOK, ClockInv, PageInv, Kicks = {}, [Next]_vars
  PROVE  ClockInv'
<1>1. ASSUME NEW o \in Orders, Change(o) PROVE ClockInv'
  <2>1. /\ now' = now + 1 /\ up'[o].at = now'
        /\ \A p \in Orders \ {o} : up'[p] = up[p] /\ list'[p] = list[p]
        /\ list'[o] \in {list[o], up'[o]}
    BY <1>1, ChangeTyped
  <2>2. UNCHANGED <<mirror, sync, watermark, runs>>
    BY <1>1 DEF Change
  <2>3. ASSUME NEW p \in Orders
        PROVE  /\ mirror'[p].at <= list'[p].at /\ list'[p].at <= up'[p].at /\ up'[p].at <= now'
               /\ list'[p].at = up'[p].at => list'[p] = up'[p]
    BY <2>1, <2>2, Numbers DEF ClockInv
  <2>4. /\ watermark' <= now' /\ \A p \in Passes : sync'[p].cursor.at <= now'
        /\ T'.cursor.at <= now' /\ T'.next.at <= now' /\ T'.seen <= now'
    BY <2>1, <2>2, Numbers DEF ClockInv, T, None
  <2> QED BY <2>3, <2>4 DEF ClockInv
<1>2. ASSUME NEW o \in Orders, Show(o) PROVE ClockInv'
  <2>1. UNCHANGED <<now, up, mirror, sync, watermark, runs>>
    BY <1>2 DEF Show
  <2>2. list'[o] = up[o] /\ \A p \in Orders \ {o} : list'[p] = list[p]
    BY <1>2 DEF Show, TypeOK
  <2>3. ASSUME NEW p \in Orders
        PROVE  /\ mirror'[p].at <= list'[p].at /\ list'[p].at <= up'[p].at
               /\ list'[p].at = up'[p].at => list'[p] = up'[p]
    BY <2>1, <2>2, Numbers DEF ClockInv
  <2> QED BY <2>1, <2>3 DEF ClockInv, T
<1>3. ASSUME Start(Cron) PROVE ClockInv'
  <2>1. Current \in Passes /\ Cron \in Runs
    BY DEF Current, Passes, Runs
  <2>2. T'.cursor = sync[Current].cursor /\ T'.next = NoCursor /\ T'.seen = None
    BY <1>3, <2>1, StartEffect DEF T
  <2>3. UNCHANGED <<mx, mirror, watermark, sync>>
    BY <1>3 DEF Start
  <2>4. NoCursor.at <= now /\ None <= now
    BY Numbers DEF NoCursor
  <2> QED BY <2>1, <2>2, <2>3, <2>4, ClockQuiet DEF ClockInv
<1>4. ASSUME Commit(Cron) PROVE ClockInv'
  <2>1. T' = Idle /\ UNCHANGED <<mx, mirror, sync>>
    BY <1>4, EndsEffect DEF Commit
  <2>2. watermark' <= now
    BY <1>4 DEF Commit, Observed, ClockInv, T
  <2> QED BY <2>1, <2>2, IdleClock DEF ClockInv, mx
<1>5. ASSUME Fail(Cron) \/ Evict(Cron) PROVE ClockInv'
  <2>1. T' = Idle /\ UNCHANGED <<mx, mirror, watermark>>
    BY <1>5, EndsEffect DEF Fail, Evict
  <2>2. sync' \in {sync, [sync EXCEPT ![T.pass].cursor = T.cursor]}
    BY <1>5 DEF Fail, Evict, ResumeAt, T
  <2>3. \A p \in Passes : sync'[p].cursor.at <= now
    BY <2>2 DEF ClockInv, TypeOK
  <2> QED BY <2>1, <2>3, IdleClock, ClockQuiet
<1>6. ASSUME ReArm \/ ReadLive \/ UNCHANGED vars PROVE ClockInv'
  <2>1. UNCHANGED <<mx, mirror, watermark, runs>>
    BY <1>6 DEF ReArm, ReadLive, vars
  <2>2. \A p \in Passes : sync'[p].cursor \in {sync[p].cursor, NoCursor}
    BY <1>6 DEF ReArm, ReadLive, vars, TypeOK
  <2>3. NoCursor.at <= now
    BY Numbers DEF NoCursor
  <2> QED BY <2>1, <2>2, <2>3, ClockQuiet DEF ClockInv, T
<1> QED BY <1>1, <1>2, <1>3, <1>4, <1>5, <1>6, OneRun, ClockFetch, ClockWrite DEF Next, Ingest

-----------------------------------------------------------------------------
\* The page.

LEMMA PageEnds == T'.page = {} /\ T'.next = NoCursor => PageInv'
BY DEF PageInv

\* The list shows another version of a work order: the mirror does not have it.
LEMMA PageShows ==
  ASSUME TypeOK, ClockInv, PageInv, NEW o \in Orders, UNCHANGED <<mirror, runs>>,
         list'[o] = list[o] \/ list[o].at < list'[o].at,
         list'[o].at \in Nat,
         \A p \in Orders \ {o} : list'[p] = list[p]
  PROVE  PageInv'
<1>1. T' = T
  BY DEF T
<1>2. ASSUME NEW x \in T.page
      PROVE  /\ x.row.at <= list'[x.id].at
             /\ x.row # list'[x.id] => mirror[x.id] # list'[x.id]
  <2>1. x.id \in Orders /\ x.row.at \in Nat
    BY RunTyped, Numbers, Constants DEF T, Rows
  <2>2. CASE list'[x.id] = list[x.id]
    BY <2>2 DEF PageInv
  <2>3. CASE x.id = o /\ list[o].at < list'[o].at
    BY <2>1, <2>3, Numbers DEF PageInv, ClockInv
  <2> QED BY <2>1, <2>2, <2>3
<1> QED BY <1>1, <1>2 DEF PageInv

LEMMA InitPage == Init => PageInv
<1> SUFFICES ASSUME Init PROVE PageInv
  OBVIOUS
<1>1. T = Idle
  BY DEF Init, Runs, T
<1> QED BY <1>1, IdleTyped DEF PageInv

LEMMA NextPage ==
  ASSUME TypeOK, ClockInv, PageInv, Kicks = {}, [Next]_vars
  PROVE  PageInv'
<1>1. ASSUME NEW o \in Orders, Change(o) PROVE PageInv'
  <2>1. UNCHANGED <<mirror, runs>>
    BY <1>1 DEF Change
  <2>2. list'[o] = list[o] \/ list[o].at < list'[o].at
    BY <1>1, ChangeTyped, Numbers DEF ClockInv
  <2>3. list'[o].at \in Nat /\ \A p \in Orders \ {o} : list'[p] = list[p]
    BY <1>1, ChangeTyped, Constants DEF Rows
  <2> QED BY <2>1, <2>2, <2>3, PageShows
<1>2. ASSUME NEW o \in Orders, Show(o) PROVE PageInv'
  <2>1. list'[o] = up[o] /\ list[o] # up[o] /\ \A p \in Orders \ {o} : list'[p] = list[p]
    BY <1>2 DEF Show, TypeOK
  <2>2. list[o].at < up[o].at /\ up[o].at \in Nat
    BY <2>1, Numbers DEF ClockInv
  <2>3. UNCHANGED <<mirror, runs>>
    BY <1>2 DEF Show
  <2> QED BY <2>1, <2>2, <2>3, PageShows
<1>3. ASSUME Start(Cron) PROVE PageInv'
  BY <1>3, StartEffect, PageEnds DEF T, Runs
<1>4. ASSUME Fetch(Cron) PROVE PageInv'
  <2>1. UNCHANGED <<list, mirror>>
    BY <1>4, FetchEffect DEF mx
  <2>2. ASSUME NEW o \in Orders, Turned(o) PROVE PageInv'
    BY <2>1, <2>2, Numbers DEF Turned, PageInv
  <2>3. CASE T'.step \in {"write", "fail"} /\ T'.page = T.page
    BY <2>1, <2>3 DEF PageInv
  <2> QED BY <1>4, <2>2, <2>3, FetchEffect
<1>5. ASSUME Write(Cron) PROVE PageInv'
  <2>1. CASE T'.step = "fail" /\ T'.page = T.page
    <3>1. UNCHANGED list /\ mirror' \in {mirror, Upserted(T)}
      BY <1>5, WriteEffect DEF mx
    <3>2. \A x \in T.page : x.id \in Orders /\ Upserted(T)[x.id] \in {x.row, mirror[x.id]}
      BY RunTyped, UpsertedTyped, Numbers DEF T, PageInv
    <3> QED BY <2>1, <3>1, <3>2 DEF PageInv
  <2>2. CASE T' = Idle
    BY <2>2, IdleTyped, PageEnds
  <2>3. CASE T'.page = {} /\ T'.next = NoCursor
    BY <2>3, PageEnds
  <2> QED BY <1>5, <2>1, <2>2, <2>3, WriteEffect
<1>6. ASSUME Commit(Cron) \/ Fail(Cron) \/ Evict(Cron) PROVE PageInv'
  BY <1>6, EndsEffect, IdleTyped, PageEnds DEF Commit, Fail, Evict
<1>7. ASSUME ReArm \/ ReadLive \/ UNCHANGED vars PROVE PageInv'
  BY <1>7 DEF ReArm, ReadLive, vars, mx, PageInv, T
<1> QED BY <1>1, <1>2, <1>3, <1>4, <1>5, <1>6, <1>7, OneRun DEF Next, Ingest

-----------------------------------------------------------------------------
\* The cursors.

LEMMA InitSince == Init => SinceInv
<1> SUFFICES ASSUME Init PROVE SinceInv
  OBVIOUS
<1>1. T = Idle /\ sync["sweep"].cursor = NoCursor
  BY DEF Init, Runs, T, Passes
<1> QED BY <1>1, IdleTyped DEF SinceInv, Sweeping

\* What the sweep has seen is not ahead of what is left for it.
LEMMA LeftIsAhead ==
  ASSUME TypeOK, SinceInv, Sweeping, T.step = "fetch", NEW o \in Left
  PROVE  o \in Orders /\ T.seen <= list[o].at
<1>1. o \in Orders /\ ~Passed(T.cursor, o)
  BY SweepLeft
<1>2. T.seen <= T.cursor.at
  BY DEF SinceInv
<1>3. T.cursor = NoCursor \/ T.cursor.at <= list[o].at
  BY <1>1, Numbers DEF Passed, Before, Place
<1> QED BY <1>1, <1>2, <1>3, Numbers DEF NoCursor

LEMMA SinceFetch == TypeOK /\ PageInv /\ SinceInv /\ Fetch(Cron) => SinceInv'
<1> SUFFICES ASSUME TypeOK, PageInv, SinceInv, Fetch(Cron) PROVE SinceInv'
  OBVIOUS
<1>1. /\ UNCHANGED <<sync, watermark>> /\ T.step = "fetch" /\ T'.step \in {"write", "fail"}
      /\ T'.pass = T.pass /\ T'.cursor = T.cursor /\ T'.prior = T.prior
  BY FetchEffect DEF Turned
<1>2. ASSUME Sweeping, NEW o \in Orders, Turned(o), T'.next # NoCursor
      PROVE  T'.next.since = watermark - Overlap /\ T'.seen <= T'.next.at
  <2>1. o \in Left /\ Left # {o}
    BY <1>2 DEF Turned
  <2>2. T'.next.since = Since /\ T'.next.at = list[o].at
        /\ T'.seen = IF list[o].at > T.seen THEN list[o].at ELSE T.seen
    BY <1>2, <2>1 DEF Turned
  <2>3. T.seen <= list[o].at
    BY <1>1, <1>2, <2>1, LeftIsAhead
  <2> QED BY <1>2, <2>2, <2>3, Numbers, SweepSince
<1>3. ASSUME Sweeping PROVE /\ T'.next # NoCursor => T'.next.since = watermark - Overlap
                            /\ T'.step = "write" /\ T'.next # NoCursor => T'.seen <= T'.next.at
  <2>1. CASE \E o \in Orders : Turned(o)
    BY <1>2, <1>3, <2>1
  <2>2. CASE T'.next = T.next
    BY <1>1, <2>2 DEF PageInv
  <2>3. (\E o \in Orders : Turned(o)) \/ T'.next = T.next
    BY FetchEffect
  <2> QED BY <2>1, <2>2, <2>3
<1> QED BY <1>1, <1>3 DEF SinceInv, Sweeping

LEMMA SinceWrite == TypeOK /\ SinceInv /\ Write(Cron) => SinceInv'
<1> SUFFICES ASSUME TypeOK, SinceInv, Write(Cron) PROVE SinceInv'
  OBVIOUS
<1>1. /\ T.step = "write" /\ watermark' = watermark
      /\ sync' \in {sync, Checkpoint(T)}
      /\ T' = Idle \/ (T'.pass = T.pass /\ T'.prior = T.prior)
  BY WriteEffect
<1>2. /\ T.pass = "sweep" => Checkpoint(T)["sweep"].cursor = T.next
      /\ T.pass # "sweep" => Checkpoint(T)["sweep"] = sync["sweep"]
  BY CheckpointTyped, Numbers DEF T, Passes
<1>3. sync'["sweep"].cursor # NoCursor => sync'["sweep"].cursor.since = watermark - Overlap
  BY <1>1, <1>2 DEF SinceInv, Sweeping
<1>4. CASE T' = Idle
  BY <1>1, <1>3, <1>4, IdleTyped DEF SinceInv, Sweeping
<1>5. CASE T'.step = "fail" /\ T'.pass = T.pass /\ T'.cursor = T.cursor /\ T'.prior = T.prior
           /\ T'.next = T.next
  BY <1>1, <1>3, <1>5 DEF SinceInv, Sweeping
<1>6. CASE /\ T'.step \in {"commit", "fetch", "fail"}
           /\ T'.step = "commit" => T.next = NoCursor /\ T.pass = "sweep"
           /\ T'.step = "fetch" => T.next # NoCursor
           /\ T'.step # "fail" => sync' = Checkpoint(T)
           /\ T'.pass = T.pass /\ T'.cursor = T.next /\ T'.prior = T.prior
           /\ T'.next = NoCursor /\ T'.seen = T.seen
  BY <1>1, <1>2, <1>3, <1>6 DEF SinceInv, Sweeping
<1> QED BY <1>4, <1>5, <1>6, WriteEffect

LEMMA NextSince ==
  ASSUME TypeOK, PageInv, SinceInv, Kicks = {}, [Next]_vars
  PROVE  SinceInv'
<1>1. ASSUME NEW o \in Orders, Change(o) \/ Show(o) PROVE SinceInv'
  BY <1>1 DEF Change, Show, SinceInv, Sweeping, T
<1>2. ASSUME Start(Cron) PROVE SinceInv'
  <2>1. Current \in {"live", "sweep"}
    BY DEF Current
  <2>2. /\ T'.step = "fetch" /\ T'.pass = Current /\ T'.cursor = sync[Current].cursor
        /\ T'.prior = IF Current = "sweep" THEN watermark ELSE None
        /\ T'.next = NoCursor /\ T'.seen = None
    BY <1>2, StartEffect DEF T, Runs
  <2>3. UNCHANGED <<sync, watermark>>
    BY <1>2 DEF Start
  <2>4. None <= sync["sweep"].cursor.at
    BY Numbers DEF Passes
  <2> QED BY <2>1, <2>2, <2>3, <2>4 DEF SinceInv, Sweeping
<1>3. ASSUME Commit(Cron) PROVE SinceInv'
  <2>1. T' = Idle /\ sync' = sync /\ T.step = "commit"
    BY <1>3, EndsEffect DEF Commit, T
  <2> QED BY <2>1, IdleTyped DEF SinceInv, Sweeping
<1>4. ASSUME Fail(Cron) \/ Evict(Cron) PROVE SinceInv'
  <2>1. T' = Idle /\ watermark' = watermark /\ T.step # "idle"
    BY <1>4, EndsEffect DEF Fail, Evict, T
  <2>2. sync' \in {sync, [sync EXCEPT ![T.pass].cursor = T.cursor]}
    BY <1>4 DEF Fail, Evict, ResumeAt, T
  <2>3. sync'["sweep"].cursor = sync["sweep"].cursor
        \/ (Sweeping /\ sync'["sweep"].cursor = T.cursor)
    <3>1. T.pass \in Passes /\ sync \in [Passes -> [cursor : Cursors, done : BOOLEAN]]
      BY RunTyped, Numbers DEF TypeOK, T
    <3> HIDE DEF T
    <3> QED BY <2>1, <2>2, <3>1 DEF Passes, Sweeping
  <2> QED BY <2>1, <2>3, IdleTyped DEF SinceInv, Sweeping
<1>5. ASSUME ReArm \/ ReadLive \/ UNCHANGED vars PROVE SinceInv'
  <2>1. UNCHANGED <<watermark, runs>>
    BY <1>5 DEF ReArm, ReadLive, vars
  <2>2. sync'["sweep"] = sync["sweep"]
    BY <1>5 DEF ReArm, ReadLive, vars, TypeOK, Passes
  <2> QED BY <2>1, <2>2 DEF SinceInv, Sweeping, T
<1> QED BY <1>1, <1>2, <1>3, <1>4, <1>5, OneRun, SinceFetch, SinceWrite DEF Next, Ingest

-----------------------------------------------------------------------------
\* What the sweep passes over.

\* A row later than a cursor has not been passed.
LEMMA LaterIsAhead ==
  ASSUME NEW c, NEW o \in Orders, list[o].at > c.at
  PROVE  ~Passed(c, o)
BY DEF Passed, Before, Place

\* The list shows another version of a work order, ahead of the sweep or noted.
LEMMA HoleShows ==
  ASSUME TypeOK, SinceInv, WalkInv, NoHole, NEW o \in Orders,
         UNCHANGED <<mirror, sync, watermark, runs, unlisted, excused>>,
         \A p \in Orders \ {o} : list'[p] = list[p], list'[o].at \in Nat,
         list'[o].at >= watermark - Overlap \/ Version(o, list)' \in excused,
         (\A i \in Reached : list'[o].at > i) \/ Version(o, list)' \in unlisted \cup excused
  PROVE  WalkInv' /\ NoHole'
<1>1. T' = T /\ Sweeping' = Sweeping
  BY DEF T, Sweeping
<1>2. ASSUME NEW p \in Orders, p # o
      PROVE  /\ Good(p)' <=> Good(p)
             /\ Due(p)' <=> Due(p)
             /\ OnPage(p)' <=> OnPage(p)
             /\ Place(p, None)' = Place(p, None)
  BY <1>1, <1>2 DEF Good, Due, OnPage, Version, Place
<1>3. NoHole'
  BY <1>1 DEF NoHole, Version
<1>4. Good(o)' \/ \A i \in Reached : list'[o].at > i
  BY DEF Good
<1>11. list'[o].at \in Nat /\ T.seen \in Nat \cup {None} /\ None = -1
  BY Numbers
<1>5. ASSUME NEW p \in Orders \ {o}, NEW c PROVE Passed(c, p)' <=> Passed(c, p)
  BY DEF Passed, Before, Place
<1>6. ASSUME NEW c, c.at \in Reached, Walked(c)
      PROVE  \A p \in Orders : Due(p)' /\ Passed(c, p)' => Good(p)'
  <2>1. Good(o)' \/ ~Passed(c, o)'
    BY <1>4, <1>6 DEF Passed, Before, Place
  <2> QED BY <1>2, <1>5, <1>6, <2>1 DEF Walked
<1>7. Walked(sync["sweep"].cursor)'
  <2>1. sync["sweep"].cursor.at \in Reached
    BY DEF Reached
  <2> QED BY <1>6, <2>1 DEF WalkInv, Walked
<1>8. ASSUME Sweeping PROVE Walked(T.cursor)'
  <2>1. T.cursor.at \in Reached
    BY <1>8 DEF Reached
  <2> QED BY <1>1, <1>6, <1>8, <2>1 DEF WalkInv, Walked
<1>9. ASSUME Sweeping, T.step = "write", NEW p \in Orders, Due(p)'
      PROVE  \/ Good(p)' \/ OnPage(p)'
             \/ IF T.next = NoCursor THEN list'[p].at >= T.seen ELSE ~Passed(T.next, p)'
  <2>1. CASE p = o
    <3>1. T.next.at \in Reached /\ T.seen \in Reached
      BY <1>9 DEF Reached
    <3>2. Good(o)' \/ (list'[o].at > T.seen /\ list'[o].at > T.next.at)
      BY <1>4, <3>1
    <3>3. list'[o].at > T.seen => list'[o].at >= T.seen
      BY <1>11
    <3>4. list'[o].at > T.next.at => ~Passed(T.next, o)'
      BY <1>1 DEF Passed, Before, Place
    <3> QED BY <2>1, <3>2, <3>3, <3>4
  <2>2. CASE p # o
    <3>1. Passed(T.next, p)' <=> Passed(T.next, p)
      BY <1>1, <1>2, <2>2 DEF Passed, Before
    <3>2. list'[p] = list[p]
      BY <2>2
    <3> QED BY <1>2, <1>9, <2>2, <3>1, <3>2 DEF WalkInv
  <2> QED BY <2>1, <2>2
<1>10. ASSUME T.step = "commit", NEW p \in Orders, Due(p)'
       PROVE  Good(p)' \/ list'[p].at >= T.seen
  <2>1. CASE p = o
    <3>1. T.seen \in Reached
      BY <1>10 DEF Reached, SinceInv, Sweeping
    <3> QED BY <1>4, <1>11, <2>1, <3>1
  <2>2. CASE p # o
    BY <1>2, <1>10, <2>2 DEF WalkInv
  <2> QED BY <2>1, <2>2
<1> QED BY <1>1, <1>3, <1>7, <1>8, <1>9, <1>10 DEF WalkInv

\* The instants the sweep has come to are not ahead of the clock.
LEMMA ReachedPast == TypeOK /\ ClockInv => \A i \in Reached : i <= now /\ i \in Nat \cup {None}
BY Numbers DEF ClockInv, Reached, Passes

LEMMA HoleChange ==
  ASSUME TypeOK, ClockInv, SinceInv, HoleInv, NEW o \in Orders, Change(o)
  PROVE  HoleInv'
<1>1. /\ now' = now + 1 /\ up'[o].at = now'
      /\ \A p \in Orders \ {o} : up'[p] = up[p] /\ list'[p] = list[p]
      /\ list'[o] \in {list[o], up'[o]}
  BY ChangeTyped
<1>2. UNCHANGED <<mirror, sync, watermark, runs, unlisted, excused>>
  BY DEF Change
<1>3. /\ now + 1 \in Nat /\ now + 1 >= watermark - Overlap
      /\ \A i \in Reached : now + 1 > i
  BY ReachedPast, Numbers DEF ClockInv
<1>4. WalkInv' /\ NoHole'
  <2>1. CASE list'[o] = up'[o]
    <3>1. list'[o].at = now + 1
      BY <1>1, <2>1
    <3>2. \A p \in Orders \ {o} : list'[p] = list[p]
      BY <1>1
    <3> QED BY <1>2, <1>3, <3>1, <3>2, HoleShows DEF HoleInv
  <2>2. CASE list'[o] = list[o]
    <3>1. list' = list
      BY <1>1, <2>2, NextType DEF TypeOK, Next
    <3> QED BY <1>2, <3>1
            DEF HoleInv, WalkInv, NoHole, Walked, Good, Due, OnPage, Passed, Place, Version,
            T, Sweeping
  <2> QED BY <1>1, <2>1, <2>2
<1>5. HiddenInv'
  <2>1. Reached' = Reached
    BY <1>2 DEF Reached, Sweeping, T
  <2>2. ASSUME NEW p \in Orders, p # o
        PROVE  Version(p, up)' = Version(p, up) /\ list'[p] = list[p] /\ up'[p] = up[p]
    BY <1>1, <2>2 DEF Version
  <2>3. ASSUME NEW p \in Orders, list'[p] # up'[p], p # o
        PROVE  /\ up'[p].at >= watermark - Overlap \/ Version(p, up)' \in excused
               /\ (\A i \in Reached : up'[p].at > i) \/ Version(p, up)' \in unlisted \cup excused
    BY <2>2, <2>3 DEF HoleInv, HiddenInv
  <2> QED BY <1>1, <1>2, <1>3, <2>1, <2>3 DEF HiddenInv
<1> QED BY <1>4, <1>5 DEF HoleInv

LEMMA HoleShow ==
  ASSUME TypeOK, SinceInv, HoleInv, NEW o \in Orders, Show(o)
  PROVE  HoleInv'
<1>1. list'[o] = up[o] /\ list[o] # up[o] /\ \A p \in Orders \ {o} : list'[p] = list[p]
  BY DEF Show, TypeOK
<1>2. UNCHANGED <<up, mirror, sync, watermark, runs, unlisted, excused>>
  BY DEF Show
<1>3. Version(o, list)' = Version(o, up)
  BY <1>1 DEF Version
<1>4. /\ up[o].at >= watermark - Overlap \/ Version(o, up) \in excused
      /\ (\A i \in Reached : up[o].at > i) \/ Version(o, up) \in unlisted \cup excused
  BY <1>1 DEF HoleInv, HiddenInv
<1>5. WalkInv' /\ NoHole'
  BY <1>1, <1>2, <1>3, <1>4, HoleShows, Numbers DEF HoleInv
<1>6. HiddenInv'
  <2>1. Reached' = Reached
    BY <1>2 DEF Reached, Sweeping, T
  <2>2. \A p \in Orders : Version(p, up)' = Version(p, up)
    BY <1>2 DEF Version
  <2> QED BY <1>1, <1>2, <2>1, <2>2 DEF HoleInv, HiddenInv
<1> QED BY <1>5, <1>6 DEF HoleInv

\* A step that moves the run and keeps what it knows of the rows.
LEMMA HoleQuiet ==
  ASSUME TypeOK, HoleInv, UNCHANGED <<up, list, mirror, watermark, excused>>,
         unlisted \subseteq unlisted', Reached' \subseteq Reached \cup {None},
         Walked(sync'["sweep"].cursor), Sweeping' => Walked(T'.cursor),
         T'.step \notin {"write", "commit"}
  PROVE  HoleInv'
<1>1. \A o \in Orders : Version(o, up)' = Version(o, up) /\ Version(o, list)' = Version(o, list)
  BY DEF Version
<1>2. \A o \in Orders : (Due(o)' <=> Due(o)) /\ (Good(o) => Good(o)')
  BY <1>1 DEF Due, Good
<1>3. ASSUME NEW o \in Orders, NEW c PROVE Passed(c, o)' <=> Passed(c, o)
  BY DEF Passed, Place
<1>4. Walked(sync["sweep"].cursor)' /\ (Sweeping' => Walked(T.cursor)')
  BY <1>2, <1>3 DEF Walked
<1>5. NoHole'
  BY <1>1 DEF HoleInv, NoHole
<1>6. HiddenInv'
  <2>1. \A o \in Orders : up[o].at \in Nat /\ up[o].at > None
    BY Numbers
  <2> QED BY <1>1, <2>1 DEF HoleInv, HiddenInv
<1> QED BY <1>4, <1>5, <1>6 DEF HoleInv, WalkInv

LEMMA HoleIdle ==
  ASSUME TypeOK, HoleInv, UNCHANGED <<up, list, mirror, watermark, unlisted, excused>>,
         T' = Idle,
         \/ sync'["sweep"].cursor = sync["sweep"].cursor
         \/ Sweeping /\ sync'["sweep"].cursor = T.cursor
  PROVE  HoleInv'
<1>1. ~Sweeping' /\ T'.step \notin {"write", "commit"}
  BY IdleTyped DEF Sweeping
<1>2. Reached' \subseteq Reached
  BY <1>1 DEF Reached
<1>3. Walked(sync'["sweep"].cursor)
  BY DEF HoleInv, WalkInv
<1> QED BY <1>1, <1>2, <1>3, HoleQuiet

LEMMA HoleStart == TypeOK /\ HoleInv /\ Start(Cron) => HoleInv'
<1> SUFFICES ASSUME TypeOK, HoleInv, Start(Cron) PROVE HoleInv'
  OBVIOUS
<1>1. Current \in {"live", "sweep"}
  BY DEF Current
<1>2. /\ T'.step = "fetch" /\ T'.pass = Current /\ T'.cursor = sync[Current].cursor
      /\ T'.next = NoCursor /\ T'.seen = None
  BY StartEffect DEF T, Runs
<1>3. UNCHANGED <<up, list, mirror, sync, watermark, unlisted, excused>>
  BY DEF Start, mx
<1>4. Sweeping' => T'.cursor = sync["sweep"].cursor
  BY <1>1, <1>2 DEF Sweeping
<1>5. Walked(sync'["sweep"].cursor) /\ (Sweeping' => Walked(T'.cursor))
  BY <1>3, <1>4 DEF HoleInv, WalkInv
<1>6. Reached' \subseteq Reached \cup {None}
  BY <1>2, <1>3, <1>4 DEF Reached, NoCursor
<1> QED BY <1>2, <1>3, <1>5, <1>6, HoleQuiet

LEMMA HoleFetch ==
  ASSUME TypeOK, PageInv, SinceInv, HoleInv, Fetch(Cron)
  PROVE  HoleInv'
<1>1. /\ T.step = "fetch" /\ T'.step \in {"write", "fail"}
      /\ T'.pass = T.pass /\ T'.cursor = T.cursor
      /\ UNCHANGED <<up, list, mirror, sync, watermark, excused>>
      /\ unlisted' = IF T.pass = "sweep"
           THEN unlisted \cup {Version(o, up) : o \in {x \in Orders : list[x] # up[x]}}
           ELSE unlisted
  BY FetchEffect DEF Turned, mx
<1>2. Sweeping' = Sweeping /\ (Sweeping <=> T.pass = "sweep")
  BY <1>1 DEF Sweeping
<1>3. \A o \in Orders : Version(o, up)' = Version(o, up) /\ Version(o, list)' = Version(o, list)
  BY <1>1 DEF Version
<1>4. \A o \in Orders : (Due(o)' <=> Due(o)) /\ (Good(o) => Good(o)')
  BY <1>1, <1>3 DEF Due, Good
<1>5. ASSUME NEW o \in Orders, NEW c PROVE Passed(c, o)' <=> Passed(c, o)
  BY <1>1 DEF Passed, Place
<1>6. Walked(sync["sweep"].cursor)' /\ (Sweeping => Walked(T.cursor)')
  BY <1>1, <1>4, <1>5 DEF HoleInv, WalkInv, Walked
<1>7. NoHole'
  BY <1>1, <1>3 DEF HoleInv, NoHole
<1>8. HiddenInv'
  <2>1. CASE Sweeping
    BY <1>1, <1>2, <1>3, <2>1 DEF HoleInv, HiddenInv
  <2>2. CASE ~Sweeping
    <3>1. Reached' = Reached
      BY <1>1, <1>2, <2>2 DEF Reached
    <3> QED BY <1>1, <1>2, <1>3, <2>2, <3>1 DEF HoleInv, HiddenInv
  <2> QED BY <2>1, <2>2
<1>9. ASSUME Sweeping, T'.step = "write", NEW p \in Orders, Due(p)
      PROVE  \/ Good(p) \/ OnPage(p)'
             \/ IF T'.next = NoCursor THEN list[p].at >= T'.seen ELSE ~Passed(T'.next, p)
  <2>1. CASE Passed(T.cursor, p)
    BY <1>9, <2>1 DEF HoleInv, WalkInv, Walked
  <2>2. CASE ~Passed(T.cursor, p)
    <3>1. p \in Left
      BY <1>9, <2>2, SweepLeft
    <3>2. ASSUME NEW o \in Orders, Turned(o), p # o PROVE ~Passed(T'.next, p)
      <4>1. Left # {o} /\ Before("sweep", Place(o, None), Place(p, None))
        BY <1>9, <3>1, <3>2 DEF Turned, Sweeping
      <4>2. T'.next.at = list[o].at /\ T'.next.id = o
        BY <3>2, <4>1 DEF Turned
      <4> QED BY <4>1, <4>2 DEF Passed, Before, Place
    <3>3. ASSUME Turned(p) PROVE OnPage(p)'
      BY <1>1, <3>3 DEF Turned, OnPage
    <3>4. ASSUME NEW o \in Orders, Turned(o), p # o PROVE T'.next # NoCursor
      BY <3>1, <3>4 DEF Turned
    <3>5. ASSUME T'.next = T.next, T'.seen = T.seen
          PROVE  T'.next = NoCursor /\ list[p].at >= T'.seen
      BY <1>1, <1>9, <3>1, <3>5, LeftIsAhead, Numbers DEF PageInv
    <3> QED BY <3>2, <3>3, <3>4, <3>5, FetchEffect
  <2> QED BY <2>1, <2>2
<1>10. ASSUME Sweeping, T'.step = "write", NEW p \in Orders, Due(p)'
       PROVE  \/ Good(p)' \/ OnPage(p)'
              \/ IF T'.next = NoCursor THEN list'[p].at >= T'.seen ELSE ~Passed(T.next, p)'
  <2>1. ~Passed(T'.next, p) => ~Passed(T.next, p)'
    BY <1>5
  <2> QED BY <1>1, <1>4, <1>9, <1>10, <2>1
<1> QED BY <1>1, <1>2, <1>6, <1>7, <1>8, <1>10 DEF HoleInv, WalkInv

\* What is written was on the page, and the mirror has it then.
LEMMA WriteKeeps ==
  ASSUME TypeOK, PageInv, Write(Cron), NEW o \in Orders
  PROVE  /\ Good(o) => Good(o)'
         /\ OnPage(o) /\ mirror' = Upserted(T) => Good(o)'
         /\ mirror[o] = list[o] => mirror'[o] = list'[o]
         /\ Version(o, list)' = Version(o, list) /\ Version(o, up)' = Version(o, up)
<1>1. mirror' \in {mirror, Upserted(T)} /\ UNCHANGED <<up, list, unlisted, excused>>
  BY WriteEffect DEF mx
<1>2. \/ Upserted(T)[o] = mirror[o] /\ \A x \in T.page : x.id # o
      \/ \E x \in T.page : x.id = o /\ Upserted(T)[o] = x.row
  BY UpsertedTyped, Numbers DEF T
<1>3. mirror[o] = list[o] => Upserted(T)[o] = list[o]
  BY <1>2 DEF PageInv
<1>4. OnPage(o) => Upserted(T)[o] = list[o]
  BY <1>2 DEF OnPage, PageInv
<1> QED BY <1>1, <1>3, <1>4 DEF Good, Version

LEMMA HoleWrite ==
  ASSUME TypeOK, PageInv, SinceInv, HoleInv, Write(Cron)
  PROVE  HoleInv'
<1>1. /\ T.step = "write" /\ mirror' \in {mirror, Upserted(T)} /\ sync' \in {sync, Checkpoint(T)}
      /\ sync' = Checkpoint(T) => sync' = sync \/ mirror' = Upserted(T)
      /\ UNCHANGED <<up, list, watermark, unlisted, excused>>
  BY WriteEffect DEF mx
<1>2. \/ T' = Idle
      \/ /\ T'.step = "fail" /\ T'.pass = T.pass /\ T'.cursor = T.cursor
         /\ T'.next = T.next /\ T'.seen = T.seen
      \/ /\ T'.step \in {"commit", "fetch", "fail"}
         /\ T'.step = "commit" => T.next = NoCursor /\ T.pass = "sweep"
         /\ T'.pass = T.pass /\ T'.cursor = T.next
         /\ T'.next = NoCursor /\ T'.seen = T.seen
         /\ mirror' = Upserted(T)
  BY WriteEffect
<1>3. /\ T.pass = "sweep" => Checkpoint(T)["sweep"].cursor = T.next
      /\ T.pass # "sweep" => Checkpoint(T)["sweep"] = sync["sweep"]
  BY CheckpointTyped, Numbers DEF T, Passes
<1>4. \A o \in Orders : (Due(o)' <=> Due(o)) /\ (Good(o) => Good(o)')
  BY <1>1, WriteKeeps DEF Due
<1>5. ASSUME NEW o \in Orders, NEW c PROVE Passed(c, o)' <=> Passed(c, o)
  BY <1>1 DEF Passed, Place
<1>6. ASSUME NEW c, Walked(c) PROVE Walked(c)'
  BY <1>4, <1>5, <1>6 DEF Walked
<1>7. Sweeping <=> T.pass = "sweep"
  BY <1>1 DEF Sweeping
<1>8. ASSUME mirror' = Upserted(T), Sweeping, NEW o \in Orders, Due(o)
      PROVE  \/ Good(o)'
             \/ IF T.next = NoCursor THEN list[o].at >= T.seen ELSE ~Passed(T.next, o)
  BY <1>1, <1>8, WriteKeeps DEF HoleInv, WalkInv
<1>9. ASSUME mirror' = Upserted(T), Sweeping, NEW c, c = T.next PROVE Walked(c)'
  <2>1. ASSUME NEW o \in Orders, Due(o), Passed(c, o) PROVE Good(o)'
    BY <1>8, <1>9, <2>1 DEF Passed
  <2> QED BY <1>4, <1>5, <2>1 DEF Walked
<1>10. Walked(sync["sweep"].cursor)'
  <2>1. Walked(sync["sweep"].cursor)
    BY DEF HoleInv, WalkInv
  <2>2. CASE sync'["sweep"].cursor = sync["sweep"].cursor
    BY <1>6, <2>1, <2>2
  <2>3. CASE Sweeping /\ sync'["sweep"].cursor = T.next /\ mirror' = Upserted(T)
    BY <1>9, <2>3
  <2> QED BY <1>1, <1>3, <1>7, <2>2, <2>3
<1>11. ASSUME Sweeping' PROVE Sweeping /\ Walked(T.cursor)'
  <2>1. Sweeping
    BY <1>2, <1>7, <1>11, IdleTyped DEF Sweeping
  <2>2. Walked(T.cursor)
    BY <2>1 DEF HoleInv, WalkInv
  <2>3. ASSUME NEW c, c = T.cursor PROVE Walked(c)'
    BY <1>6, <2>2, <2>3
  <2>4. CASE T'.cursor = T.next /\ mirror' = Upserted(T)
    BY <1>9, <2>1, <2>4
  <2>5. T'.cursor = T.cursor => Walked(T.cursor)'
    BY <2>3
  <2> QED BY <1>2, <1>11, <2>1, <2>4, <2>5, IdleTyped DEF Sweeping
<1>12. ASSUME T'.step = "commit", NEW o \in Orders, Due(o)'
       PROVE  Good(o)' \/ list'[o].at >= T'.seen
  BY <1>1, <1>2, <1>4, <1>7, <1>8, <1>12, IdleTyped
<1>13. T'.step # "write"
  BY <1>2, IdleTyped
<1>14. WalkInv'
  BY <1>10, <1>11, <1>12, <1>13 DEF WalkInv
<1>15. NoHole'
  BY <1>1, WriteKeeps DEF HoleInv, NoHole
<1>16. Reached' \subseteq Reached \cup {None}
  <2>1. sync'["sweep"].cursor = sync["sweep"].cursor \/ (Sweeping /\ sync'["sweep"].cursor = T.next)
    BY <1>1, <1>3, <1>7
  <2>2. Sweeping' => Sweeping /\ {T'.cursor, T'.next} \subseteq {T.cursor, T.next, NoCursor} /\ T'.seen = T.seen
    BY <1>2, <1>11, IdleTyped DEF Sweeping
  <2> QED BY <2>1, <2>2 DEF Reached, NoCursor
<1>17. HiddenInv'
  <2>1. \A o \in Orders : up[o].at > None
    BY Numbers
  <2> QED BY <1>1, <1>16, <2>1, WriteKeeps DEF HoleInv, HiddenInv
<1> QED BY <1>14, <1>15, <1>17 DEF HoleInv

LEMMA HoleCommit ==
  ASSUME TypeOK, ClockInv, SinceInv, HoleInv, Commit(Cron)
  PROVE  HoleInv'
<1>1. /\ T.step = "commit" /\ T' = Idle /\ unlisted' = {}
      /\ excused' = excused \cup {v \in unlisted : v.at + Overlap < now}
      /\ UNCHANGED <<up, list, mirror, sync>>
  BY EndsEffect DEF Commit, T, mx
<1>2. Sweeping /\ sync["sweep"].cursor = NoCursor /\ T.prior = watermark
  BY <1>1 DEF SinceInv, Sweeping
<1>3. watermark' = watermark \/ (watermark' = T.seen /\ T.seen \in Nat /\ T.seen > watermark)
  <2>1. watermark' = watermark
        \/ (watermark' = T.seen /\ T.seen # None /\ ~(T.prior >= T.seen))
    BY DEF Commit, Observed, Advances, T
  <2> QED BY <1>2, <2>1, Numbers
<1>4. ~Sweeping' /\ T'.step = "idle"
  BY <1>1, IdleTyped DEF Sweeping
<1>5. WalkInv'
  BY <1>1, <1>2, <1>4 DEF WalkInv, Walked, Passed
<1>6. \A o \in Orders : Version(o, up)' = Version(o, up) /\ Version(o, list)' = Version(o, list)
  BY <1>1 DEF Version
<1>7. ASSUME NEW v \in unlisted \cup excused, v.at \in Nat
      PROVE  v.at >= watermark' - Overlap \/ v \in excused'
  <2>1. watermark' <= now
    BY <1>3 DEF ClockInv
  <2> QED BY <1>1, <1>3, <1>7, <2>1, Numbers
<1>8. ASSUME NEW o \in Orders, mirror[o] # list[o]
      PROVE  list[o].at >= watermark' - Overlap \/ Version(o, list) \in excused'
  <2>1. CASE Version(o, list) \in unlisted \cup excused
    BY <1>7, <2>1, Numbers DEF Version
  <2>2. CASE Version(o, list) \notin unlisted \cup excused
    <3>1. Due(o)
      BY <1>8, <2>2 DEF HoleInv, NoHole, Due
    <3>2. list[o].at >= T.seen
      BY <1>1, <1>8, <2>2, <3>1 DEF HoleInv, WalkInv, Good
    <3> QED BY <1>3, <3>1, <3>2, Numbers DEF Due
  <2> QED BY <2>1, <2>2
<1>9. ASSUME NEW o \in Orders, list[o] # up[o]
      PROVE  up[o].at >= watermark' - Overlap \/ Version(o, up) \in excused'
  <2>1. CASE Version(o, up) \in unlisted \cup excused
    BY <1>7, <2>1, Numbers DEF Version
  <2>2. CASE Version(o, up) \notin unlisted \cup excused
    <3>1. T.seen \in Reached
      BY <1>2 DEF Reached
    <3>2. up[o].at > T.seen /\ up[o].at >= watermark - Overlap
      BY <1>9, <2>2, <3>1 DEF HoleInv, HiddenInv
    <3> QED BY <1>3, <3>2, Numbers
  <2> QED BY <2>1, <2>2
<1>10. HiddenInv'
  <2>1. Reached' = {None}
    BY <1>1, <1>2, <1>4 DEF Reached, NoCursor
  <2>2. \A o \in Orders : up[o].at > None
    BY Numbers
  <2> QED BY <1>1, <1>6, <1>9, <2>1, <2>2 DEF HiddenInv
<1>11. NoHole'
  BY <1>1, <1>6, <1>8 DEF NoHole
<1> QED BY <1>5, <1>10, <1>11 DEF HoleInv

LEMMA InitHole == Init => HoleInv
<1> SUFFICES ASSUME Init PROVE HoleInv
  OBVIOUS
<1>1. T = Idle /\ sync["sweep"].cursor = NoCursor
  BY DEF Init, Runs, T, Passes
<1> QED BY <1>1, IdleTyped
        DEF Init, HoleInv, WalkInv, HiddenInv, NoHole, Sweeping, Walked, Passed

LEMMA NextHole ==
  ASSUME TypeOK, ClockInv, PageInv, SinceInv, HoleInv, Kicks = {}, [Next]_vars
  PROVE  HoleInv'
<1>1. ASSUME Fail(Cron) \/ Evict(Cron) PROVE HoleInv'
  <2>1. /\ T' = Idle /\ T.step # "idle"
        /\ UNCHANGED <<up, list, mirror, watermark, unlisted, excused>>
    BY <1>1, EndsEffect DEF Fail, Evict, T, mx, ghosts
  <2>2. sync' \in {sync, [sync EXCEPT ![T.pass].cursor = T.cursor]}
    BY <1>1 DEF Fail, Evict, ResumeAt, T
  <2>3. sync'["sweep"].cursor = sync["sweep"].cursor
        \/ (Sweeping /\ sync'["sweep"].cursor = T.cursor)
    <3>1. T.pass \in Passes /\ sync \in [Passes -> [cursor : Cursors, done : BOOLEAN]]
      BY RunTyped, Numbers DEF TypeOK, T
    <3> HIDE DEF T
    <3> QED BY <2>1, <2>2, <3>1 DEF Passes, Sweeping
  <2> QED BY <2>1, <2>3, HoleIdle
<1>2. ASSUME ReArm \/ ReadLive \/ UNCHANGED vars PROVE HoleInv'
  <2>1. UNCHANGED <<up, list, mirror, watermark, runs, unlisted, excused>>
    BY <1>2 DEF ReArm, ReadLive, vars, mx, ghosts
  <2>2. sync'["sweep"] = sync["sweep"]
    BY <1>2 DEF ReArm, ReadLive, vars, TypeOK, Passes
  <2>3. T' = T
    BY <2>1 DEF T
  <2> QED BY <2>1, <2>2, <2>3
          DEF HoleInv, WalkInv, HiddenInv, NoHole, Sweeping, Walked, Passed, Good, Due, OnPage,
              Place, Version, Reached
<1> QED BY <1>1, <1>2, OneRun, HoleChange, HoleShow, HoleStart, HoleFetch, HoleWrite, HoleCommit
        DEF Next, Ingest

-----------------------------------------------------------------------------
\* What a re-armed live pass owes.

Live == sync["live"]

LEMMA InitOwed == Init => OwedInv
<1> SUFFICES ASSUME Init PROVE OwedInv
  OBVIOUS
<1>1. T = Idle /\ Live = [cursor |-> NoCursor, done |-> TRUE]
  BY DEF Init, Runs, T, Passes, Live
<1> QED BY <1>1, IdleTyped DEF Init, OwedInv, OwedAhead, Walking, Live

\* A work order that changes is owed no longer.
LEMMA OwedMoves ==
  ASSUME TypeOK, OwedInv, NEW o \in Orders, owed' = owed \ {o},
         UNCHANGED <<sync, runs, reconcile>>,
         \A p \in Orders \ {o} : list'[p] = list[p]
  PROVE  OwedInv'
<1>1. T' = T /\ Walking' = Walking
  BY DEF T, Walking
<1>2. \A p \in owed' : p \in owed /\ list'[p] = list[p] /\ Place(p, None)' = Place(p, None)
  BY DEF TypeOK, Place
<1>3. ASSUME NEW c, OwedAhead(c) PROVE \A p \in owed' : c = NoCursor \/ Before("live", c, Place(p, None)')
  BY <1>2, <1>3 DEF OwedAhead
<1>4. OwedAhead(sync["live"].cursor)' /\ (Walking => OwedAhead(T.cursor)')
  BY <1>1, <1>3 DEF OwedInv, OwedAhead
<1>5. ASSUME Walking, T.step = "write", NEW p \in owed'
      PROVE  \/ \E x \in T.page : x.id = p
             \/ T.next # NoCursor /\ Before("live", T.next, Place(p, None)')
  BY <1>2, <1>5 DEF OwedInv
<1>6. (\A p \in owed' : list'[p].open) /\ (owed = {} => owed' = {})
  BY <1>2 DEF OwedInv
<1> QED BY <1>1, <1>4, <1>5, <1>6 DEF OwedInv

\* The run ends where the list and the reconcile are; a failed one leaves its cursor.
LEMMA OwedIdle ==
  ASSUME TypeOK, OwedInv, UNCHANGED <<list, reconcile, owed>>, T' = Idle,
         sync'["live"].done = sync["live"].done,
         \/ sync'["live"].cursor = sync["live"].cursor
         \/ Walking /\ sync'["live"].cursor = T.cursor
  PROVE  OwedInv'
<1>1. ~Walking'
  BY IdleTyped DEF Walking
<1>2. ASSUME NEW c, OwedAhead(c) PROVE OwedAhead(c)'
  BY <1>2 DEF OwedAhead, Place
<1>3. OwedAhead(sync'["live"].cursor)
  BY DEF OwedInv
<1>4. OwedAhead(sync["live"].cursor)'
  BY <1>2, <1>3
<1>5. sync'["live"].done => sync'["live"].cursor = NoCursor
  BY DEF OwedInv
<1> QED BY <1>1, <1>4, <1>5 DEF OwedInv

LEMMA OwedStart == TypeOK /\ OwedInv /\ Start(Cron) => OwedInv'
<1> SUFFICES ASSUME TypeOK, OwedInv, Start(Cron) PROVE OwedInv'
  OBVIOUS
<1>1. UNCHANGED <<list, sync, reconcile, owed>>
  BY DEF Start, mx
<1>2. T'.step = "fetch" /\ T'.pass = Current /\ T'.cursor = sync[Current].cursor
  BY StartEffect DEF T, Runs
<1>3. Walking' => T'.cursor = sync["live"].cursor /\ ~sync["live"].done
  BY <1>2 DEF Walking, Current, Done, OwedInv
<1>4. OwedAhead(sync["live"].cursor)' /\ (Walking' => OwedAhead(T.cursor)')
  BY <1>1, <1>3 DEF OwedInv, OwedAhead, Place
<1> QED BY <1>1, <1>2, <1>3, <1>4 DEF OwedInv

LEMMA OwedFetch == TypeOK /\ OwedInv /\ Fetch(Cron) => OwedInv'
<1> SUFFICES ASSUME TypeOK, OwedInv, Fetch(Cron) PROVE OwedInv'
  OBVIOUS
<1>1. /\ T.step = "fetch" /\ T'.step \in {"write", "fail"}
      /\ T'.pass = T.pass /\ T'.cursor = T.cursor
      /\ UNCHANGED <<list, sync, reconcile, owed>>
  BY FetchEffect DEF Turned, mx
<1>2. Walking' = Walking /\ (Walking <=> T.pass = "live")
  BY <1>1 DEF Walking
<1>3. OwedAhead(sync["live"].cursor)' /\ (Walking => OwedAhead(T.cursor)')
  BY <1>1 DEF OwedInv, OwedAhead, Place
<1>4. Walking => ~sync["live"].done
  BY <1>1 DEF OwedInv
<1>5. ASSUME Walking, T'.step = "write", NEW p \in owed
      PROVE  \/ \E x \in T'.page : x.id = p
             \/ T'.next # NoCursor /\ Before("live", T'.next, Place(p, None))
  <2>1. p \in Left
    BY <1>2, <1>5, LiveLeft DEF OwedInv, OwedAhead, TypeOK
  <2>2. PICK o \in Orders : Turned(o)
    BY <1>2, <1>5, <2>1, FetchEffect
  <2>3. CASE p = o
    BY <2>2, <2>3 DEF Turned
  <2>4. CASE p # o
    <3>1. T'.next # NoCursor /\ T'.next.at = list[o].at /\ T'.next.id = o
      BY <2>1, <2>2, <2>4 DEF Turned
    <3>2. Before("live", Place(o, None), Place(p, None))
      BY <1>2, <1>5, <2>1, <2>2, <2>4 DEF Turned
    <3> QED BY <3>1, <3>2 DEF Before, Place
  <2> QED BY <2>3, <2>4
<1>6. \A p \in Orders : Place(p, None)' = Place(p, None)
  BY <1>1 DEF Place
<1>7. owed \subseteq Orders
  BY DEF TypeOK
<1> QED BY <1>1, <1>2, <1>3, <1>4, <1>5, <1>6, <1>7 DEF OwedInv

LEMMA OwedWrite == TypeOK /\ OwedInv /\ Write(Cron) => OwedInv'
<1> SUFFICES ASSUME TypeOK, OwedInv, Write(Cron) PROVE OwedInv'
  OBVIOUS
<1>1. /\ T.step = "write" /\ sync' \in {sync, Checkpoint(T)}
      /\ sync' = Checkpoint(T) => sync' = sync \/ mirror' = Upserted(T)
      /\ owed' = IF T.pass = "live" /\ mirror' = Upserted(T)
                 THEN owed \ {x.id : x \in T.page} ELSE owed
      /\ UNCHANGED <<list, reconcile>>
  BY WriteEffect DEF mx
<1>2. \/ T' = Idle
      \/ /\ T'.step = "fail" /\ T'.pass = T.pass /\ T'.cursor = T.cursor /\ sync' = sync
      \/ /\ T'.step \in {"commit", "fetch", "fail"}
         /\ T'.step = "commit" => T.next = NoCursor /\ T.pass = "sweep"
         /\ T'.step = "fetch" => T.next # NoCursor
         /\ T'.pass = T.pass /\ T'.cursor = T.next /\ mirror' = Upserted(T)
  BY WriteEffect
<1>3. /\ T.pass = "live" => /\ Checkpoint(T)["live"].cursor = T.next
                            /\ Checkpoint(T)["live"].done = (Live.done \/ T.next = NoCursor)
      /\ T.pass # "live" => Checkpoint(T)["live"] = Live
      /\ T.pass \in {"live", "sweep"}
  BY CheckpointTyped, RunTyped, Numbers DEF T, Passes, Live
<1>4. Walking <=> T.pass = "live"
  BY <1>1 DEF Walking
<1>5. ASSUME NEW c PROVE OwedAhead(c)' <=> \A p \in owed' : c = NoCursor \/ Before("live", c, Place(p, None))
  BY <1>1 DEF OwedAhead, Place
<1>6. owed' \subseteq owed
  BY <1>1
<1>7. ASSUME NEW c, OwedAhead(c) PROVE OwedAhead(c)'
  BY <1>5, <1>6, <1>7 DEF OwedAhead
<1>8. CASE T.pass = "sweep"
  <2>1. sync'["live"] = Live /\ owed' = owed /\ ~Walking'
    BY <1>1, <1>2, <1>3, <1>8, IdleTyped DEF Walking, Live
  <2>2. OwedAhead(sync["live"].cursor)'
    BY <1>7, <2>1 DEF OwedInv, Live
  <2> QED BY <1>1, <2>1, <2>2 DEF OwedInv, Live
<1>9. CASE T.pass = "live"
  <2>1. ~Live.done
    BY <1>1, <1>4, <1>9 DEF OwedInv, Live
  <2>2. ASSUME mirror' = Upserted(T), NEW p \in owed'
        PROVE  T.next # NoCursor /\ Before("live", T.next, Place(p, None))
    <3>1. p \in owed /\ \A x \in T.page : x.id # p
      BY <1>1, <1>9, <2>2
    <3> QED BY <1>1, <1>4, <1>9, <3>1 DEF OwedInv
  <2>3. ASSUME NEW c, c = T.next, mirror' = Upserted(T) PROVE OwedAhead(c)'
    BY <1>5, <2>2, <2>3
  <2>4. \/ sync' = sync
        \/ /\ mirror' = Upserted(T) /\ sync'["live"].cursor = T.next
           /\ sync'["live"].done = (T.next = NoCursor)
    BY <1>1, <1>3, <1>9, <2>1
  <2>5. OwedAhead(sync["live"].cursor)'
    <3>1. OwedAhead(sync["live"].cursor)
      BY DEF OwedInv
    <3>2. CASE sync'["live"].cursor = sync["live"].cursor
      BY <1>7, <3>1, <3>2
    <3>3. CASE sync'["live"].cursor = T.next /\ mirror' = Upserted(T)
      BY <2>3, <3>3
    <3> QED BY <2>4, <3>2, <3>3
  <2>6. sync'["live"].done => /\ sync'["live"].cursor = NoCursor /\ owed' = {}
                             /\ T.next = NoCursor /\ sync' # sync
    BY <2>1, <2>2, <2>4 DEF Live
  <2>7. ASSUME Walking'
        PROVE  OwedAhead(T.cursor)' /\ (sync'["live"].done => T'.step = "fail" /\ T'.cursor = NoCursor)
    <3>1. T'.step \in {"fetch", "write", "fail"}
      BY <2>7 DEF Walking
    <3>2. CASE T'.step = "fail" /\ T'.cursor = T.cursor /\ sync' = sync
      <4>1. OwedAhead(T.cursor)
        BY <1>4, <1>9 DEF OwedInv
      <4>2. ASSUME NEW c, c = T.cursor PROVE OwedAhead(c)'
        BY <1>7, <4>1, <4>2
      <4> QED BY <2>6, <3>2, <4>2
    <3>3. CASE /\ T'.step = "fetch" => T.next # NoCursor
               /\ T'.cursor = T.next /\ mirror' = Upserted(T) /\ T'.step \in {"fetch", "fail"}
      BY <2>3, <2>6, <3>3
    <3> QED BY <1>2, <1>9, <3>1, <3>2, <3>3, IdleTyped
  <2>8. \A p \in owed' : list'[p].open
    BY <1>1, <1>6 DEF OwedInv
  <2>9. T'.step # "write" /\ (reconcile' = "rearm" => sync'["live"].done)
    BY <1>1, <1>2, <2>1, IdleTyped DEF OwedInv, Live
  <2> QED BY <2>5, <2>6, <2>7, <2>8, <2>9 DEF OwedInv
<1> QED BY <1>3, <1>8, <1>9

LEMMA NextOwed ==
  ASSUME TypeOK, OwedInv, Kicks = {}, [Next]_vars
  PROVE  OwedInv'
<1>1. ASSUME NEW o \in Orders, Change(o) PROVE OwedInv'
  <2>1. UNCHANGED <<sync, runs, reconcile>> /\ owed' = owed \ {o}
    BY <1>1 DEF Change
  <2>2. \A p \in Orders \ {o} : list'[p] = list[p]
    BY <1>1, ChangeTyped
  <2> QED BY <2>1, <2>2, OwedMoves
<1>2. ASSUME NEW o \in Orders, Show(o) PROVE OwedInv'
  <2>1. UNCHANGED <<sync, runs, reconcile>> /\ owed' = owed \ {o}
    BY <1>2 DEF Show
  <2>2. \A p \in Orders \ {o} : list'[p] = list[p]
    BY <1>2 DEF Show, TypeOK
  <2> QED BY <2>1, <2>2, OwedMoves
<1>3. ASSUME Commit(Cron) PROVE OwedInv'
  <2>1. T' = Idle /\ UNCHANGED <<list, sync, reconcile, owed>>
    BY <1>3, EndsEffect DEF Commit, mx
  <2> QED BY <2>1, OwedIdle
<1>4. ASSUME Fail(Cron) \/ Evict(Cron) PROVE OwedInv'
  <2>1. T' = Idle /\ UNCHANGED <<list, reconcile, owed>>
    BY <1>4, EndsEffect DEF Fail, Evict, mx, ghosts
  <2>2. sync' = sync \/ (T.step = "fail" /\ sync' = [sync EXCEPT ![T.pass].cursor = T.cursor])
    BY <1>4 DEF Fail, Evict, ResumeAt, T
  <2>3. /\ sync'["live"].done = sync["live"].done
        /\ \/ sync'["live"].cursor = sync["live"].cursor
           \/ Walking /\ sync'["live"].cursor = T.cursor
    <3>1. T.pass \in Passes /\ sync \in [Passes -> [cursor : Cursors, done : BOOLEAN]]
      BY RunTyped, Numbers DEF TypeOK, T
    <3> HIDE DEF T
    <3> QED BY <2>2, <3>1 DEF Passes, Walking
  <2> QED BY <2>1, <2>3, OwedIdle
<1>5. ASSUME ReArm PROVE OwedInv'
  <2>1. /\ reconcile = "rearm" /\ reconcile' = "idle" /\ UNCHANGED <<list, runs>>
        /\ \/ sync' = [sync EXCEPT !["live"] = [cursor |-> NoCursor, done |-> FALSE]]
              /\ owed' = {o \in Orders : list[o].open}
           \/ UNCHANGED <<sync, owed>>
    BY <1>5 DEF ReArm, mx
  <2>2. T' = T /\ Walking' = Walking
    BY <2>1 DEF T, Walking
  <2>3. Walking => T.step = "fail" /\ T.cursor = NoCursor
    BY <2>1 DEF OwedInv
  <2>4. sync' = sync \/ sync'["live"] = [cursor |-> NoCursor, done |-> FALSE]
    BY <2>1 DEF TypeOK, Passes
  <2>5. CASE UNCHANGED <<sync, owed>>
    BY <2>1, <2>2, <2>5 DEF OwedInv, OwedAhead, Place
  <2>6. CASE sync'["live"] = [cursor |-> NoCursor, done |-> FALSE]
             /\ owed' = {o \in Orders : list[o].open}
    <3>1. sync'["live"].cursor = NoCursor /\ sync'["live"].done = FALSE
      BY <2>6
    <3>2. OwedAhead(sync["live"].cursor)' /\ (Walking => OwedAhead(T.cursor)')
      BY <2>2, <2>3, <3>1 DEF OwedAhead
    <3>3. \A o \in owed' : list'[o].open
      BY <2>1, <2>6
    <3> QED BY <2>1, <2>2, <2>3, <3>1, <3>2, <3>3 DEF OwedInv
  <2> QED BY <2>1, <2>4, <2>5, <2>6 DEF TypeOK, Passes
<1>6. ASSUME ReadLive PROVE OwedInv'
  BY <1>6 DEF ReadLive, Done, OwedInv, OwedAhead, Place, Walking, T, mx, ghosts
<1>7. ASSUME UNCHANGED vars PROVE OwedInv'
  BY <1>7 DEF vars, OwedInv, OwedAhead, Place, Walking, T, mx, ghosts
<1> QED BY <1>1, <1>2, <1>3, <1>4, <1>5, <1>6, <1>7, OneRun, OwedStart, OwedFetch, OwedWrite
        DEF Next, Ingest

-----------------------------------------------------------------------------
\* The theorems about the ingest.

\* The cursors, pages and counters of the ingest and the reconcile stay what the code
\* takes them for, kicks or not.
THEOREM SweepTyped == Spec => []TypeOK
<1> QED BY InitType, NextType, PTL DEF Spec

LEMMA SweepInvariance == Kicks = {} => (Spec => []IInv)
<1> SUFFICES ASSUME Kicks = {} PROVE Spec => []IInv
  OBVIOUS
<1>1. Init => IInv
  BY InitType, InitClock, InitPage, InitSince, InitHole, InitOwed DEF IInv
<1>2. IInv /\ [Next]_vars => IInv'
  BY NextType, NextClock, NextPage, NextSince, NextHole, NextOwed DEF IInv
<1> QED BY <1>1, <1>2, PTL DEF Spec

\* While the cron's ingest is the only one, no row that the list shows and the mirror
\* lacks falls behind what the next sweep asks for (runSyncPass, its cursor, its
\* look-back and its watermark), whichever of its calls fail and wherever it is
\* evicted, unless the list was more than the look-back late to show it.
THEOREM SweepLeavesNoHole == Kicks = {} => (Spec => []NoHole)
<1> SUFFICES ASSUME Kicks = {} PROVE Spec => []NoHole
  OBVIOUS
<1>1. IInv => NoHole
  BY DEF IInv, HoleInv
<1> QED BY <1>1, SweepInvariance, PTL

\* While the cron's ingest is the only one, a live pass that runMxReconcile re-armed is
\* complete only when it has read every work order that was open then and has not
\* changed since.
THEOREM ReArmedWalkIsWhole == Kicks = {} => (Spec => []ReArmIsWalked)
<1> SUFFICES ASSUME Kicks = {} PROVE Spec => []ReArmIsWalked
  OBVIOUS
<1>1. IInv => ReArmIsWalked
  BY DEF IInv, OwedInv, ReArmIsWalked, Done
<1> QED BY <1>1, SweepInvariance, PTL

\* While the cron's ingest is the only one, the sweep's watermark never goes back
\* (writeSyncState after the last page): the run commits what it has seen against the
\* watermark it has found, and that is still the one in mx_sync_state.
THEOREM WatermarkAdvances == Kicks = {} => (Spec => WatermarkForward)
<1> SUFFICES ASSUME Kicks = {} PROVE Spec => WatermarkForward
  OBVIOUS
<1>1. IInv /\ [Next]_vars => [watermark' >= watermark]_vars
  <2> SUFFICES ASSUME IInv, [Next]_vars PROVE watermark' >= watermark \/ UNCHANGED vars
    OBVIOUS
  <2>1. watermark \in Nat
    BY Numbers DEF IInv
  <2>2. ASSUME Commit(Cron) PROVE watermark' >= watermark
    <3>1. T.prior = watermark
      BY <2>2 DEF IInv, SinceInv, Sweeping, Commit, T
    <3>2. watermark' = watermark
          \/ (watermark' = T.seen /\ T.seen # None /\ ~(T.prior >= T.seen))
      BY <2>2 DEF Commit, Observed, Advances, T
    <3> QED BY <3>1, <3>2, Numbers DEF IInv
  <2>3. CASE UNCHANGED watermark
    BY <2>1, <2>3
  <2> QED BY <2>2, <2>3, OneRun
          DEF Next, Ingest, Change, Show, Start, Fetch, Write, Fail, Evict, ReadLive, ReArm
<1> QED BY <1>1, SweepInvariance, PTL DEF Spec, WatermarkForward

-----------------------------------------------------------------------------
\* One work order: what holds of its refreshes.

At == {"idle", "gone", "read", "parent", "snapped", "cleared"}

\* At most one refresh is under way.
Lonely == \A j, k \in Refreshers : Busy(j) /\ Busy(k) => j = k

\* A refresh that holds the lines it has read.
Holds(j) == job[j].at \in {"read", "parent", "snapped", "cleared"}

\* What was mirrored before and is still on the work order.
Kept == recorded \ dropped

\* A refresh holds every line that has to be kept, and has seen the date of each
\* before it deletes it.
Carries(j) ==
  /\ Holds(j) => Kept \subseteq job[j].read
  /\ job[j].at \in {"snapped", "cleared"} =>
       /\ \A l \in Kept : job[j].seen[l] = "first"
       /\ \A l \in Lines \ dropped : job[j].seen[l] # "moved"
  /\ job[j].at = "cleared" => Held(costs) = {}

\* Without an excuse refreshes come one after the other, and none loses a date.
DatesInv ==
  /\ recorded \subseteq order.lines \cup dropped
  /\ \A j \in Refreshers : Holds(j) => job[j].read \subseteq order.lines \cup dropped
  /\ excuses = {} =>
       /\ Lonely
       /\ \A l \in Lines \ dropped : costs[l] # "moved"
       /\ (\A j \in Refreshers : job[j].at # "cleared") =>
            \A l \in Kept : costs[l] = "first"
       /\ \A j \in Refreshers : Carries(j)

\* A refresh that read a work order since deleted has its deletion still to come.
GhostInv ==
  "raced" \notin excuses /\ ~order.exists =>
    /\ row.state = "shown" => deletes > 0
    /\ \A j \in Refreshers : job[j].at = "read" => deletes > 0

\* What a refresh that nothing has interfered with has got done so far.
AloneInv ==
  \A j \in alone : Busy(j) =>
    /\ \A k \in Refreshers : Busy(k) => k = j
    /\ order.exists <=> job[j].at # "gone"
    /\ Holds(j) => job[j].read = order.lines
    /\ job[j].at \in {"parent", "snapped", "cleared"} =>
         row = [state |-> "shown", total |-> order.lines]
    /\ job[j].at = "cleared" => Held(costs) = {} /\ order.lines # {}

MirrorInv == MirrorTypeOK /\ DatesInv /\ GhostInv /\ AloneInv

-----------------------------------------------------------------------------
\* Types.

LEMMA MirrorConstants == NoLines \in [Lines -> Dates] /\ NoJob \in Job
BY DEF NoLines, Dates, NoJob, Job

LEMMA GoesOn ==
  ASSUME MirrorTypeOK, NEW j \in Refreshers, NEW at \in At, GoOn(j, at)
  PROVE  /\ job' \in [Refreshers -> Job]
         /\ job'[j].at = at /\ job'[j].read = job[j].read /\ job'[j].seen = job[j].seen
         /\ \A k \in Refreshers \ {j} : job'[k] = job[k]
<1> DEFINE new == [job[j] EXCEPT !.at = at]
<1>1. new \in Job /\ new.at = at /\ new.read = job[j].read /\ new.seen = job[j].seen
  BY DEF MirrorTypeOK, Job, At
<1>2. job' = [job EXCEPT ![j] = new]
  BY DEF GoOn, MirrorTypeOK
<1> HIDE DEF new
<1> QED BY <1>1, <1>2 DEF MirrorTypeOK

LEMMA EndsTyped ==
  ASSUME MirrorTypeOK, NEW j \in Refreshers, Finish(j)
  PROVE  /\ job' \in [Refreshers -> Job]
         /\ job'[j] = NoJob
         /\ \A k \in Refreshers \ {j} : job'[k] = job[k]
BY MirrorConstants DEF MirrorTypeOK, Finish

LEMMA DatedTyped ==
  ASSUME MirrorTypeOK, NEW j \in Refreshers, NEW l \in Lines
  PROVE  Dated(j, l) \in Dates \ {"absent"}
BY DEF MirrorTypeOK, Dated, Job, Dates

\* One statement inserts into an empty table, or not at all.
LEMMA LinesWritten ==
  ASSUME MirrorTypeOK, NEW j \in Refreshers, NEW ls \in SUBSET Lines, InsertLines(j, ls)
  PROVE  /\ costs' \in [Lines -> Dates] /\ recorded' \subseteq recorded \cup ls
         /\ Held(costs) # {} => costs' = costs
         /\ Held(costs) = {} =>
              /\ Held(costs') = ls
              /\ \A l \in Lines : costs'[l] = IF l \in ls THEN Dated(j, l) ELSE "absent"
<1>1. CASE Held(costs) = {}
  <2>1. costs' = Inserted(j, ls) /\ recorded' = recorded \cup Held(costs')
    BY <1>1 DEF InsertLines
  <2>2. \A l \in Lines : costs'[l] = IF l \in ls THEN Dated(j, l) ELSE "absent"
    BY <2>1 DEF Inserted
  <2>3. costs' \in [Lines -> Dates]
    BY <2>1, DatedTyped DEF Inserted, Dates
  <2>4. Held(costs') = ls
    BY <2>2, DatedTyped DEF Held
  <2> QED BY <1>1, <2>1, <2>2, <2>3, <2>4
<1>2. CASE Held(costs) # {}
  BY <1>2 DEF InsertLines, MirrorTypeOK
<1> QED BY <1>1, <1>2

LEMMA HideTyped ==
  ASSUME MirrorTypeOK, Hide
  PROVE  /\ row' \in [state : {"none", "shown", "hidden"}, total : SUBSET Lines]
         /\ row'.state # "shown"
BY DEF MirrorTypeOK, Hide

\* A read of the work order.
LEMMA RefetchTyped ==
  ASSUME MirrorTypeOK, NEW j \in Refreshers, NEW mode \in Modes(j), Refetch(j, mode)
  PROVE  /\ job' \in [Refreshers -> Job]
         /\ order.exists => job'[j].at = "read" /\ job'[j].read = order.lines
         /\ ~order.exists => job'[j].at = "gone"
         /\ \A k \in Refreshers \ {j} : job'[k] = job[k]
<1>1. mode \in {"one", "prune", "fill"}
  BY DEF Modes
<1> DEFINE new == IF order.exists
                  THEN [NoJob EXCEPT !.at = "read", !.mode = mode, !.read = order.lines]
                  ELSE [NoJob EXCEPT !.at = "gone"]
<1>2. order.lines \in SUBSET Lines /\ order.exists \in BOOLEAN
  BY DEF MirrorTypeOK
<1>3. /\ new \in Job
      /\ order.exists => new.at = "read" /\ new.read = order.lines
      /\ ~order.exists => new.at = "gone"
  BY <1>1, <1>2, MirrorConstants DEF Job, NoJob
<1>4. job' = [job EXCEPT ![j] = new]
  BY DEF Refetch
<1> HIDE DEF new
<1> QED BY <1>3, <1>4 DEF MirrorTypeOK

LEMMA SnapshotTyped ==
  ASSUME MirrorTypeOK, NEW j \in Refreshers, Snapshot(j)
  PROVE  /\ job' \in [Refreshers -> Job]
         /\ job'[j].at = "snapped" /\ job'[j].read = job[j].read /\ job'[j].seen = costs
         /\ \A k \in Refreshers \ {j} : job'[k] = job[k]
<1> DEFINE new == [job[j] EXCEPT !.at = "snapped", !.seen = costs]
<1>1. new \in Job /\ new.at = "snapped" /\ new.read = job[j].read /\ new.seen = costs
  BY DEF MirrorTypeOK, Job
<1>2. job' = [job EXCEPT ![j] = new]
  BY DEF Snapshot, Snapshotted, MirrorTypeOK
<1> HIDE DEF new
<1> QED BY <1>1, <1>2 DEF MirrorTypeOK

LEMMA MirrorInitType == MirrorInit => MirrorTypeOK
BY MirrorConstants DEF MirrorInit, MirrorTypeOK

LEMMA MirrorNextType == MirrorTypeOK /\ [MirrorNext]_mirrorVars => MirrorTypeOK'
<1> SUFFICES ASSUME MirrorTypeOK, [MirrorNext]_mirrorVars PROVE MirrorTypeOK'
  OBVIOUS
<1> USE DEF marks
<1>1. ASSUME NEW l \in Lines, AddLine(l) \/ DropLine(l) PROVE MirrorTypeOK'
  <2>1. order' \in [exists : BOOLEAN, lines : SUBSET Lines] /\ edits' \in Nat /\ dropped' \subseteq Lines
    BY <1>1 DEF AddLine, DropLine, Edit, MirrorTypeOK
  <2>2. UNCHANGED <<deletes, row, costs, job, mishaps, recorded, excuses>> /\ alone' = {}
    BY <1>1 DEF AddLine, DropLine, Edit
  <2> QED BY <2>1, <2>2 DEF MirrorTypeOK
<1>2. CASE Delete \/ Restore
  <2>1. /\ order' \in [exists : BOOLEAN, lines : SUBSET Lines]
        /\ edits' \in Nat /\ deletes' \in Nat
    <3>1. /\ order \in [exists : BOOLEAN, lines : SUBSET Lines]
          /\ edits \in Nat /\ deletes \in Nat
      BY DEF MirrorTypeOK
    <3>2. \E b \in BOOLEAN : order' = [order EXCEPT !.exists = b]
      BY <1>2 DEF Delete, Restore
    <3>3. edits' = edits + 1 /\ deletes' \in {deletes, deletes + 1}
      BY <1>2 DEF Delete, Restore, Edit
    <3> QED BY <3>1, <3>2, <3>3
  <2>2. UNCHANGED <<row, costs, job, mishaps, recorded, dropped, excuses>> /\ alone' = {}
    BY <1>2 DEF Delete, Restore, Edit
  <2> QED BY <2>1, <2>2 DEF MirrorTypeOK
<1>3. CASE SoftDelete
  <2>1. /\ deletes' \in Nat /\ mishaps' \in Nat
        /\ excuses' \subseteq {"torn", "raced"} /\ alone' = {}
    BY <1>3 DEF SoftDelete, Mishap, Raced, MirrorTypeOK
  <2>2. UNCHANGED <<order, costs, job, edits, recorded, dropped>> /\ Hide
    BY <1>3 DEF SoftDelete
  <2> QED BY <2>1, <2>2, HideTyped DEF MirrorTypeOK
<1>4. ASSUME NEW j \in Refreshers, NEW mode \in Modes(j), Refetch(j, mode) PROVE MirrorTypeOK'
  <2>1. excuses' \subseteq {"torn", "raced"} /\ alone' \subseteq Refreshers
    BY <1>4 DEF Refetch, MirrorTypeOK
  <2>2. UNCHANGED <<order, deletes, row, costs, edits, mishaps, recorded, dropped>>
    BY <1>4 DEF Refetch
  <2> QED BY <1>4, <2>1, <2>2, RefetchTyped DEF MirrorTypeOK
<1>5. ASSUME NEW j \in Refreshers, Gone(j) PROVE MirrorTypeOK'
  BY <1>5, HideTyped, EndsTyped DEF Gone, MirrorTypeOK
<1>6. ASSUME NEW j \in Refreshers, UpsertParent(j) PROVE MirrorTypeOK'
  <2>1. job' \in [Refreshers -> Job]
    BY <1>6, GoesOn, EndsTyped DEF UpsertParent, At
  <2>2. row' \in [state : {"none", "shown", "hidden"}, total : SUBSET Lines]
    BY <1>6 DEF UpsertParent, MappedRow, MirrorTypeOK, Job
  <2> QED BY <1>6, <2>1, <2>2 DEF UpsertParent, MirrorTypeOK
<1>7. ASSUME NEW j \in Refreshers, Snapshot(j) PROVE MirrorTypeOK'
  BY <1>7, SnapshotTyped DEF Snapshot, MirrorTypeOK
<1>8. ASSUME NEW j \in Refreshers, Clear(j) PROVE MirrorTypeOK'
  <2>1. job' \in [Refreshers -> Job]
    BY <1>8, GoesOn, EndsTyped DEF Clear, At
  <2> QED BY <1>8, <2>1, MirrorConstants DEF Clear, MirrorTypeOK
<1>9. ASSUME NEW j \in Refreshers, Insert(j) PROVE MirrorTypeOK'
  <2>1. job[j].read \in SUBSET Lines
    BY DEF MirrorTypeOK, Job
  <2>2. costs' \in [Lines -> Dates] /\ recorded' \subseteq recorded \cup job[j].read
    BY <1>9, <2>1, LinesWritten DEF Insert
  <2> QED BY <1>9, <2>1, <2>2, EndsTyped DEF Insert, MirrorTypeOK
<1>10. ASSUME NEW j \in Refreshers, FailRefresh(j) PROVE MirrorTypeOK'
  <2>1. job[j].read \in SUBSET Lines
    BY DEF MirrorTypeOK, Job
  <2>2. costs' \in [Lines -> Dates] /\ recorded' \subseteq recorded \cup job[j].read
    BY <1>10, <2>1, LinesWritten DEF FailRefresh, MirrorTypeOK
  <2>3. job' \in [Refreshers -> Job]
    BY <1>10, EndsTyped DEF FailRefresh
  <2>4. excuses' \subseteq {"torn", "raced"}
    BY <1>10 DEF FailRefresh, MirrorTypeOK
  <2>6. mishaps' \in Nat /\ alone' \subseteq Refreshers
    BY <1>10 DEF FailRefresh, Mishap, MirrorTypeOK
  <2>5. UNCHANGED <<order, deletes, row, edits, dropped>>
    BY <1>10 DEF FailRefresh
  <2> QED BY <2>1, <2>2, <2>3, <2>4, <2>5, <2>6 DEF MirrorTypeOK
<1>11. CASE UNCHANGED mirrorVars
  BY <1>11 DEF mirrorVars, MirrorTypeOK
<1> QED BY <1>1, <1>2, <1>3, <1>4, <1>5, <1>6, <1>7, <1>8, <1>9, <1>10, <1>11 DEF MirrorNext,
             Refresh

-----------------------------------------------------------------------------
\* The dates of the lines.

\* MaintainX changes the work order.
LEMMA DatesEdit ==
  ASSUME MirrorTypeOK, DatesInv, UNCHANGED <<costs, job, recorded, excuses>>,
         dropped \subseteq dropped',
         order.lines \cup dropped \subseteq order'.lines \cup dropped'
  PROVE  DatesInv'
<1>1. Kept' \subseteq Kept /\ recorded' \subseteq order'.lines \cup dropped'
  BY DEF DatesInv, Kept
<1>2. ASSUME excuses = {} PROVE Lonely' /\ \A j \in Refreshers : Carries(j)'
  BY <1>1, <1>2 DEF DatesInv, Lonely, Busy, Carries, Holds, Held
<1>3. \A j \in Refreshers : Holds(j)' => job'[j].read \subseteq order'.lines \cup dropped'
  BY DEF DatesInv, Holds
<1> QED BY <1>1, <1>2, <1>3 DEF DatesInv

\* A refresh goes on, or ends, without writing to the lines.
LEMMA DatesMove ==
  ASSUME MirrorTypeOK, DatesInv, NEW j \in Refreshers,
         UNCHANGED <<costs, recorded, dropped>>, order'.lines = order.lines,
         excuses \subseteq excuses', excuses' = {} => job[j].at # "cleared",
         \A k \in Refreshers \ {j} : job'[k] = job[k],
         Holds(j)' => job'[j].read \subseteq order.lines \cup dropped,
         excuses' = {} => job'[j].at # "cleared" /\ Lonely' /\ Carries(j)'
  PROVE  DatesInv'
<1>1. Kept' = Kept
  BY DEF Kept
<1>2. ASSUME excuses' = {} PROVE \A k \in Refreshers : Carries(k)'
  BY <1>1, <1>2 DEF DatesInv, Carries, Holds, Held
<1>3. ASSUME excuses' = {}, \A k \in Refreshers : job'[k].at # "cleared"
      PROVE  \A l \in Kept : costs[l] = "first"
  BY <1>3 DEF DatesInv
<1>4. \A k \in Refreshers : Holds(k)' => job'[k].read \subseteq order.lines \cup dropped
  BY DEF DatesInv, Holds
<1> QED BY <1>1, <1>2, <1>3, <1>4 DEF DatesInv

\* No other refresh is under way beside one that is alone.
LEMMA LonelyStays ==
  ASSUME Lonely, NEW j \in Refreshers, Busy(j), \A k \in Refreshers \ {j} : job'[k] = job[k]
  PROVE  Lonely'
BY DEF Lonely, Busy

LEMMA InitDates == MirrorInit => DatesInv
BY DEF MirrorInit, DatesInv, Lonely, Carries, Holds, Kept, Busy, NoJob,
     NoLines

LEMMA DatesRefetch ==
  ASSUME MirrorTypeOK, DatesInv, NEW j \in Refreshers, NEW mode \in Modes(j), Refetch(j, mode)
  PROVE  DatesInv'
<1>1. /\ ~Busy(j) /\ excuses \subseteq excuses'
      /\ UNCHANGED <<order, costs, recorded, dropped>>
      /\ excuses' = {} => \A k \in Refreshers : ~Busy(k)
  BY DEF Refetch
<1>2. excuses' = {} => Lonely'
  BY <1>1, RefetchTyped DEF Lonely, Busy
<1>3. Carries(j)'
  <2>1. recorded \subseteq order.lines \cup dropped
    BY DEF DatesInv
  <2>2. job'[j].at \in {"read", "gone"} /\ (job'[j].at = "read" => job'[j].read = order.lines)
    BY RefetchTyped DEF MirrorTypeOK
  <2> QED BY <1>1, <2>1, <2>2 DEF Carries, Holds, Kept
<1>4. job[j].at # "cleared" /\ job'[j].at # "cleared"
  BY <1>1, RefetchTyped DEF Busy, MirrorTypeOK
<1>5. Holds(j)' => job'[j].read \subseteq order.lines \cup dropped
  BY RefetchTyped DEF Holds, MirrorTypeOK
<1> QED BY <1>1, <1>2, <1>3, <1>4, <1>5, RefetchTyped, DatesMove

LEMMA DatesDone ==
  ASSUME MirrorTypeOK, DatesInv, NEW j \in Refreshers, Busy(j), Finish(j),
         UNCHANGED <<order, costs, recorded, dropped>>, excuses \subseteq excuses',
         excuses' = {} => job[j].at # "cleared"
  PROVE  DatesInv'
<1>1. job'[j].at = "idle" /\ \A k \in Refreshers \ {j} : job'[k] = job[k]
  BY EndsTyped DEF NoJob
<1>2. Carries(j)'
  BY <1>1 DEF Carries, Holds
<1>3. excuses' = {} => Lonely'
  BY <1>1, LonelyStays DEF DatesInv
<1>4. ~Holds(j)'
  BY <1>1 DEF Holds
<1> QED BY <1>1, <1>2, <1>3, <1>4, DatesMove

LEMMA DatesUpsert ==
  ASSUME MirrorTypeOK, DatesInv, NEW j \in Refreshers, UpsertParent(j)
  PROVE  DatesInv'
<1>1. job[j].at = "read" /\ UNCHANGED <<order, costs, recorded, dropped, excuses>>
  BY DEF UpsertParent, marks
<1>2. CASE GoOn(j, "parent")
  <2>1. /\ job'[j].at = "parent" /\ job'[j].read = job[j].read
        /\ \A k \in Refreshers \ {j} : job'[k] = job[k]
    BY <1>2, GoesOn DEF At
  <2>2. excuses = {} => Carries(j)' /\ Lonely'
    BY <1>1, <2>1, LonelyStays DEF DatesInv, Carries, Holds, Kept, Busy
  <2>3. Holds(j)' => job'[j].read \subseteq order.lines \cup dropped
    BY <1>1, <2>1 DEF DatesInv, Holds
  <2> QED BY <1>1, <2>1, <2>2, <2>3, DatesMove
<1>3. CASE Finish(j)
  BY <1>1, <1>3, DatesDone DEF Busy
<1> QED BY <1>2, <1>3 DEF UpsertParent

LEMMA DatesSnapshot ==
  ASSUME MirrorTypeOK, DatesInv, NEW j \in Refreshers, Snapshot(j)
  PROVE  DatesInv'
<1>1. job[j].at = "parent" /\ UNCHANGED <<order, costs, recorded, dropped, excuses>>
  BY DEF Snapshot, marks
<1>2. /\ job'[j].at = "snapped" /\ job'[j].read = job[j].read /\ job'[j].seen = costs
      /\ \A k \in Refreshers \ {j} : job'[k] = job[k]
  BY SnapshotTyped
<1>3. ASSUME excuses = {} PROVE Carries(j)' /\ Lonely'
  <2>1. Lonely /\ Lonely'
    BY <1>1, <1>2, <1>3, LonelyStays DEF DatesInv, Busy
  <2>2. \A k \in Refreshers : job[k].at # "cleared"
    BY <1>1, <2>1 DEF Lonely, Busy
  <2> QED BY <1>1, <1>2, <1>3, <2>1, <2>2 DEF DatesInv, Carries, Holds, Kept
<1>4. Holds(j)' => job'[j].read \subseteq order.lines \cup dropped
  BY <1>1, <1>2 DEF DatesInv, Holds
<1> QED BY <1>1, <1>2, <1>3, <1>4, DatesMove

LEMMA DatesClear ==
  ASSUME MirrorTypeOK, DatesInv, NEW j \in Refreshers, Clear(j)
  PROVE  DatesInv'
<1>1. job[j].at = "snapped" /\ costs' = NoLines /\ UNCHANGED <<order, recorded, dropped, excuses>>
  BY DEF Clear, marks
<1>2. /\ Kept' = Kept /\ \A l \in Lines : costs'[l] = "absent"
      /\ Held(costs') = {}
  BY <1>1 DEF Kept, NoLines, Held
<1>3. recorded' \subseteq order'.lines \cup dropped'
  BY <1>1 DEF DatesInv
<1>4. CASE job[j].read # {}
  <2>1. GoOn(j, "cleared")
    BY <1>4 DEF Clear
  <2>2. /\ job'[j].at = "cleared" /\ job'[j].read = job[j].read /\ job'[j].seen = job[j].seen
        /\ \A k \in Refreshers \ {j} : job'[k] = job[k]
    BY <2>1, GoesOn DEF At
  <2>3. ASSUME excuses = {} PROVE Lonely' /\ \A k \in Refreshers : Carries(k)'
    BY <1>1, <1>2, <2>2, <2>3, LonelyStays DEF DatesInv, Carries, Holds, Busy
  <2>4. \A k \in Refreshers : Holds(k)' => job'[k].read \subseteq order.lines \cup dropped
    BY <1>1, <2>2 DEF DatesInv, Holds
  <2> QED BY <1>1, <1>2, <1>3, <2>2, <2>3, <2>4 DEF DatesInv
<1>5. CASE job[j].read = {}
  <2>1. /\ job'[j].at = "idle" /\ \A k \in Refreshers \ {j} : job'[k] = job[k]
    BY <1>5, EndsTyped DEF Clear, NoJob
  <2>2. ASSUME excuses = {} PROVE Lonely' /\ \A k \in Refreshers : Carries(k)'
    BY <1>1, <1>2, <2>1, <2>2, LonelyStays DEF DatesInv, Carries, Holds, Busy
  <2>3. excuses = {} => Kept = {}
    BY <1>1, <1>5 DEF DatesInv, Carries, Holds
  <2>4. \A k \in Refreshers : Holds(k)' => job'[k].read \subseteq order.lines \cup dropped
    BY <1>1, <2>1 DEF DatesInv, Holds
  <2> QED BY <1>1, <1>2, <1>3, <2>1, <2>2, <2>3, <2>4 DEF DatesInv
<1> QED BY <1>4, <1>5

LEMMA DatesInsert ==
  ASSUME MirrorTypeOK, DatesInv, NEW j \in Refreshers, Insert(j)
  PROVE  DatesInv'
<1>1. /\ job[j].at = "cleared" /\ InsertLines(j, job[j].read) /\ Finish(j)
      /\ UNCHANGED <<order, dropped, excuses>>
  BY DEF Insert
<1>2. job[j].read \in SUBSET Lines
  BY DEF MirrorTypeOK, Job
<1>3. job'[j].at = "idle" /\ \A k \in Refreshers \ {j} : job'[k] = job[k]
  BY <1>1, EndsTyped DEF NoJob
<1>4. recorded' \subseteq recorded \cup job[j].read
  BY <1>1, <1>2, LinesWritten
<1>5. recorded' \subseteq order'.lines \cup dropped'
  BY <1>1, <1>4 DEF DatesInv, Holds
<1>6. \A k \in Refreshers : Holds(k)' => job'[k].read \subseteq order.lines \cup dropped
  BY <1>1, <1>3 DEF DatesInv, Holds
<1>7. ASSUME excuses = {}
      PROVE  /\ Lonely' /\ \A k \in Refreshers : Carries(k)'
             /\ \A l \in Lines \ dropped : costs'[l] # "moved"
             /\ \A l \in Kept' : costs'[l] = "first"
  <2>1. Lonely' /\ \A k \in Refreshers : job'[k].at = "idle"
    BY <1>1, <1>3, <1>7, LonelyStays DEF DatesInv, Lonely, Busy
  <2>2. Carries(j) /\ Held(costs) = {}
    BY <1>1, <1>7 DEF DatesInv, Carries
  <2>3. \A l \in Lines : costs'[l] = IF l \in job[j].read THEN Dated(j, l) ELSE "absent"
    BY <1>1, <1>2, <2>2, LinesWritten
  <2>4. ASSUME NEW l \in Lines \ dropped PROVE Dated(j, l) = "first"
    <3>1. job[j].seen[l] \in {"absent", "first"}
      BY <1>1, <2>2 DEF Carries, MirrorTypeOK, Job, Dates
    <3>2. l \in recorded => job[j].seen[l] = "first"
      BY <1>1, <2>2 DEF Carries, Kept
    <3> QED BY <3>1, <3>2 DEF Dated
  <2>5. Kept' \subseteq job[j].read
    BY <1>1, <1>4, <2>2 DEF Carries, Holds, Kept
  <2>6. Kept' \subseteq Lines \ dropped
    BY <1>1, MirrorNextType, <1>2, LinesWritten, <1>4 DEF Kept, MirrorTypeOK
  <2> QED BY <2>1, <2>3, <2>4, <2>5, <2>6 DEF Carries, Holds
<1> QED BY <1>1, <1>5, <1>6, <1>7 DEF DatesInv

LEMMA NextDates == MirrorTypeOK /\ DatesInv /\ [MirrorNext]_mirrorVars => DatesInv'
<1> SUFFICES ASSUME MirrorTypeOK, DatesInv, [MirrorNext]_mirrorVars PROVE DatesInv'
  OBVIOUS
<1>1. ASSUME NEW l \in Lines, AddLine(l) \/ DropLine(l) PROVE DatesInv'
  <2>1. UNCHANGED <<costs, job, recorded, excuses>> /\ dropped \subseteq dropped'
    BY <1>1 DEF AddLine, DropLine
  <2>2. order.lines \cup dropped \subseteq order'.lines \cup dropped'
    BY <1>1 DEF AddLine, DropLine, MirrorTypeOK
  <2> QED BY <2>1, <2>2, DatesEdit
<1>2. CASE Delete \/ Restore \/ UNCHANGED mirrorVars
  <2>1. UNCHANGED <<costs, job, recorded, dropped, excuses>> /\ order'.lines = order.lines
    BY <1>2 DEF Delete, Restore, MirrorTypeOK, mirrorVars, marks
  <2> QED BY <2>1, DatesEdit
<1>3. CASE SoftDelete
  <2>1. UNCHANGED <<order, costs, job, recorded, dropped>> /\ excuses \subseteq excuses'
    BY <1>3 DEF SoftDelete, Raced
  <2> QED BY <2>1 DEF DatesInv, Lonely, Carries, Holds, Kept, Busy, Held
<1>4. ASSUME NEW j \in Refreshers, Gone(j) PROVE DatesInv'
  BY <1>4, DatesDone DEF Gone, marks, Busy
<1>5. ASSUME NEW j \in Refreshers, FailRefresh(j) PROVE DatesInv'
  <2>1. CASE job[j].at # "cleared"
    BY <1>5, <2>1, DatesDone DEF FailRefresh
  <2>2. CASE job[j].at = "cleared"
    <3>1. PICK ls \in SUBSET job[j].read : InsertLines(j, ls)
      BY <1>5, <2>2 DEF FailRefresh
    <3>2. recorded' \subseteq recorded \cup job[j].read /\ excuses' # {}
      BY <1>5, <2>2, <3>1, LinesWritten DEF FailRefresh, MirrorTypeOK, Job
    <3>3. UNCHANGED <<order, dropped>> /\ Finish(j)
      BY <1>5 DEF FailRefresh
    <3>4. recorded' \subseteq order'.lines \cup dropped'
      BY <2>2, <3>2, <3>3 DEF DatesInv, Holds
    <3>5. \A k \in Refreshers : Holds(k)' => job'[k].read \subseteq order'.lines \cup dropped'
      BY <3>3, EndsTyped DEF DatesInv, Holds, NoJob
    <3> QED BY <3>2, <3>4, <3>5 DEF DatesInv
  <2> QED BY <2>1, <2>2
<1> QED BY <1>1, <1>2, <1>3, <1>4, <1>5, DatesRefetch, DatesUpsert, DatesSnapshot, DatesClear,
           DatesInsert DEF MirrorNext, Refresh

-----------------------------------------------------------------------------
\* Deleted work orders.

LEMMA GhostStep ==
  ASSUME MirrorTypeOK, GhostInv, NEW j \in Refreshers,
         UNCHANGED <<order, deletes>>, excuses \subseteq excuses',
         \A k \in Refreshers \ {j} : job'[k] = job[k],
         job'[j].at = "read" => order.exists,
         row'.state = "shown" => row.state = "shown" \/ job[j].at = "read"
  PROVE  GhostInv'
BY DEF GhostInv

LEMMA NextGhost == MirrorTypeOK /\ GhostInv /\ [MirrorNext]_mirrorVars => GhostInv'
<1> SUFFICES ASSUME MirrorTypeOK, GhostInv, [MirrorNext]_mirrorVars PROVE GhostInv'
  OBVIOUS
<1>1. ASSUME NEW l \in Lines, AddLine(l) \/ DropLine(l) PROVE GhostInv'
  <2>1. UNCHANGED <<deletes, row, job, excuses>> /\ order'.exists = order.exists
    BY <1>1 DEF AddLine, DropLine, MirrorTypeOK
  <2> QED BY <2>1 DEF GhostInv
<1>2. CASE Delete
  <2>1. deletes' > 0
    BY <1>2 DEF Delete, MirrorTypeOK
  <2> QED BY <2>1 DEF GhostInv
<1>3. CASE Restore
  <2>1. order'.exists
    BY <1>3 DEF Restore, MirrorTypeOK
  <2> QED BY <2>1 DEF GhostInv
<1>4. CASE SoftDelete
  <2>1. row'.state # "shown" /\ job' = job
    BY <1>4, HideTyped DEF SoftDelete
  <2>2. "raced" \notin excuses' => \A j \in Refreshers : ~Busy(j)
    BY <1>4 DEF SoftDelete, Raced
  <2> QED BY <2>1, <2>2 DEF GhostInv, Busy
<1>5. ASSUME NEW j \in Refreshers, NEW mode \in Modes(j), Refetch(j, mode) PROVE GhostInv'
  <2>1. UNCHANGED <<order, deletes, row>> /\ excuses \subseteq excuses'
    BY <1>5 DEF Refetch
  <2>2. job'[j].at = "read" => order.exists
    BY <1>5, RefetchTyped DEF MirrorTypeOK
  <2> QED BY <1>5, <2>1, <2>2, RefetchTyped, GhostStep
<1>6. ASSUME NEW j \in Refreshers, Gone(j) PROVE GhostInv'
  BY <1>6, HideTyped, EndsTyped, GhostStep DEF Gone, marks, NoJob
<1>7. ASSUME NEW j \in Refreshers, UpsertParent(j) PROVE GhostInv'
  <2>1. job[j].at = "read" /\ UNCHANGED <<order, deletes, excuses>>
    BY <1>7 DEF UpsertParent, marks
  <2>2. job'[j].at # "read" /\ \A k \in Refreshers \ {j} : job'[k] = job[k]
    BY <1>7, GoesOn, EndsTyped DEF UpsertParent, NoJob, At
  <2> QED BY <2>1, <2>2, GhostStep
<1>8. ASSUME NEW j \in Refreshers, Snapshot(j) PROVE GhostInv'
  BY <1>8, SnapshotTyped, GhostStep DEF Snapshot, marks
<1>9. ASSUME NEW j \in Refreshers, Clear(j) PROVE GhostInv'
  <2>1. job'[j].at # "read" /\ \A k \in Refreshers \ {j} : job'[k] = job[k]
    BY <1>9, GoesOn, EndsTyped DEF Clear, NoJob, At
  <2> QED BY <1>9, <2>1, GhostStep DEF Clear, marks
<1>10. ASSUME NEW j \in Refreshers, Insert(j) \/ FailRefresh(j) PROVE GhostInv'
  <2>1. job'[j].at # "read" /\ \A k \in Refreshers \ {j} : job'[k] = job[k]
    BY <1>10, EndsTyped DEF Insert, FailRefresh, NoJob
  <2>2. UNCHANGED <<order, deletes, row>> /\ excuses \subseteq excuses'
    BY <1>10 DEF Insert, FailRefresh
  <2> QED BY <2>1, <2>2, GhostStep
<1>11. CASE UNCHANGED mirrorVars
  BY <1>11 DEF mirrorVars, marks, GhostInv
<1> QED BY <1>1, <1>2, <1>3, <1>4, <1>5, <1>6, <1>7, <1>8, <1>9, <1>10, <1>11 DEF MirrorNext,
             Refresh

-----------------------------------------------------------------------------
\* Refreshes that nothing interferes with.

\* What AloneInv says of one of them.
Undisturbed(j) ==
  /\ \A k \in Refreshers : Busy(k) => k = j
  /\ order.exists <=> job[j].at # "gone"
  /\ Holds(j) => job[j].read = order.lines
  /\ job[j].at \in {"parent", "snapped", "cleared"} =>
       row = [state |-> "shown", total |-> order.lines]
  /\ job[j].at = "cleared" => Held(costs) = {} /\ order.lines # {}

\* A step of one refresh concerns no other that is alone.
LEMMA AloneStep ==
  ASSUME MirrorTypeOK, AloneInv, NEW j \in Refreshers, Busy(j), alone' \subseteq alone,
         \A k \in Refreshers \ {j} : job'[k] = job[k],
         j \in alone /\ Busy(j)' => Undisturbed(j)'
  PROVE  AloneInv'
<1>1. ASSUME NEW i \in alone', Busy(i)', i # j PROVE FALSE
  BY <1>1 DEF AloneInv, Busy, MirrorTypeOK
<1> QED BY <1>1 DEF AloneInv, Undisturbed

\* One that is alone stays by itself.
LEMMA AloneSelf ==
  ASSUME MirrorTypeOK, AloneInv, NEW j \in alone, Busy(j),
         \A k \in Refreshers \ {j} : job'[k] = job[k]
  PROVE  Undisturbed(j) /\ \A k \in Refreshers : Busy(k)' => k = j
BY DEF AloneInv, Undisturbed, Busy, MirrorTypeOK

\* The mirror is exact when a refresh nothing has interfered with ends.
LEMMA AloneEnds ==
  ASSUME MirrorTypeOK, AloneInv, [MirrorNext]_mirrorVars, NEW j \in alone,
         Busy(j), TouchesChildren(j), Finish(j), mishaps' = mishaps
  PROVE  Exact'
<1>1. j \in Refreshers /\ Undisturbed(j)
  BY DEF AloneInv, Undisturbed, MirrorTypeOK
<1>2. job'[j].at = "idle" /\ job'[j] # job[j] /\ \A k \in Refreshers \ {j} : job'[k] = job[k]
  BY <1>1, EndsTyped DEF NoJob, Busy
<1>3. ASSUME NEW k \in Refreshers, Busy(k) PROVE k = j
  BY <1>1, <1>3 DEF Undisturbed
<1>4. CASE Gone(j)
  BY <1>1, <1>4, HideTyped DEF Gone, Undisturbed, Exact
<1>5. ~UpsertParent(j)
  BY <1>1, <1>2, GoesOn DEF UpsertParent, At
<1>6. CASE Clear(j)
  <2>1. job[j].at = "snapped" /\ job[j].read = {} /\ Held(costs') = {}
    BY <1>1, <1>2, <1>6, GoesOn DEF Clear, At, Held, NoLines
  <2> QED BY <1>1, <1>6, <2>1 DEF Clear, Undisturbed, Holds, Exact
<1>7. CASE Insert(j)
  <2>1. job[j].at = "cleared" /\ InsertLines(j, job[j].read) /\ UNCHANGED <<order, row>>
    BY <1>7 DEF Insert
  <2>2. Held(costs') = job[j].read
    BY <1>1, <2>1, LinesWritten DEF Undisturbed, MirrorTypeOK, Job
  <2> QED BY <1>1, <2>1, <2>2 DEF Undisturbed, Holds, Exact
<1>8. ~FailRefresh(j) /\ ~Snapshot(j)
  BY <1>1, <1>2, SnapshotTyped DEF FailRefresh, Mishap, MirrorTypeOK
<1>9. ASSUME NEW mode \in Modes(j) PROVE ~Refetch(j, mode)
  BY DEF Refetch
<1>10. ASSUME NEW k \in Refreshers \ {j} 
       PROVE  ~Refresh(k) /\ ~FailRefresh(k) /\ \A mode \in Modes(k) : ~Refetch(k, mode)
  <2>1. ~Busy(k) /\ ~Busy(k)'
    BY <1>2, <1>3, <1>10 DEF Busy
  <2>2. \A mode \in Modes(k) : ~Refetch(k, mode)
    BY <2>1, RefetchTyped DEF Busy, MirrorTypeOK
  <2> QED BY <2>1, <2>2 DEF Refresh, Gone, UpsertParent, Snapshot,
               Clear, Insert, FailRefresh, Busy
<1>11. job' # job
  BY <1>2
<1> QED BY <1>4, <1>5, <1>6, <1>7, <1>8, <1>9, <1>10, <1>11
        DEF MirrorNext, Refresh, AddLine, DropLine, Delete,
        Restore, SoftDelete, mirrorVars

LEMMA NextAlone == MirrorTypeOK /\ AloneInv /\ [MirrorNext]_mirrorVars => AloneInv'
<1> SUFFICES ASSUME MirrorTypeOK, AloneInv, [MirrorNext]_mirrorVars PROVE AloneInv'
  OBVIOUS
<1> USE DEF marks
<1>1. ASSUME alone' = {} PROVE AloneInv'
  BY <1>1 DEF AloneInv
<1>2. ASSUME NEW j \in Refreshers, NEW mode \in Modes(j), Refetch(j, mode) PROVE AloneInv'
  <2>1. CASE \E k \in Refreshers : Busy(k)
    BY <1>1, <1>2, <2>1 DEF Refetch
  <2>2. CASE \A k \in Refreshers : ~Busy(k)
    <3>1. alone' = {j} /\ UNCHANGED <<order, row, costs>>
      BY <1>2, <2>2 DEF Refetch
    <3>2. order.exists \in BOOLEAN /\ \A k \in Refreshers : Busy(k)' => k = j
      BY <1>2, <2>2, RefetchTyped DEF Busy, MirrorTypeOK
    <3> QED BY <1>2, <3>1, <3>2, RefetchTyped DEF AloneInv, Holds
  <2> QED BY <2>1, <2>2
<1>3. ASSUME NEW j \in Refreshers, Busy(j), Finish(j), alone' \subseteq alone PROVE AloneInv'
  BY <1>3, EndsTyped, AloneStep DEF Busy, NoJob
<1>4. ASSUME NEW j \in Refreshers, UpsertParent(j), GoOn(j, "parent") PROVE AloneInv'
  <2>1. /\ job[j].at = "read" /\ row' = MappedRow(job[j].read) /\ UNCHANGED <<order, costs, alone>>
    BY <1>4 DEF UpsertParent
  <2>2. /\ job'[j].at = "parent" /\ job'[j].read = job[j].read
        /\ \A k \in Refreshers \ {j} : job'[k] = job[k]
    BY <1>4, GoesOn DEF At
  <2>3. ASSUME j \in alone PROVE Undisturbed(j)'
    <3>1. Undisturbed(j) /\ \A k \in Refreshers : Busy(k)' => k = j
      BY <2>1, <2>2, <2>3, AloneSelf DEF Busy
    <3> QED BY <2>1, <2>2, <3>1 DEF Undisturbed, Holds, MappedRow
  <2> QED BY <2>1, <2>2, <2>3, AloneStep DEF Busy
<1>5. ASSUME NEW j \in Refreshers, Snapshot(j) PROVE AloneInv'
  <2>1. job[j].at = "parent" /\ UNCHANGED <<order, row, costs, alone>>
    BY <1>5 DEF Snapshot
  <2>2. ASSUME j \in alone PROVE Undisturbed(j)'
    <3>1. Undisturbed(j) /\ \A k \in Refreshers : Busy(k)' => k = j
      BY <1>5, <2>1, <2>2, AloneSelf, SnapshotTyped DEF Busy
    <3> QED BY <1>5, <2>1, <3>1, SnapshotTyped DEF Undisturbed, Holds
  <2> QED BY <1>5, <2>1, <2>2, AloneStep, SnapshotTyped DEF Busy
<1>6. ASSUME NEW j \in Refreshers, Clear(j), GoOn(j, "cleared"), job[j].read # {} PROVE AloneInv'
  <2>1. job[j].at = "snapped" /\ Held(costs') = {} /\ UNCHANGED <<order, row, alone>>
    BY <1>6 DEF Clear, Held, NoLines
  <2>2. /\ job'[j].at = "cleared" /\ job'[j].read = job[j].read
        /\ \A k \in Refreshers \ {j} : job'[k] = job[k]
    BY <1>6, GoesOn DEF At
  <2>3. ASSUME j \in alone PROVE Undisturbed(j)'
    <3>1. Undisturbed(j) /\ \A k \in Refreshers : Busy(k)' => k = j
      BY <2>1, <2>2, <2>3, AloneSelf DEF Busy
    <3>2. Held(costs)' = {}
      BY <2>1 DEF Held
    <3> QED BY <1>6, <2>1, <2>2, <3>1, <3>2 DEF Undisturbed, Holds
  <2> QED BY <2>1, <2>2, <2>3, AloneStep DEF Busy
<1>7. ASSUME NEW j \in Refreshers, Refresh(j) \/ FailRefresh(j) PROVE AloneInv'
  BY <1>3, <1>4, <1>5, <1>6, <1>7
     DEF Refresh, Gone, UpsertParent, Clear, Insert,
     FailRefresh, Busy
<1>8. CASE UNCHANGED mirrorVars
  BY <1>8 DEF mirrorVars, AloneInv, Busy, Holds, Held
<1> QED BY <1>1, <1>2, <1>7, <1>8
        DEF MirrorNext, AddLine, DropLine, Delete, Restore,
        SoftDelete, Edit

-----------------------------------------------------------------------------
\* The theorems about one work order.

LEMMA MirrorInvariance == MirrorSpec => []MirrorInv
<1>1. MirrorInit => MirrorInv
  BY MirrorInitType, InitDates DEF MirrorInit, MirrorInv, GhostInv, AloneInv
<1>2. MirrorInv /\ [MirrorNext]_mirrorVars => MirrorInv'
  BY MirrorNextType, NextDates, NextGhost, NextAlone DEF MirrorInv
<1> QED BY <1>1, <1>2, PTL DEF MirrorSpec

\* The row, its lines and what each refresh carries stay what the code takes them for.
THEOREM MirrorTyped == MirrorSpec => []MirrorTypeOK
<1>1. MirrorInv => MirrorTypeOK
  BY DEF MirrorInv
<1> QED BY <1>1, MirrorInvariance, PTL

\* The date a line was first seen, which withFirstSeen carries over from the rows that
\* are about to be deleted, moves only when a replace ended between its delete and its
\* insert or refreshes raced each other, whatever else fails and is tried again.
THEOREM DatesMoved == MirrorSpec => []DatesMoveOnlyByTearsOrRaces
<1>1. MirrorInv => DatesMoveOnlyByTearsOrRaces
  BY DEF MirrorInv, DatesInv, DatesMoveOnlyByTearsOrRaces
<1> QED BY <1>1, MirrorInvariance, PTL

\* A line once mirrored and still on the work order is missing only while a replace is
\* between its delete and its insert, after one that ended there, or after a race.
THEOREM LinesVanished == MirrorSpec => []LinesVanishOnlyByTearsOrRaces
<1>1. MirrorInv => LinesVanishOnlyByTearsOrRaces
  BY DEF MirrorInv, DatesInv, LinesVanishOnlyByTearsOrRaces, Kept
<1> QED BY <1>1, MirrorInvariance, PTL

\* A work order whose deletion softDeleteWorkOrder has applied is shown again only if
\* something overlapped a refresh that had read it before.
THEOREM GhostsRaced == MirrorSpec => []GhostsComeFromRaces
<1>1. MirrorInv => GhostsComeFromRaces
  BY DEF MirrorInv, GhostInv, GhostsComeFromRaces
<1> QED BY <1>1, MirrorInvariance, PTL

\* A refresh that nothing interferes with, processWorkOrder's or a walk's, leaves the row
\* and its lines as MaintainX has them, whatever torn or raced refreshes left behind.
THEOREM AloneExact == MirrorSpec => AloneIsExact
<1>1. MirrorInv /\ [MirrorNext]_mirrorVars =>
        [\A j \in alone : (Busy(j) /\ TouchesChildren(j) /\ Finish(j)
                            /\ mishaps' = mishaps)
                            => Exact']_mirrorVars
  BY AloneEnds DEF MirrorInv
<1> QED BY <1>1, MirrorInvariance, PTL DEF MirrorSpec, AloneIsExact
=============================================================================
