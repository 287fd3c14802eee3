---------------------------- MODULE SharedDraft ----------------------------
(***************************************************************************)
(* The one shared draft of a site's unfinished visit (or delivery): the    *)
(* row in inventory.drafts, the worker's save (saveDraftRow, a read and a  *)
(* conditional write that is tried again), and the form's hook             *)
(* (useSharedDraft.js), which saves after a pause, learns the version from *)
(* the answer and may have several saves under way at once.                *)
(*                                                                         *)
(* A client is one account on one device.  What is on its screen is        *)
(* abstracted to the number of its latest change.  Sites and kinds share   *)
(* no row, so one of them is enough.                                       *)
(***************************************************************************)
EXTENDS Integers, FiniteSets

CONSTANTS
  Clients, Accounts,
  Account,      \* [Clients -> Accounts]: the e-mail address signed in
  Slots,        \* places for saves of one client under way at once
  MaxUnderWay,  \* bound: saves under way at once
  Attempts,     \* the three rounds of saveDraftRow
  NoRow,        \* the site has no draft
  MaxChanges,   \* bound: changes made to forms
  MaxLives,     \* bound: drafts begun
  MaxSaves,     \* bound: saves sent
  MaxFaults     \* bound: failed calls, lost answers, pages closed on a save,
                \* shared drafts discarded

ASSUME ClientsAssumption == Account \in [Clients -> Accounts]
ASSUME BoundsAssumption ==
  /\ MaxChanges \in Nat /\ MaxLives \in Nat /\ MaxSaves \in Nat /\ MaxUnderWay \in Nat
  /\ MaxFaults \in Nat
  /\ Attempts \in Nat \ {0}

VARIABLES
  row,      \* inventory.drafts, or NoRow
  form,     \* the page of each client
  copy,     \* [Clients -> BOOLEAN]: draft.js has a device copy
  save,     \* [Clients -> [Slots -> a PUT under way]]
  post,     \* [Clients -> where its POST of the visit is]
  wipe,     \* [Clients -> BOOLEAN]: a DELETE under way
  faults,
  \* History variables:
  changes,    \* changes made so far
  sent,       \* saves sent so far
  lives,      \* drafts begun so far; a row carries the number of its own
  overlapped, \* clients one of whose saves was sent while another ran
  unreported, \* how saves replaced work nobody had shown their author
  revived     \* how saves of an ended draft landed

ghosts == <<changes, sent, lives, overlapped, unreported, revived>>
vars == <<row, form, copy, save, post, wipe, faults, ghosts>>

Changes == 0..MaxChanges  \* 0: none
Lives == 0..MaxLives
Versions == Nat \ {0}
Row == [version : Versions, by : Clients, change : Changes, life : Lives \ {0}]

ASSUME NoRowAssumption == NoRow \notin Row

\* base_version, and the draft that version belonged to; null has version 0.
Base == [version : Versions \cup {0}, life : Lives]
Blank == [version |-> 0, life |-> 0]
BaseOf(r) == IF r = NoRow THEN Blank ELSE [version |-> r.version, life |-> r.life]

\* phase stands for loaded and offer, shown for serverDraft; timer: the change the armed server timer captured.
\* lineage: the draft what is on the screen belongs to (history).
Statuses == {"idle", "saving", "saved", "device", "gone"}
Form == [phase : {"away", "offered", "editing", "submitting"},
         base : Base, shown : Base, change : Changes,
         dirty : BOOLEAN, timer : Changes, status : Statuses, lineage : Lives]
Away == [phase |-> "away", base |-> Blank, shown |-> Blank, dirty |-> FALSE,
         change |-> 0, timer |-> 0, status |-> "idle", lineage |-> 0]

\* mine: the page that sent it still listens.
Save == [step : {"none", "read", "write", "answer"}, mine : BOOLEAN,
         change : Changes, base : Base, lineage : Lives, tries : 0..(Attempts - 1),
         current : Row \cup {NoRow}, reply : {"none", "gone", "failed", "ok"},
         made : Base]
Free == [step |-> "none", mine |-> FALSE, change |-> 0, base |-> Blank,
         lineage |-> 0, tries |-> 0, current |-> NoRow, reply |-> "none",
         made |-> Blank]

TypeOK ==
  /\ row \in Row \cup {NoRow}
  /\ form \in [Clients -> Form]
  /\ copy \in [Clients -> BOOLEAN]
  /\ save \in [Clients -> [Slots -> Save]]
  /\ post \in [Clients -> {"none", "clear", "filed", "refused"}]
  /\ wipe \in [Clients -> BOOLEAN]
  /\ faults \in 0..MaxFaults /\ lives \in Lives
  /\ changes \in Changes /\ sent \in 0..MaxSaves
  /\ overlapped \subseteq Clients
  /\ unreported \subseteq [reborn : BOOLEAN, crossed : BOOLEAN]
  /\ revived \subseteq [unlearned : BOOLEAN, onto : {"nothing", "successor"}]

Init ==
  /\ row = NoRow
  /\ form = [c \in Clients |-> Away]
  /\ copy = [c \in Clients |-> FALSE]
  /\ save = [c \in Clients |-> [s \in Slots |-> Free]]
  /\ post = [c \in Clients |-> "none"]
  /\ wipe = [c \in Clients |-> FALSE]
  /\ faults = 0 /\ changes = 0 /\ sent = 0 /\ lives = 0
  /\ overlapped = {} /\ unreported = {} /\ revived = {}

-----------------------------------------------------------------------------
(* The form. *)

Orphaned(slots) == [s \in Slots |-> [slots[s] EXCEPT !.mine = FALSE]]

\* The form is opened and its GET answered.  Whichever copy is the newer one is
\* offered; the device's clock and the worker's need not agree, so with both
\* there it may be either.  Without any, or with the server out of reach and no
\* device copy, the form starts blank.
Open(c) ==
  /\ form[c].phase = "away" /\ post[c] = "none" /\ changes < MaxChanges
  /\ \E reached \in BOOLEAN :
       LET shown == IF reached THEN BaseOf(row) ELSE Blank
           start == [Away EXCEPT
                       !.shown = shown,
                       !.status = IF reached THEN "idle" ELSE "device"]
       IN /\ reached \/ faults < MaxFaults
          /\ faults' = IF reached THEN faults ELSE faults + 1
          /\ form' = [form EXCEPT ![c] =
               [start EXCEPT !.phase = IF shown = Blank /\ ~copy[c]
                                       THEN "editing" ELSE "offered"]]
  /\ UNCHANGED <<row, copy, save, post, wipe, ghosts>>

\* What the save effect does once the screen changed: it arms the timers, the
\* server's only if the status is not "gone", in place of those armed before.
EditedOnce(f, n) ==
  [f EXCEPT !.change = n, !.dirty = TRUE, !.phase = "editing",
            !.timer = IF f.status = "gone" THEN 0 ELSE IF f.timer # 0 THEN f.timer ELSE n]

Edited(f, n) ==
  [f EXCEPT !.change = n, !.dirty = TRUE, !.phase = "editing",
            !.timer = IF f.status = "gone" THEN 0 ELSE n]

Change ==
  /\ changes < MaxChanges
  /\ changes' = changes + 1
  /\ UNCHANGED <<sent, lives, overlapped, unreported, revived>>

Type(c) ==
  /\ form[c].phase = "editing" /\ Change
  /\ form' = [form EXCEPT ![c] = Edited(@, changes')]
  /\ copy' = [copy EXCEPT ![c] = TRUE]
  /\ UNCHANGED <<row, save, post, wipe, faults>>

\* Typed back to the pristine seed: the device copy goes, the timers with it.
Revert(c) ==
  /\ form[c].phase = "editing" /\ form[c].dirty
  /\ form' = [form EXCEPT ![c] = [@ EXCEPT !.dirty = FALSE, !.timer = 0]]
  /\ copy' = [copy EXCEPT ![c] = FALSE]
  /\ UNCHANGED <<row, save, post, wipe, faults, ghosts>>

\* Either copy is taken over the shared one that was loaded, so base is the
\* latter's version.  Applying it changes the form, which arms the timers.
Resume(c) ==
  /\ form[c].phase = "offered" /\ Change
  /\ LET base == form[c].shown
     IN form' = [form EXCEPT ![c] =
          Edited([@ EXCEPT !.base = base, !.lineage = base.life, !.shown = Blank],
                 changes')]
  /\ copy' = [copy EXCEPT ![c] = TRUE]
  /\ UNCHANGED <<row, save, post, wipe, faults>>

\* The DELETE names the site, not the version that was on offer.
Discard(c) ==
  /\ form[c].phase = "offered"
  /\ form' = [form EXCEPT ![c] =
       [@ EXCEPT !.phase = "editing", !.base = Blank, !.shown = Blank]]
  /\ copy' = [copy EXCEPT ![c] = FALSE]
  /\ IF form[c].shown = Blank THEN UNCHANGED <<wipe, faults>>
     ELSE /\ wipe' = [wipe EXCEPT ![c] = TRUE]
          /\ faults < MaxFaults /\ faults' = faults + 1
  /\ UNCHANGED <<row, save, post, ghosts>>

\* After "gone": what is on the screen is shared as a draft of its own.
StartNew(c) ==
  /\ form[c].phase = "editing" /\ form[c].status = "gone"
  /\ form' = [form EXCEPT ![c] =
       [@ EXCEPT !.base = Blank, !.status = "idle", !.lineage = 0,
                 !.timer = IF form[c].dirty THEN form[c].change ELSE 0]]
  /\ UNCHANGED <<row, copy, save, post, wipe, faults, ghosts>>

\* The server timer fires: a PUT of the values its effect captured, over the
\* base known by now.  restoreReplaced is an edit like any other.
Running(c) == {s \in Slots : save[c][s].step # "none"}

SendSave(c, s) ==
  /\ form[c].timer # 0 /\ save[c][s].step = "none" /\ sent < MaxSaves
  /\ Cardinality(UNION {{d} \X Running(d) : d \in Clients}) < MaxUnderWay
  /\ sent' = sent + 1
  /\ save' = [save EXCEPT ![c][s] =
       [Free EXCEPT !.step = "read", !.mine = TRUE, !.change = form[c].timer,
                    !.base = form[c].base, !.lineage = form[c].lineage]]
  /\ form' = [form EXCEPT ![c] = [@ EXCEPT !.timer = 0, !.status = "saving"]]
  /\ overlapped' = IF Running(c) = {} THEN overlapped \ {c} ELSE overlapped \cup {c}
  /\ UNCHANGED <<row, copy, post, wipe, faults, changes, lives, unreported, revived>>

\* The answer of a save reaches the form, if it is still there.
Heard(f, reply, made) ==
  CASE reply = "gone"   -> [f EXCEPT !.status = "gone"]
    [] reply = "failed" -> [f EXCEPT !.status = "device"]
    [] reply = "ok"     -> [f EXCEPT !.status = "saved", !.base = made]

HearSave(c, s) ==
  LET p == save[c][s]
  IN /\ p.step = "answer"
     /\ form' = IF p.mine THEN [form EXCEPT ![c] = Heard(@, p.reply, p.made)] ELSE form
     /\ save' = [save EXCEPT ![c][s] = Free]
     /\ UNCHANGED <<row, copy, post, wipe, faults, ghosts>>

\* The connection breaks: the form takes the save for failed, whatever the
\* worker makes of it.
LoseSave(c, s) ==
  /\ save[c][s].step # "none" /\ save[c][s].mine /\ faults < MaxFaults
  /\ faults' = faults + 1
  /\ form' = [form EXCEPT ![c] = Heard(@, "failed", Blank)]
  /\ save' = [save EXCEPT ![c][s] =
       IF @.step = "answer" THEN Free ELSE [@ EXCEPT !.mine = FALSE]]
  /\ UNCHANGED <<row, copy, post, wipe, ghosts>>

\* The page is closed.
Close(c) ==
  /\ form[c].phase \in {"offered", "editing"}
  /\ form' = [form EXCEPT ![c] = Away]
  /\ save' = [save EXCEPT ![c] = Orphaned(@)]
  /\ faults' = IF Running(c) = {} THEN faults ELSE faults + 1
  /\ faults' <= MaxFaults
  /\ UNCHANGED <<row, copy, post, wipe, ghosts>>

-----------------------------------------------------------------------------
(* The worker: saveDraftRow. *)

Ended(life) == life # 0 /\ (row = NoRow \/ row.life # life)

\* A base that was saved or discarded since, and no draft any more.
RefusedNever(p) == FALSE
RefusedAsGone(p) == row = NoRow /\ p.base.version # 0

ReadDraft(c, s) ==
  /\ save[c][s].step = "read"
  /\ save' = [save EXCEPT ![c][s] =
       IF RefusedAsGone(@) THEN [@ EXCEPT !.step = "answer", !.reply = "gone"]
       ELSE [@ EXCEPT !.step = "write", !.current = row]]
  /\ UNCHANGED <<row, form, copy, post, wipe, faults, ghosts>>

\* Nobody got in between: the row is there in the version that was read, or
\* still absent (the primary key).
Untouched(p) ==
  \/ p.current = NoRow /\ row = NoRow
  \/ p.current # NoRow /\ row # NoRow /\ row.version = p.current.version

\* "replaced": the row that was read is someone else's and not the base.
ReportsTwoBehind(c, p) ==
  /\ p.current # NoRow
  /\ p.current.version > p.base.version + 1
  /\ Account[p.current.by] # Account[c]

Reports(c, p) ==
  /\ p.current # NoRow
  /\ p.current.version # p.base.version
  /\ Account[p.current.by] # Account[c]

\* The row about to be replaced is another's that this client never saw.
Unseen(c, p) == row # NoRow /\ Account[row.by] # Account[c] /\ BaseOf(row) # p.base

Replacing(c, p) ==
  IF Unseen(c, p) /\ ~(Reports(c, p) /\ BaseOf(p.current) = BaseOf(row))
  THEN {[reborn |-> row.version = p.base.version,
         crossed |-> row.life # p.current.life]}
  ELSE {}

Reviving(p) ==
  IF Ended(p.lineage)
  THEN {[unlearned |-> p.base.version = 0,
         onto |-> IF row = NoRow THEN "nothing" ELSE "successor"]}
  ELSE {}

Written(c, p) ==
  [version |-> IF p.current = NoRow THEN 1 ELSE p.current.version + 1,
   by |-> c, change |-> p.change,
   life |-> IF row = NoRow THEN lives + 1 ELSE row.life]

\* The write lands; the screen it came from belongs to that draft from now on.
Land(c, s) ==
  LET p == save[c][s]
  IN /\ p.step = "write" /\ Untouched(p)
     /\ row = NoRow => lives < MaxLives
     /\ row' = Written(c, p)
     /\ lives' = IF row = NoRow THEN lives + 1 ELSE lives
     /\ save' = [save EXCEPT ![c][s] =
          [@ EXCEPT !.step = "answer", !.reply = "ok", !.made = BaseOf(row'),
                    !.current = NoRow]]
     /\ form' = IF p.mine THEN [form EXCEPT ![c].lineage = row'.life] ELSE form
     /\ unreported' = unreported \cup Replacing(c, p)
     /\ revived' = revived \cup Reviving(p)
     /\ UNCHANGED <<copy, post, wipe, faults, changes, sent, overlapped>>

\* Moved in between (0 rows, or 23505): read again, three times in all, then 409.
ExhaustedLate(p) == p.tries = Attempts
Exhausted(p) == p.tries + 1 = Attempts

Collide(c, s) ==
  LET p == save[c][s]
  IN /\ p.step = "write" /\ ~Untouched(p)
     /\ save' = [save EXCEPT ![c][s] =
          IF Exhausted(p)
          THEN [@ EXCEPT !.step = "answer", !.reply = "failed", !.current = NoRow]
          ELSE [@ EXCEPT !.step = "read", !.tries = p.tries + 1, !.current = NoRow]]
     /\ UNCHANGED <<row, form, copy, post, wipe, faults, ghosts>>

\* A call to the database fails.
FailSave(c, s) ==
  /\ save[c][s].step \in {"read", "write"} /\ faults < MaxFaults
  /\ faults' = faults + 1
  /\ save' = [save EXCEPT ![c][s] =
       [@ EXCEPT !.step = "answer", !.reply = "failed", !.current = NoRow]]
  /\ UNCHANGED <<row, form, copy, post, wipe, ghosts>>

DeleteDraft(c) ==
  /\ wipe[c]
  /\ wipe' = [wipe EXCEPT ![c] = FALSE]
  /\ \/ row' = NoRow /\ UNCHANGED faults
     \/ faults < MaxFaults /\ faults' = faults + 1 /\ UNCHANGED row
  /\ UNCHANGED <<form, copy, save, post, ghosts>>

-----------------------------------------------------------------------------
(* Filing: POST /api/visits (or /api/deliveries). *)

\* The visit is stored, or refused: its day has one already, or the call fails.
Submit(c) ==
  /\ form[c].phase = "editing" /\ form[c].dirty /\ post[c] = "none"
  /\ form' = [form EXCEPT ![c].phase = "submitting"]
  /\ \E outcome \in {"clear", "refused"} : post' = [post EXCEPT ![c] = outcome]
  /\ UNCHANGED <<row, copy, save, wipe, faults, ghosts>>

\* Fail-soft: the answer is the same when the draft could not be deleted.
ClearDraftAfterSubmit(c) ==
  /\ post[c] = "clear"
  /\ post' = [post EXCEPT ![c] = "filed"]
  /\ \/ row' = NoRow /\ UNCHANGED faults
     \/ faults < MaxFaults /\ faults' = faults + 1 /\ UNCHANGED row
  /\ UNCHANGED <<form, copy, save, wipe, ghosts>>

\* cleared() and off to the site's page, or the error below the form.
HearPost(c) ==
  /\ post[c] \in {"filed", "refused"}
  /\ post' = [post EXCEPT ![c] = "none"]
  /\ IF post[c] = "filed"
     THEN /\ form' = [form EXCEPT ![c] = Away]
          /\ copy' = [copy EXCEPT ![c] = FALSE]
          /\ save' = [save EXCEPT ![c] = Orphaned(@)]
     ELSE /\ form' = [form EXCEPT ![c].phase = "editing"]
          /\ UNCHANGED <<copy, save>>
  /\ UNCHANGED <<row, wipe, faults, ghosts>>

LosePost(c) ==
  /\ post[c] = "filed" /\ faults < MaxFaults
  /\ faults' = faults + 1
  /\ post' = [post EXCEPT ![c] = "none"]
  /\ form' = [form EXCEPT ![c].phase = "editing"]
  /\ UNCHANGED <<row, copy, save, wipe, ghosts>>

Next ==
  \E c \in Clients :
    \/ Open(c) \/ Type(c) \/ Revert(c) \/ Resume(c) \/ Discard(c) \/ StartNew(c)
    \/ Close(c) \/ DeleteDraft(c)
    \/ Submit(c) \/ ClearDraftAfterSubmit(c) \/ HearPost(c)
    \/ LosePost(c)
    \/ \E s \in Slots :
         \/ SendSave(c, s) \/ HearSave(c, s) \/ LoseSave(c, s)
         \/ ReadDraft(c, s) \/ Land(c, s) \/ Collide(c, s) \/ FailSave(c, s)

Spec == Init /\ [][Next]_vars

-----------------------------------------------------------------------------
(* Properties. *)

\* saveDraftRow, "Recreating it would resurrect a count that is already filed":
\* a save whose draft has ended never makes a new draft of it, but when its form
\* had not been told yet that its first save had made that draft.
FiledStaysFiled ==
  \A r \in revived : r.onto = "nothing" => r.unlearned

\* saveDraftRow, "replaced always describes what was actually overwritten":
\* work of somebody else that the saver had not seen is replaced with a report of
\* that very work, but for versions that begin again at 1: when the row is of a
\* later draft and has the number the saver knows, or the one it has just read.
OverwritesAreReported ==
  \A u \in unreported : u.reborn \/ u.crossed

\* The form's "saved": with nothing more to send and no save of its own that ran
\* beside another, a row this client wrote last holds what is on its screen.
SavedIsShared ==
  \A c \in Clients :
    (/\ form[c].status = "saved" /\ form[c].dirty /\ form[c].timer = 0
     /\ Running(c) = {} /\ c \notin overlapped
     /\ row # NoRow /\ row.by = c)
    => row.change = form[c].change

\* The compare-and-set on version: within one draft every save adds exactly one,
\* whoever else is saving, and a new draft begins at 1.
VersionStep ==
  (row' # row /\ row' # NoRow) =>
    IF row = NoRow THEN row'.version = 1 /\ row'.life = lives + 1
    ELSE row'.version = row.version + 1 /\ row'.life = row.life
VersionsCount == [][VersionStep]_vars

-----------------------------------------------------------------------------
\* The inductive invariants behind the properties.

\* A save that is answered has an answer; one that read no draft had no base; the
\* draft another read is no later than the one that is there, and in the same
\* version it is that one.
SaveStands(p) ==
  /\ p.step = "answer" => p.reply # "none"
  /\ p.step = "write" /\ p.current = NoRow => p.base.version = 0
  /\ p.step = "write" /\ p.current # NoRow =>
       /\ p.current.life <= lives
       /\ row # NoRow /\ row.life = p.current.life =>
            /\ p.current.version <= row.version
            /\ p.current.version = row.version => p.current = row

SaveInv ==
  /\ row # NoRow => row.life = lives
  /\ \A c \in Clients, s \in Slots : SaveStands(save[c][s])

\* No save is of a page that is closed.  Unless saves of its own overlapped, a
\* client has one under way at most, which holds what is on the screen until that
\* changes, and the row if it wrote it.
CarriesScreen(c, p) ==
  /\ p.mine => form[c].status = "saving"
  /\ p.mine /\ form[c].dirty /\ form[c].timer = 0 => p.change = form[c].change
  /\ p.step = "answer" /\ p.reply = "ok" /\ row # NoRow /\ row.by = c
       => row.change = p.change

ScreenStands(c) ==
  /\ form[c].timer \in {0, form[c].change}
  /\ form[c].phase = "away" => form[c].timer = 0 /\ \A s \in Slots : ~save[c][s].mine
  /\ c \notin overlapped =>
       /\ form[c].status = "saved" => Running(c) = {}
       /\ \A s, t \in Running(c) : s = t
       /\ \A s \in Running(c) : CarriesScreen(c, save[c][s])

ScreenInv == \A c \in Clients : ScreenStands(c)

-----------------------------------------------------------------------------
\* What a comment of the repository says and the code does not do.

\* saveDraftRow's comment (db.ts:2208): a stored draft saved by someone else
\* after base_version is reported.  The code compares numbers that begin again.
NothingReplacedUnreported == unreported = {}
=============================================================================
