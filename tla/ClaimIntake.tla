---------------------------- MODULE ClaimIntake ----------------------------
(***************************************************************************)
(* How a damage claim is filed: the page of one site's device              *)
(* (damage-worker/src/render/claim-form.ts) with its draft, its retries    *)
(* and its watchdog, the intake that answers it (index.ts,                 *)
(* handleClaimSubmission) and the daily sweep of photos nobody filed       *)
(* (uploads.ts).                                                           *)
(*                                                                         *)
(* Every try carries the submission id as idempotency key.  An id is fresh *)
(* until the page first uses it (0).  What is typed into the form is a     *)
(* content number: another customer, or an edit, is another number.  An    *)
(* upload with its own retries is one step; so are a claim's rows, the PDF *)
(* and the two mails made with it.  Every claim is one of equipment, the   *)
(* kind that gets a work order.                                            *)
(***************************************************************************)
EXTENDS Integers, FiniteSets

CONSTANTS
  Tries,        \* tries of one submit (3)
  Watches,      \* tries of its watchdog (30)
  Slots,        \* bound: tries the worker has in hand at once, 1..n
  MaxIds,       \* bound: submission ids used
  MaxContents,  \* bound: customers and edits
  MaxPhotos,    \* bound: photos uploaded
  MaxVisits,    \* bound: times the page is opened
  MaxSubmits,   \* bound: clicks on Submit
  MaxMishaps    \* bound: lost answers, aborted or evicted tries, failed queries

ASSUME CodeAssumption == Tries \in Nat \ {0} /\ Watches \in Nat
ASSUME IntakeAssumption ==
  /\ Slots \subseteq Nat /\ Slots # {} /\ IsFiniteSet(Slots)
  /\ {MaxIds, MaxContents, MaxPhotos, MaxVisits, MaxSubmits, MaxMishaps} \subseteq Nat

VARIABLES
  page,    \* the open page, or ClosedPage
  draft,   \* localStorage of the device
  tries,   \* [Slots -> a try the worker has in hand]
  claims,  \* [Ids -> the claim filed under the key]
  photos,  \* [Photos -> the object in R2]
  sweep,   \* photos the sweep is about to delete
  typed, visits, submits, mishaps,
  \* History variables:
  posted,    \* [Ids -> contents the page sent]
  shown,     \* successes shown: the key, and what the form held
  told,      \* [Ids -> mails about a claim that this try did not file]
  crowded,   \* [Ids -> tries sent while another one was in hand]
  followed,  \* [Ids -> follow-ups of the claim that were carried out]
  missed,    \* [Ids -> follow-ups of the claim that a failure cost it]
  swept,     \* keys filed while the sweep was under way with their photos
  rekeyed    \* a form that was sent, or shown as filed, was given another key

counts == <<typed, visits, submits, mishaps>>
traces == <<posted, shown, told, crowded, followed, missed, swept, rekeyed>>
worker == <<tries, claims, photos, sweep>>
intakeVars == <<page, draft, worker, counts, traces>>

-----------------------------------------------------------------------------
(* State. *)

Ids == 1..MaxIds
Contents == 1..MaxContents
Photos == 1..MaxPhotos

\* What a draft holds, and the body of a try; 0 is none.
Forms == [content : Contents \cup {0}, key : Ids \cup {0}, photo : Photos \cup {0}]
Blank == [content |-> 0, key |-> 0, photo |-> 0]

\* banner: the draft it offers to resume; body: what submit froze.
ClosedPage == [view |-> "closed", form |-> Blank, banner |-> Blank, step |-> "idle",
               body |-> Blank, tried |-> 0, timer |-> FALSE]
Pages == [view : {"closed", "form", "outcome"}, form : Forms, banner : Forms,
          step : {"idle", "submitting", "backoff", "watchdog"}, body : Forms,
          tried : 0..(IF Tries > Watches THEN Tries ELSE Watches), timer : BOOLEAN]

\* waits: who hears the answer; filed: this try has written the claim.
FollowUps == {"order", "flow", "mail"}
Free == [step |-> "free", body |-> Blank, waits |-> "none", filed |-> FALSE]
Try == [step : {"free", "lookup", "head", "insert", "ok", "failed", "missing"} \cup FollowUps,
        body : Forms, waits : {"none", "submit", "watchdog"}, filed : BOOLEAN]

NoClaim == [content |-> 0, photo |-> 0]
NoPhoto == [key |-> 0, there |-> FALSE]

IntakeTypeOK ==
  /\ page \in Pages /\ draft \in Forms
  /\ tries \in [Slots -> Try]
  /\ claims \in [Ids -> [content : Contents \cup {0}, photo : Photos \cup {0}]]
  /\ photos \in [Photos -> [key : Ids \cup {0}, there : BOOLEAN]]
  /\ sweep \subseteq Photos
  /\ typed \in 0..MaxContents /\ visits \in 0..MaxVisits
  /\ submits \in 0..MaxSubmits /\ mishaps \in 0..MaxMishaps
  /\ posted \in [Ids -> SUBSET Contents]
  /\ shown \subseteq [key : Ids, content : Contents \cup {0}]
  /\ told \in [Ids -> Nat] /\ crowded \in [Ids -> Nat]
  /\ followed \in [Ids -> SUBSET FollowUps] /\ missed \in [Ids -> SUBSET FollowUps]
  /\ swept \subseteq Ids /\ rekeyed \in BOOLEAN

IntakeInit ==
  /\ page = ClosedPage /\ draft = Blank
  /\ tries = [s \in Slots |-> Free]
  /\ claims = [k \in Ids |-> NoClaim]
  /\ photos = [p \in Photos |-> NoPhoto]
  /\ sweep = {}
  /\ typed = 0 /\ visits = 0 /\ submits = 0 /\ mishaps = 0
  /\ posted = [k \in Ids |-> {}] /\ shown = {}
  /\ told = [k \in Ids |-> 0] /\ crowded = [k \in Ids |-> 0]
  /\ followed = [k \in Ids |-> {}] /\ missed = [k \in Ids |-> {}]
  /\ swept = {} /\ rekeyed = FALSE

Filed(k) == claims[k] # NoClaim
Mishap == mishaps < MaxMishaps /\ mishaps' = mishaps + 1

\* Ids and contents anything has ever used: the next is one more.
UsedIds == {page.form.key, draft.key} \cup {photos[p].key : p \in Photos}
            \cup {k \in Ids : posted[k] # {}}
KeyInUse(form) ==
  IF form.key # 0 THEN form.key
  ELSE CHOOSE k \in Ids \cup {MaxIds + 1} :
         k \notin UsedIds /\ \A j \in Ids : j < k => j \in UsedIds

\* Nothing of the page hears an answer any more.
Answered == {"ok", "failed", "missing"}
Deaf == [s \in Slots |-> IF tries[s].step \in Answered THEN Free
                         ELSE [tries[s] EXCEPT !.waits = "none"]]

-----------------------------------------------------------------------------
(* The page. *)

\* The submission id is the draft's, whatever the banner's answer will be.
IdAlwaysFresh == 0
IdFromDraft == draft.key

Open ==
  /\ page.view = "closed" /\ visits < MaxVisits
  /\ visits' = visits + 1
  /\ \/ /\ page' = [ClosedPage EXCEPT !.view = "form", !.banner = draft,
                                      !.form = [Blank EXCEPT !.key = IdFromDraft]]
        /\ UNCHANGED draft
     \/ /\ draft # Blank    \* older than 30 days
        /\ draft' = Blank
        /\ page' = [ClosedPage EXCEPT !.view = "form"]
  /\ UNCHANGED <<worker, typed, submits, mishaps, traces>>

Close ==
  /\ page.view # "closed"
  /\ page' = ClosedPage /\ tries' = Deaf
  /\ UNCHANGED <<draft, claims, photos, sweep, counts, traces>>

\* The overlay covers the form while a submit is tried.
Editable == page.view = "form" /\ page.step \in {"idle", "watchdog"}

Type ==
  /\ Editable
  /\ typed < MaxContents /\ typed' = typed + 1
  /\ page' = [page EXCEPT !.form.content = typed', !.timer = TRUE]
  /\ UNCHANGED <<draft, worker, visits, submits, mishaps, traces>>

\* One photo stands for those a form must have.
Upload ==
  LET key == KeyInUse(page.form)
  IN /\ Editable /\ page.form.photo = 0 /\ key \in Ids
     /\ \E p \in Photos :
          /\ photos[p] = NoPhoto /\ \A q \in Photos : q < p => photos[q] # NoPhoto
          /\ photos' = [photos EXCEPT ![p] = [key |-> key, there |-> TRUE]]
          /\ page' = [page EXCEPT !.form.key = key, !.form.photo = p, !.timer = TRUE]
     /\ UNCHANGED <<draft, tries, claims, sweep, counts, traces>>

\* saveDraft, half a second after the last change, whatever happened meanwhile.
SaveDraft ==
  LET key == KeyInUse(page.form)
  IN /\ page.timer /\ key \in Ids
     /\ page' = [page EXCEPT !.form.key = key, !.timer = FALSE]
     /\ draft' = page'.form
     /\ rekeyed' = (rekeyed \/ page.view = "outcome")
     /\ UNCHANGED <<worker, counts, posted, shown, told, crowded, followed, missed, swept>>

Resume ==
  /\ Editable /\ page.banner # Blank
  /\ page' = [page EXCEPT !.form.content = page.banner.content,
                          !.form.photo = page.banner.photo,
                          !.banner = Blank, !.timer = TRUE]
  /\ UNCHANGED <<draft, worker, counts, traces>>

\* The fields keep what was typed before the click.
StartOver ==
  /\ Editable /\ page.banner # Blank
  /\ draft' = Blank
  /\ page' = [page EXCEPT !.form.key = 0, !.form.photo = 0, !.banner = Blank]
  /\ rekeyed' = (rekeyed \/ \E k \in Ids : page.form.content \in posted[k])
  /\ UNCHANGED <<worker, counts, posted, shown, told, crowded, followed, missed, swept>>

-----------------------------------------------------------------------------
(* Submit, its retries and its watchdog. *)

FirstFree(s) == tries[s] = Free /\ \A t \in Slots : t < s => tries[t] # Free

\* The page sends body; hears, the tries as the page still listens to them.
Send(body, who, hears) ==
  \E s \in Slots :
    /\ FirstFree(s)
    /\ tries' = [hears EXCEPT ![s] =
                   [step |-> "lookup", body |-> body, waits |-> who, filed |-> FALSE]]
    /\ posted' = [posted EXCEPT ![body.key] = @ \cup {body.content}]
    /\ crowded' = [crowded EXCEPT ![body.key] =
                      IF \E t \in Slots : tries[t] # Free /\ tries[t].body.key = body.key
                      THEN @ + 1 ELSE @]

Submit ==
  /\ Editable /\ page.form.content # 0 /\ page.form.photo # 0
  /\ submits < MaxSubmits /\ submits' = submits + 1
  /\ LET body == [page.form EXCEPT !.key = KeyInUse(page.form)]
     IN /\ body.key \in Ids
        /\ page' = [page EXCEPT !.step = "submitting", !.tried = 1, !.body = body,
                                !.form = body]
        /\ Send(body, "submit", Deaf)
  /\ UNCHANGED <<draft, claims, photos, sweep, typed, visits, mishaps,
                 shown, told, followed, missed, swept, rekeyed>>

TryAgain ==
  /\ page.step = "backoff"
  /\ page' = [page EXCEPT !.step = "submitting", !.tried = @ + 1]
  /\ Send(page.body, "submit", tries)
  /\ UNCHANGED <<draft, claims, photos, sweep, counts,
                 shown, told, followed, missed, swept, rekeyed>>

\* fireWatchdogAttempt: every minute, or as the device comes online.
Watch ==
  /\ page.step = "watchdog" /\ page.tried < Watches
  /\ page' = [page EXCEPT !.tried = @ + 1]
  /\ Send(page.body, "watchdog", tries)
  /\ UNCHANGED <<draft, claims, photos, sweep, counts,
                 shown, told, followed, missed, swept, rekeyed>>

SpentTooLate == page.tried > Watches
Spent == page.tried = Watches

StopWatching ==
  /\ page.step = "watchdog" /\ Spent
  /\ page' = [page EXCEPT !.step = "idle"]
  /\ tries' = Deaf
  /\ UNCHANGED <<draft, claims, photos, sweep, counts, traces>>

\* A submit's try failed in a way that is worth another.
Unanswered ==
  IF page.tried < Tries THEN [page EXCEPT !.step = "backoff"]
  ELSE [page EXCEPT !.step = "watchdog", !.tried = 0]

ShowOutcome ==
  [page EXCEPT !.view = "outcome", !.step = "idle", !.form.key = 0]

\* Try s's answer arrives.
Hear(s) ==
  LET t == tries[s]
  IN /\ t.step \in Answered
     /\ \/ /\ t.step = "ok"
           /\ page' = ShowOutcome /\ draft' = Blank
           /\ tries' = [Deaf EXCEPT ![s] = Free]
           /\ shown' = shown \cup {[key |-> t.body.key, content |-> page.form.content]}
        \/ /\ t.step # "ok"
           /\ page' = IF t.waits = "watchdog" THEN page
                      ELSE IF t.step = "failed" THEN Unanswered
                      ELSE [page EXCEPT !.step = "idle"]
           /\ tries' = [tries EXCEPT ![s] = Free]
           /\ UNCHANGED <<draft, shown>>
     /\ UNCHANGED <<claims, photos, sweep, counts,
                    posted, told, crowded, followed, missed, swept, rekeyed>>

\* The page hears of no answer: its 30 seconds are over, or the network failed.
\* The try itself goes on.
Abort(s) ==
  /\ tries[s].waits # "none" /\ Mishap
  /\ page' = IF tries[s].waits = "submit" THEN Unanswered ELSE page
  /\ tries' = [tries EXCEPT ![s] = Deaf[s]]
  /\ UNCHANGED <<draft, claims, photos, sweep, typed, visits, submits, traces>>

-----------------------------------------------------------------------------
(* The worker. *)

\* An answer nobody waits for ends the try.
To(s, step) ==
  tries' = [tries EXCEPT ![s] =
              IF step \in Answered /\ tries[s].waits = "none" THEN Free
              ELSE [tries[s] EXCEPT !.step = step]]

\* getClaimByIdempotencyKey; a failed look-up goes on without it.
KnownNever(k) == FALSE
Known(k) == Filed(k)

Lookup(s) ==
  /\ tries[s].step = "lookup"
  /\ \/ /\ To(s, IF Known(tries[s].body.key) THEN "ok" ELSE "head")
        /\ UNCHANGED mishaps
     \/ Mishap /\ To(s, "head")
  /\ UNCHANGED <<page, draft, claims, photos, sweep, typed, visits, submits, traces>>

\* A photo that R2 fails to look up is taken for a missing one.
HeadPhotos(s) ==
  /\ tries[s].step = "head"
  /\ \/ /\ To(s, IF photos[tries[s].body.photo].there THEN "insert" ELSE "missing")
        /\ UNCHANGED mishaps
     \/ Mishap /\ To(s, "missing")
  /\ UNCHANGED <<page, draft, claims, photos, sweep, typed, visits, submits, traces>>

\* saveClaimSubmission, whose failure ends the try, and writeClaimBatch: the key's
\* unique index refuses a second claim, and a query that fails may have been
\* carried out.  A try that was told so makes no work order and says it failed.
Insert(s) ==
  LET b == tries[s].body
      rows == [claims EXCEPT ![b.key] = [content |-> b.content, photo |-> b.photo]]
  IN /\ tries[s].step = "insert"
     /\ \/ /\ ~Filed(b.key)
           /\ claims' = rows
           /\ tries' = [tries EXCEPT ![s].step = "order", ![s].filed = TRUE]
           /\ UNCHANGED <<mishaps, missed>>
        \/ /\ Filed(b.key)
           /\ To(s, "flow")
           /\ UNCHANGED <<claims, mishaps, missed>>
        \/ /\ Mishap /\ ~Filed(b.key)
           /\ claims' = rows
           /\ To(s, "flow")
           /\ missed' = [missed EXCEPT ![b.key] = FollowUps]
        \/ /\ Mishap /\ (To(s, "flow") \/ To(s, "failed"))
           /\ UNCHANGED <<claims, missed>>
     /\ swept' = IF claims' # claims /\ b.photo \in sweep THEN swept \cup {b.key} ELSE swept
     /\ UNCHANGED <<page, draft, photos, sweep, typed, visits, submits,
                    posted, shown, told, crowded, followed, rekeyed>>

\* What a try still owes the claim it filed.
Ahead(t) ==
  {f \in FollowUps : /\ t.filed
                     /\ \/ t.step = "order"
                        \/ t.step = "flow" /\ f # "order"
                        \/ t.step = "mail" /\ f = "mail"}
MissedBy(t, lost) ==
  missed' = IF t.filed THEN [missed EXCEPT ![t.body.key] = @ \cup lost] ELSE missed

\* One follow-up's call, whether the claim was filed or not.  A failed one is logged
\* and passed over: the work order's eight seconds, a flow that refuses and is left
\* in R2 for an operator, a PDF or a mail that cannot be made or sent.
OwesIfHeard(t) == t.filed /\ t.waits # "none"
Owes(t) == t.filed
Calls(s, f) ==
  LET t == tries[s]
  IN \/ /\ followed' = IF Owes(t) THEN [followed EXCEPT ![t.body.key] = @ \cup {f}]
                       ELSE followed
        /\ UNCHANGED <<mishaps, missed>>
     \/ /\ Mishap /\ MissedBy(t, {f})
        /\ UNCHANGED followed

\* createMaintainXWorkOrder: only a try that knows it filed the claim gets here.
WorkOrder(s) ==
  /\ tries[s].step = "order"
  /\ Calls(s, "order") /\ To(s, "flow")
  /\ UNCHANGED <<page, draft, claims, photos, sweep, typed, visits, submits,
                 posted, shown, told, crowded, swept, rekeyed>>

\* Power Automate.  If R2 cannot take what the flow refused either, the try ends here.
Flow(s) ==
  /\ tries[s].step = "flow"
  /\ \/ Calls(s, "flow") /\ To(s, "mail")
     \/ /\ Mishap /\ MissedBy(tries[s], {"flow", "mail"})
        /\ To(s, "failed")
        /\ UNCHANGED followed
  /\ UNCHANGED <<page, draft, claims, photos, sweep, typed, visits, submits,
                 posted, shown, told, crowded, swept, rekeyed>>

\* The PDF with the customer's and the internal mail; then the answer, which
\* mentions no follow-up that failed, or the alert that nothing was filed.
SaysAllIsWell(t) == "ok"
Says(t) == IF t.filed THEN "ok" ELSE "failed"

Mail(s) ==
  /\ tries[s].step = "mail"
  /\ Calls(s, "mail") /\ To(s, Says(tries[s]))
  /\ told' = IF tries[s].filed \/ mishaps' # mishaps THEN told
             ELSE [told EXCEPT ![tries[s].body.key] = @ + 1]
  /\ UNCHANGED <<page, draft, claims, photos, sweep, typed, visits, submits,
                 posted, shown, crowded, swept, rekeyed>>

\* The worker is evicted, or never got the request; the page hears a failure.
Evict(s) ==
  /\ tries[s] # Free /\ Mishap
  /\ tries' = [tries EXCEPT ![s] = Free]
  /\ page' = IF tries[s].waits = "submit" THEN Unanswered ELSE page
  /\ MissedBy(tries[s], Ahead(tries[s]))
  /\ UNCHANGED <<draft, claims, photos, sweep, typed, visits, submits,
                 posted, shown, told, crowded, followed, swept, rekeyed>>

-----------------------------------------------------------------------------
(* runClaimUploadsCleanup. *)

OrphanAnyway(p) == photos[p].there
Orphan(p) == photos[p].there /\ ~Filed(photos[p].key)

\* Of those, the ones older than a day: a form may have been open for longer.
SweepLook ==
  /\ sweep = {}
  /\ sweep' \in SUBSET {p \in Photos : Orphan(p)} /\ sweep' # {}
  /\ UNCHANGED <<page, draft, tries, claims, photos, counts, traces>>

SweepDelete ==
  /\ sweep # {}
  /\ photos' = [p \in Photos |-> IF p \in sweep THEN [photos[p] EXCEPT !.there = FALSE]
                                 ELSE photos[p]]
  /\ sweep' = {}
  /\ swept' = swept \cup {tries[s].body.key : s \in {t \in Slots :
                 tries[t].step = "insert" /\ tries[t].body.photo \in sweep}}
  /\ UNCHANGED <<page, draft, tries, claims, counts,
                 posted, shown, told, crowded, followed, missed, rekeyed>>

-----------------------------------------------------------------------------
Person == Open \/ Close \/ Type \/ Upload \/ Resume \/ StartOver \/ Submit
Timers == SaveDraft \/ TryAgain \/ Watch \/ StopWatching
Worker(s) ==
  Lookup(s) \/ HeadPhotos(s) \/ Insert(s) \/ WorkOrder(s) \/ Flow(s) \/ Mail(s)
Sweep == SweepLook \/ SweepDelete

IntakeNext ==
  \/ Person \/ Timers \/ Sweep
  \/ \E s \in Slots : Hear(s) \/ Abort(s) \/ Worker(s) \/ Evict(s)

\* The page's timers fire and the worker goes on; nobody has to click, and no
\* mishap has to happen.
IntakeFairness ==
  /\ WF_intakeVars(TryAgain) /\ WF_intakeVars(Watch) /\ WF_intakeVars(StopWatching)
  /\ \A s \in Slots : WF_intakeVars(Hear(s)) /\ WF_intakeVars(Worker(s))

IntakeSpec == IntakeInit /\ [][IntakeNext]_intakeVars /\ IntakeFairness

-----------------------------------------------------------------------------
(* Properties. *)

\* A success that the page shows is of a claim on file, and of what the form
\* held, unless one submission id stood for two contents: a draft's id taken on by
\* the next customer's form, or a form edited between two tries.
SuccessMeansFiled ==
  \A x \in shown :
    /\ Filed(x.key)
    /\ claims[x.key].content = x.content \/ posted[x.key] # {x.content}

\* One form is filed once, unless it was given another submission id after it was
\* sent: by "Start over", or by the draft's timer after the success.
FiledOnce ==
  \A j, k \in Ids :
    j # k /\ Filed(j) /\ Filed(k) => claims[j].content # claims[k].content \/ rekeyed

\* getClaimByIdempotencyKey, "dedup retried submissions ... before any side
\* effects fire": mails about a claim that was not filed go out only for a
\* mishap or a try that was sent beside another.
PhantomsAreExcused ==
  \A k \in Ids : told[k] <= mishaps + crowded[k]

\* The sweep's 24 hours and its look at the claims: a filed claim's photos stay,
\* unless it was being filed between that look and the deletion, or they were
\* uploaded under another submission id that nothing was ever sent under.
FiledPhotosStay ==
  \A k \in Ids : Filed(k) =>
    \/ photos[claims[k].photo].there
    \/ k \in swept
    \/ posted[photos[claims[k].photo].key] = {}

\* The work order, the flow and the mails of a filed claim come from the one try
\* that filed it, whether or not a page still waits for it: each was carried out,
\* or is still ahead of that try, or was missed by a failure.  That is a failed call
\* of its own, which the answer does not mention and no retry repeats (a known id
\* only has the success replayed), a try that died first or ended because R2 was out
\* as well, or an insert that was carried out and reported as failed.
FiledIsFollowedUp ==
  \A k \in Ids : Filed(k) =>
    \A f \in FollowUps :
      \/ f \in followed[k] \cup missed[k]
      \/ \E s \in Slots : tries[s].body.key = k /\ f \in Ahead(tries[s])

\* submitWithRetry and startWatchdog end: with an outcome, an error or the last
\* try of the watchdog.
PageSettles == page.step # "idle" ~> page.step = "idle"

\* index.ts:4514: "a retry after a lost-response success collapses onto the
\* original claim": what the page shows as filed is what is on file.
ShownIsFiled == \A x \in shown : claims[x.key].content = x.content
=============================================================================
