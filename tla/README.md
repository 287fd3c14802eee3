# Splash: TLA+ models and proofs

Splash is the internal platform of a car-wash operator: a pnpm monorepo of
Cloudflare Workers (`apps/*-worker`), a web application (`apps/web`), shared
packages (`packages/*`) and one Supabase Postgres database, which the workers
reach over PostgREST, one HTTP call at a time and without transactions. What is
hard to get right is therefore rarely inside one function. It is what happens
between two calls: another request, a cron run, a Power Automate flow, a crash
or an administrator.

## 1. The system

| Component | State | Operations | Interacts with |
|---|---|---|---|
| Outbound email queue (`packages/db-supabase/src/outbound-emails.ts`, `apps/forms-worker/src/email-queue`, `admin/email-queue.ts`, `supabase/outbound-email-routes-01.sql`) | `outbound_emails` rows (claim, attempts, sent), `outbound_email_routes` | enqueue, claim, send, confirm, Cloudflare drain, Retry, Abandon, re-route | every worker that sends mail enqueues; Power Automate and a one-minute cron drain |
| Forms workflow (`apps/forms-worker/src/submit`, `admin/submissions.ts`, `workflow-email-step.ts`, `approval-links`) | `form_submissions` (stage, history, approvers, status), `form_approval_links` | submit, transition from the dashboard, transition by emailed link, email-step cascade, status edits, approver re-resolution | enqueues into the email queue; the links it mails come back as requests |
| MaintainX pipeline (`apps/workorders-worker`, `packages/db-supabase/src/maintainx-ingest.ts`) | webhook event rows, ingest watermark, mirrored work orders | record a webhook, process it in the background, five-minute drain, ingest pass, reconcile, time sweep, digest | MaintainX API; email queue |
| Form builder (`admin/forms.ts`, `db/admin-forms.ts`) | `forms` (status, current and draft version, scope key), `form_versions` | create, save the draft, publish, archive, restore | submissions are validated against, and pinned to, the current version |
| Action items, SDS, uploads and the R2 clean-up cron (`apps/forms-worker`) | items, sheets, objects in R2 | assign, complete, upload, daily orphan clean-up | submissions |
| Damage claims (`apps/damage-worker`, `packages/db-d1`) | the form's draft on a device, claims, their documents and photos in R2, activity | file a claim (retried, watched), sweep orphaned photos, transitions, causes, equipment override, quotes and receipts, check request | MaintainX (work orders), Power Automate, mail |
| Promotions (`apps/promo-worker`) | promotions with their status, ticket and assignees; sites with their marks and stamps; announcements | create, edit the ticket, assign, set the status, mark a site, notify the marked sites, announce | email queue |
| Authentication (`packages/auth`, `apps/dashboard-worker`, `apps/sysadmin-worker`) | sessions, MFA factors, impersonation | log in, enrol, step up, impersonate, reset | every worker |
| Inventory (`apps/inventory`) | one shared draft per site and kind, device copies, visits, stock | open, resume, save, discard a draft, file the visit | email queue |
| Performance, Beekeeper, sign-up, fleet, JotForm workers | schedules, budgets, pricing cache, webhooks | digests, sync, checkout forms | MaintainX, Beekeeper, Stripe-like services |
| Web application, report, PDF, XLSX and UI packages | none of their own | render | the workers |

Behaviours that are hard here: two drains and an administrator on one row with
no lock but a claim id; read-then-PATCH sequences in place of transactions;
decisions raced by two approvers, or by a link and the dashboard; work that is
enqueued before the write that justifies it; webhooks that are acknowledged
before they are processed and processed by two paths; snapshots (of a row, a
form definition, a claim, a draft's version) used after they went stale; numbers
that begin again (a draft's version, a document's key); pages that go on with what
they hold after their request was answered, or never was.

For each component, what makes it correct:

- Email queue: an enqueued email is sent at least once or ends up visibly
  stuck; a second copy needs an excuse (a claim that went stale, a retry of a
  claimed row, a send whose result was lost); failures are counted one by one;
  only a re-route makes both drains send one email; an abandoned row is silent.
- Forms workflow: the history is the decisions that took effect; a link decides
  once, at the stage it was minted for, by somebody entitled to; a spent link
  stands for a decision; the approvers on the row are those of its stage; what
  the history calls mailed is in the queue; decided submissions close.
- Webhook deliveries: what MaintainX tells only once (an observation) is written
  down first and once; a delivery leaves the queue, neither early nor never;
  stamps are final; a rejected delivery has no effect.
- Work-order mirror: an undisturbed refresh is exact; a line, its date or a
  deletion is lost only to a torn replace or a race; the sweeps repair it.
- Ingest passes: the watermark never passes a change that was not written; a
  re-armed walk covers the live queue; a gap in the open work orders heals.
- Damage claims, intake: one form is one claim, shown as filed only if it was,
  announced, with its photos; the page's tries end.
- Damage claims, review: an approval, its quote and the check request that is
  sent stay together; one work order per claim; documents keep their files.
- Form builder: what is public was checked and stays what it was; the next draft is
  its copy; a form ends with a draft to write to and its newest version current.
- Inventory drafts: a filed count does not come back; overwriting somebody
  else's newer draft is always reported to the one who overwrites.
- Promotions: a site stamped as notified has its emails in the queue, and a stamp
  is for the mark it was made of; a promotion with a date and an assignee moves on.
- Authentication: an impersonation ends with its grant and writes nothing.

## 2. Plan

1. **EmailQueue**, with **Outbox** as its abstract specification. Every other
   component enqueues into it. Done, proved, refinement proved.
2. **FormWorkflow**, one submission and everything that decides on it. Done, all
   of its properties proved. Next: an abstract specification of a decision log
   that the link path implements, and the composition with the queue, whose
   `Enqueue` is the workflow's `Enqueued` on keys (stage, recipient).
3. **MxDeliveries**, the life of a webhook delivery. Done, proved.
4. **MxMirror**, what a refresh does to one work order. Done, all of its safety
   properties proved.
5. **MxSweep**: sync state, cursor and watermark of the passes, the reconcile and
   the manual kick. Done, all of its safety properties proved for the cron alone; it
   delivers the fairness MxMirror assumes of its walk.
6. **SharedDraft**: versions, the client, filing. Done, proved.
7. **ClaimIntake** and **ClaimReview**: how a claim is filed, and the transitions,
   approvals and documents after it. Done, all of their safety properties proved.
8. **PromoSites** (marks and stamps against the queue's unique index) and
   **PromoTicket** (the automatic advance of the status). Done, proved.
9. **FormPublish**: one form, its versions and the calls of publishing. Done, proved.
10. Left: the clean-up of form uploads, **PricingCache**, **Impersonation**, the
   announcements and materials of a promotion, and the work named above.

The project keeps twelve runs, of forty properties that must hold and one that must be
violated, so that all of it can be
run again in half an hour. When a new module needs one, a run that only demonstrates
a finding gives way, and so does a property that is proved or shallow. Nothing is
lost by it: the property stays in its module, the configuration beside it
(`tlc -config EmailQueueAbandon.cfg MCEmailQueue` reproduces its counterexample), and
the finding in section 14. No run lists a type invariant: they are all theorems. The
same goes for `QuietAbandonHolds`, `FailuresAreCounted`, `RejectsAreInert`,
`StampIsFinal`, `ObservedOnce`, `GivesUpOnlyAfterEnough`, `VersionsCount`,
`AutoCloseAgrees`, `EmailRestIsExcused`, `LinkWritesWhereMinted`,
`DecidersAreApprovers`, `LinesVanishOnlyByTearsOrRaces`, `AloneIsExact` and
`WatermarkForward`, all theorems of section 15.

An operator commented as a mutant is its definition with a plausible bug: putting it
in the definition's place must violate the property it was written for. They show that
a property says something about the code; no specification uses them.

## 3. EmailQueue and Outbox

`EmailQueue.tla` is the table `outbound_emails` and everybody who writes it.

| Model | Code |
|---|---|
| an element of `Emails` | the unique key (source_worker, source_kind, source_id, recipient) of a row; its content is abstracted away |
| `scheduledFor`, `sentVia`, `claimId`, `attempts` | scheduled_for (as order of insertion), sent_at and sent_via, claim_id, send_attempts |
| `stale` | claimed_at is more than ten minutes ago |
| `routes` | outbound_email_routes; no row means Power Automate |
| `work[r][e]`, `snap[r][e]` | how far run r is with row e, and the send_attempts it read |
| `Enqueue` | enqueueOutboundEmail with ignore-duplicates |
| `Claim`, `PaClaim`, `CfClaim` | claim_outbound_emails: unsent, below five attempts, unclaimed or stale, routed here, oldest first, at most n |
| `PaSend`, `CfSend` | hand over to the provider: taken, rejected, or taken with an error seen |
| `PaMarkSent`, `PaReadAttempts`, `PaMarkFailed` | the confirm endpoint; a failure reads and writes send_attempts in two calls |
| `CfMarkSent`, `CfMarkFailed` | the drain's PATCHes; a PATCH that throws becomes a failure, one that throws inside the catch ends the run |
| `Retry`, `ViewStuck`, `Abandon`, `SetRoute` | the operators, on a page that may be out of date |
| `Crash`, `ClaimExpires` | the end of an invocation; ten minutes |

History variables (`sends`, `carriers`, `excuses`, `abandoned`, `rerouted`) are
never read by an action. A claim id is a fresh UUID in the code; the model reuses
one when nothing in the table distinguishes it from a fresh one (`Fresh`).

`Outbox.tla` is the contract: an accepted email is handed to senders until it is
recorded, recorded only after a copy went out, and never handed out again once
recorded. Its `holders` are the runs about to send (`AboutToSend`).

- **queue_batch**: two rows of two kinds claimed together, a run of each drain, one
  fault, one operator action. Checks `SplitNeedsReroute`, `EachCopyIsExcused`, the
  refinement `ImplementsOutbox` and the liveness `SettlesEventually`. The first three
  are theorems too.
- `EmailQueueRow.cfg` is the larger configuration for `EachCopyIsExcused` and
  `FailuresAreCounted`: one row, two runs of each drain, two operator actions, three
  faults, which allow a slow run, its successor's lost result and one more.
- `EmailQueueShared.cfg` and `EmailQueueAbandon.cfg` violate what the repository
  says; see section 14.

Fairness: both schedules recur (the flow polls, the cron runs every minute), a run
that began goes on unless it crashes, and ten minutes pass. Nobody is obliged to
enqueue or to operate. Faults are finite: an email that kills its run every time
would be claimed for ever without an attempt being counted, which is why the
liveness needs the bound.

## 4. FormWorkflow

`FormWorkflow.tla` is one submission of one form under a workflow given by
constants: approval stages, email stages, outcomes, transitions, who approves
what under the pinned and under the newest version, and who is mailed.

| Model | Code |
|---|---|
| `row` | form_submissions: stage, history, current_approver_emails, status, payload |
| `minted`, `usedBy`, `expired` | form_approval_links: a link is named by the request that minted it, its stage and its recipient; used_at; expires_at |
| `mail` | the workflow's rows in outbound_emails: which request's email stays and whether it carries a link |
| `req[r]` | a request between two calls: its snapshot of the row, the history it will write, where the cascade is |
| `Submit`, `Insert` | handleSubmit up to the cascade; insertSubmissionIdempotent |
| `DecideOnDashboard` | handleTransition, then applyTransition's gate |
| `DecideByLink`, `Claim`, `Release` | validateLink and handleApprovalLinkSubmit; claimApprovalLink; releaseApprovalLink |
| `EmailStage`, `Rest` | one turn of cascadeThroughEmailSteps with partial failures of minting and enqueueing; its end |
| `Patch` | transitionSubmission, filtered by the expected stage for links only |
| `RestampRead`, `RestampWrite` | handleReResolveApprovers, row by row |
| `SetStatus`, `LinksExpire`, `Crash` | status edits, seven days, the end of an invocation |

- **forms_race**: two payloads with different approvers, three requests of any
  kind, two faults, one status edit, in a workflow that returns to its review stage
  through one email stage or two. Three requests are a submit and two racers, or the
  A-B-A of a stage left and entered again. The depth cap is two (MAX_CASCADE_DEPTH is
  10 in the code; what happens at the cap does not depend on its value): one email
  stage is under it, two in a row reach it, and there the cascade stops as the code's
  does, without a look at the next stage, which is left without approvers. Checks
  `HistoryIsTheDecisions` (what the history says took effect, once per link, and what
  was written over it had an excuse), `SpentLinkIsDecided`, `StampMatchesStage`, `NotedMailIsQueued` and
  `MailIsForADecision`: an email in the queue announces something that took effect,
  unless a call failed, a link's approver was overtaken after the cascade had queued
  it, or a submit was posted twice.
  All five are theorems, for any workflow whose email stages have one successor; so are
  `AutoCloseAgrees`, `EmailRestIsExcused`, `LinkWritesWhereMinted` and
  `DecidersAreApprovers`, which no run lists.
- `FormWorkflowBothLand.cfg`, `FormWorkflowResurrect.cfg`, `FormWorkflowReentry.cfg`:
  section 14.

Reductions: the two reads of validateLink are one step (what the first saw is
checked again by the claim); all links expire at once; a gate that refuses
changes nothing and has no step; a re-stamp assumes that the newest version still
has the stage. There is no liveness property: the actors are people, who may stop,
and requests are finite, hence `CHECK_DEADLOCK FALSE`.

## 5. MxDeliveries

| Model | Code |
|---|---|
| `row`, `arrival` | mx_webhook_event: processed_at, attempts, process_error; received_at as order |
| `aged` | which rows are older than DRAIN_GRACE_MS |
| `log` | mx_work_order_event, rows per delivery |
| `work[w]` | an inline path (named after its delivery) or a drain: step, attempt, outcome, rest of its batch |
| `Receive`, `ReceiveUnrecorded`, `ReceiveUnanswered`, `Reject` | the route: record, acknowledge, start the inline path; the insert refused or its answer lost; a bad signature |
| `Observe`, `Refresh`, `Stamp` and their failures | processMxWebhookDelivery, step by step |
| `Drain`, `Batch`, `Advance` | runMxWebhookDrain: oldest first, past the grace, up to the batch size |
| `Evict`, `Age` | the end of an invocation; two minutes |

- **mx_deliveries_race**: an observable delivery, one that can never succeed and a
  forged one; two overlapping drains; a give-up limit and a batch size of two;
  three faults. Two attempts are enough for "the first, and the last"; two drains
  and an inline path are three overlapping attempts on one row. Checks
  `ObservationComesFirst` and the liveness `EveryRowIsStamped`; `ObservedOnce` and
  `GivesUpOnlyAfterEnough` are theorems.
- `MxDeliveriesLost.cfg`: section 14.

`InlineMayOverrun` is FALSE in the runs: the platform ends background work about
thirty seconds after the response, the drain waits two minutes. The theorems hold
for TRUE as well. Fairness: the cron recurs, a worker goes on unless evicted, time
passes; faults are finite. Deliveries are finite, hence `CHECK_DEADLOCK FALSE`.

## 6. MxMirror

| Model | Code |
|---|---|
| `order` | the work order in MaintainX: does it exist, its cost lines |
| `row` | its mx_work_order row: absent, shown or hidden (deleted_at), and the total computed from the lines it was mapped from |
| `costs` | mx_work_order_expenditure: for each line absent, dated on its first sighting ("first") or later ("moved") |
| `deletes` | WORK_ORDER_DELETE deliveries still to be processed |
| `job[j]` | a refresh between two calls: what it read, the dates it found |
| `Refetch`, `Gone`, `UpsertParent` | processWorkOrder, and a page of runWorkOrderPass; a 404 hides the row |
| `Snapshot`, `Clear`, `Insert` | replaceMxWorkOrderExpenditures and its page-wide sibling: read the dates, delete, insert again |
| `FailRefresh` | a call fails or the invocation ends; a page may have been inserted in part |
| `SoftDelete` | softDeleteWorkOrder for a delivery, late or twice |
| `Sweep` | runMxTimeSweep choosing this row: reactive and not hidden |

- **mx_mirror_refresh**: two lines, a reader and a walker, three changes upstream
  (add and remove a line, delete, restore), one fault. Two refreshes are what
  every race takes; two lines tell a line that survives from one that does not.
  `DatesMoveOnlyByTearsOrRaces` (and, for the lines themselves,
  `LinesVanishOnlyByTearsOrRaces`) bounds the damage: a failure before the delete, or a parent written without its children,
  costs nothing that a retry does not restore, but a failure between delete and
  insert does. `GhostsComeFromRaces` does the same for a deleted work order shown
  again. `Converges` says that the sweep and the reconcile repair whatever the
  races did. `AloneIsExact` is that a refresh nothing interfered with is right. All but
  `Converges` are theorems.

Fairness: refreshes go on or fail, a recorded deletion is processed in the end
(EveryRowIsStamped; the model does not let it give up), the sweep comes round to
every candidate and the daily reconcile walks the live queue. `Converges` is for
a reactive, live work order. With `Reactive = FALSE` it is false: a preventive
work order that a stale read shows again is in nobody's candidate set, which
mx-reconcile.ts (from line 138 on) names as the direction it does not cover.

Overlapping refreshes are not as harmless as index.ts:423 has it ("every write is
an upsert"): expenditures and time items are deleted and inserted, and the
snapshot of the dates is worth only as much as the insert that follows it.

## 7. MxSweep

`MxSweep.tla` is how the mirror is kept complete. A page of the list is one row and
its write is one step, because MxMirror takes that write apart. Each change upstream
has an instant of its own. The backfill is over when a behaviour begins.

| Model | Code |
|---|---|
| `up`, `list` | the work orders in MaintainX, and as its list shows them: the list may lag |
| `mirror` | mx_work_order, by version |
| `sync`, `watermark` | mx_sync_state: cursor and last_success_at of the live pass and of the sweep, the sweep's watermark |
| `runs[r]` | an invocation of runMxIngest, the cron's or a manual kick's: the cursor and the watermark it found, the page it holds, maxUpdatedAt |
| `Start`, `Fetch`, `Write`, `Commit`, `Fail`, `Evict` | runMxIngest choosing its pass; a page, a failure or an empty answer; rows, then checkpoint; the watermark; the cursor a failed run writes; the end of an invocation |
| `ReadLive`, `ReArm` | runMxReconcile: read the live pass, clear its cursor and its success stamp in a second call |
| `Change`, `Show` | MaintainX |

- **mx_sweep**: two work orders, three instants, an overlap of one, one list lag, one
  fault, the cron alone. Two orders are a row that is on the page and one behind it;
  three changes let a row move behind a walk that has passed it; the lag is longer
  than the overlap in some behaviours and shorter in others. Checks `NoHole`,
  `ReArmIsWalked` and the liveness `GapsHeal`. The first two, and `WatermarkForward`,
  are theorems for any number of orders, instants, lags and faults.
- `MxSweepKick.cfg`: one manual kick, no fault. `NoHole` is violated; section 14. The run
  mx_sweep has the cron alone, so no property of it is about a kick beside the cron.

Fairness: the crons recur, a run that began goes on unless evicted, the list catches
up. Faults, changes and lags are finite. The model gives no fairness to a kick and
none to a change. `Change` waits for a run whose twenty-second budget would be
outlived by more than the overlap.

`excused` is the one case NoHole leaves out: mx-reconcile.ts:45-47 measured a list lag
of one to two hours, and the sweep looks back five minutes. A closed work order's
change that the list shows so late is hidden for good; an open one's is healed by the
reconcile, which is what `GapsHeal` says. `unlisted` and `excused` name versions, an
order with the instant of its change. When they named orders and a later change of the
order cleared them, `NoHole` was not inductive and, with a second lag, false: the list
can still be about to show the older version, which is hidden all the same.

## 8. SharedDraft

`SharedDraft.tla` is the draft of one site's unfinished visit, the worker's save and
the form's hook. A client is an account on a device; its screen is the number of its
latest change.

| Model | Code |
|---|---|
| `row` | inventory.drafts: version, who saved it, the change it holds; `life` numbers the drafts of the site (history) |
| `form[c]` | useSharedDraft: loaded and offer (`phase`), base_version (`base`), the version on offer (`shown`), the armed server timer and the change it captured, the status line |
| `copy[c]` | the device copy of draft.js |
| `save[c][s]` | a PUT under way: what it carries, the row it read, its round, its answer, whether its page still listens |
| `Open`, `Resume`, `Discard`, `StartNew`, `Type`, `Revert`, `Close` | the page; an edit re-arms the timer |
| `SendSave`, `HearSave`, `LoseSave` | the timer fires, the answer arrives or is lost |
| `ReadDraft`, `Land`, `Collide`, `FailSave` | saveDraftRow: read and refuse ("gone"), conditional write, read again up to three times |
| `DeleteDraft`, `Submit`, `ClearDraftAfterSubmit`, `HearPost`, `LosePost` | discarding; filing, whose clean-up may fail silently |

- **draft_race**: two people, two slots each, three changes, two drafts in succession,
  three saves with two under way at once, one fault; two rounds instead of three
  (what happens in the last does not depend on which it is). Two drafts are what a
  version that begins again takes; three saves are one to make a draft, one to move
  it and one that raced. Checks `FiledStaysFiled`, `OverwritesAreReported`,
  `SavedIsShared`. The clients are symmetric as their accounts differ.
- `SharedDraftReborn.cfg`: section 14.

Each property names what it excuses, and each excuse is a behaviour of the code: a
page that does not know yet that its first save made the draft (`unlearned`), versions
that begin again (`reborn`, `crossed`), saves of one page that overlap
(`overlapped`). There is no liveness: people may stop. `CHECK_DEADLOCK FALSE` since
the bounds end every behaviour.

## 9. ClaimIntake

`ClaimIntake.tla` is one device's page, the worker's intake and the photo sweep.

| Model | Code |
|---|---|
| `page` | claim-form.ts: the form, the banner that offers a draft, the submit, backoff or watchdog it is in, the frozen body |
| `draft` | localStorage: the content, the submission id, the photo |
| `tries[s]` | a POST in the worker: look up the key, head the photos, insert, then the work order, the flow and the mails; `waits` is who still listens |
| `claims`, `photos` | the claims by idempotency key; the objects in R2 by key |
| `followed`, `missed` | history: which of a claim's follow-ups were carried out, and which were given up because something failed |
| `Open`, `Type`, `Upload`, `SaveDraft`, `Resume`, `StartOver`, `Close` | the page before a submit; the draft is saved half a second after the last change, even after the outcome |
| `Submit`, `TryAgain`, `Watch`, `StopWatching`, `Hear`, `Abort` | submitWithRetry and startWatchdog |
| `Lookup`, `HeadPhotos`, `Insert` | handleClaimSubmission: a failed look-up goes on, a photo R2 fails to look up is taken for missing (422), a failed insert still runs the side effects but for the work order |
| `WorkOrder`, `Flow`, `Mail`, `Evict` | the follow-ups in the code's order, each of which may fail and be passed over; the end of an invocation |
| `SweepLook`, `SweepDelete` | runClaimUploadsCleanup: list and look up, then delete |

- **claim_intake**: two visits, two submissions, two contents and ids, two tries of a
  submit and one of its watchdog, one photo, two mishaps, two tries in the worker at
  once. Two tries at once are every race on the key; two contents are a second
  customer, or an edit between two tries. Checks `SuccessMeansFiled`, `FiledOnce`,
  `PhantomsAreExcused`, `FiledPhotosStay`, `FiledIsFollowedUp` and the liveness
  `PageSettles`. The three tries and thirty watches of the code are the constants.
- `ClaimIntakeShown.cfg`: section 14.
- `ClaimIntakeAdopted.cfg` (not a run; twenty seconds): one slot, three visits, three ids,
  two photos. It reaches the last excuse of `FiledPhotosStay`, which the run's one photo
  does not, and which the proof brought to light: while the watchdog is trying, "Start
  over" and an upload put a new photo under a new id; the watchdog's success leaves that
  photo in the form and takes the id away; the draft's timer saves the photo under a
  third id; resumed and submitted, the claim is filed under that one. No claim is ever
  filed under the id in the photo's name, so the sweep of the next day deletes it
  (claim-form.ts:1409, 1452-1480 and 1687; uploads.ts:256).

Fairness: the page's timers fire, the worker goes on, an answer arrives unless a mishap
takes it; nobody has to click.

The follow-ups of a filed claim are fail-soft: a work order that fails or takes eight
seconds is logged (index.ts:4972-5043), a refused flow leaves a copy in R2
(5055-5083), a PDF that fails takes both mails with it (5085-5159). The answer is a
success all the same, and a retry only has it replayed (4534-4560), so nobody repeats
the call. `FiledIsFollowedUp` therefore promises no more than the code does: each
follow-up is carried out, or still ahead of the one try that filed the claim, or in
`missed`, which only a failure of that call, the end of the try (an eviction, or R2
refusing the flow's copy too) or an insert that was carried out and reported as failed
puts it into. What it does rule out is that a call is left out with nothing failing:
because the page has stopped waiting, or because another try met the claim on file.

Left out: the claims without equipment, which get no work order; a work order that was
made but not linked, which counts as a failed call; the calls of `Mail` one by one
(the PDF, the customer's and the internal mail are one call that succeeds or not).

## 10. ClaimReview

`ClaimReview.tla` is a claim after its intake: the table of transitions.ts, and the
requests that act on the claim. Each reads it once and writes some calls later, by its
id alone.

| Model | Code |
|---|---|
| `row` | status, approved amount and quote, cause, equipment flag, work order id |
| `docs`, `files` | the Quote and Receipt rows of claim_photos; whose upload each R2 key holds |
| `orders`, `sent` | work orders that exist in MaintainX; the check request sent to accounts payable |
| `Transitions`, `Clears`, `RequiresQuote`, ... | transitions.ts, entry by entry |
| `BeginTransition`, `PassGate`, `WriteTransition` | handleStatusTransition: validate, find the quote or receipt, update with the activity row |
| `ReReadClaim`, `PostWorkOrder`, `LinkWorkOrder` | tryCreateMaintainXIfMissing after an override |
| `PackageForAP` | the check request, whose amount is read off the quote |
| `BeginCause`, `SetCause` | handleSetFaultCategory |
| `BeginUpload`, `PutFile`, `InsertDoc`, `BeginDelete`, `SoftDelete`, `BeginEdit`, `EditDoc` | the documents: number, put, insert; soft deletion; a quote's amount |

- **claim_review**: two requests of any kind, one overlap, two documents, two
  causes, overrides, edits, deletions or send-backs, one fault. All six properties are
  theorems, whatever the bounds. Quotes below and at
  the threshold tell a note that is owed from one that is not. Two requests are every
  pair of a read and a write behind its back. Checks `ApprovedQuoteStays`,
  `PaymentIsApproved`, `ChecksAreApproved`, `OneWorkOrder`, `FilesAreKept` and the
  action property `TransitionsAreSound`. That one is about a handler's validation: it
  says nothing of a transition written on a status that has changed since it was read,
  which is what `PaymentIsApproved` has to survive.
- `ClaimReviewKeys.cfg`: one request after another, three documents: section 14.

`raced` records what a request broke whose read was stale when it wrote: a property
excuses exactly that pair of requests and nothing else. The model leaves out the
statuses no claim can reach any more, the claims that arrive with their equipment
already flagged, and the purge. `CHECK_DEADLOCK FALSE`: the documents and extras are
bounded.

## 11. PromoSites

`PromoSites.tla` is the sites of one promotion. It has two phases, build and removal,
each with a mark, a stamp and a Notify button of its own; they differ in what
un-marking clears.

| Model | Code |
|---|---|
| `place[s][p]` | promo_locations: a site's flag (built, removed) and whether it is stamped as notified |
| `queue[p][s][a]` | the unique key (kind, promotion:site, recipient) of outbound_emails: which of the site's marks the row is about, 0 for no row |
| `Contact` | pricing_simple: the site's address and its managers' |
| `req[r]` | a Notify in its loop: the sites before it, whom of the first it has yet to mail, whether one failed |
| `PatchLocation` | handlePatchLocationProgress: either flag or both, one PATCH |
| `StartNotify` | handleNotifyCompletedSites and handleNotifyRemovedSites up to the loop: marked, unstamped, with somebody to mail |
| `Enqueue`, `Stamp` | one recipient; the stamp, by promotion and site alone, if no recipient failed |
| `Evict` | the end of an invocation |

- **promo_sites**: two Notify requests of either phase, two sites that share a
  manager (one has no address of its own), two marks, one fault. Two requests are the
  double click and the two colleagues; a second mark is what a site torn down again
  takes; an un-marking needs no bound. Checks `StampedIsMailed` and
  `UnmarkedIsUnstamped`, whose one excuse (`late`) is a Notify that had the site
  before it when it was un-marked and stamps it afterwards.
- **promo_remark**: one site, no fault. `RemarkFiresFresh` is violated; section 14.

## 12. PromoTicket

`PromoTicket.tla` is the status of one promotion and what makes it advance.

| Model | Code |
|---|---|
| `status`, `ready`, `team` | promotions.status; promo_tickets.ready_by_date is set; promo_ticket_assignees |
| `call[r]` | a request between its reads and its writes, with what it read |
| `ReadTicket`, `WriteTicket` | handlePatchTicket: fetchPromoState, then the PATCH, whose returned date counts, and the decision |
| `ReadAssignees`, `AddAssignee` | handleAddAssignee: the same, then the INSERT, refused for somebody assigned already |
| `Due`, `Advance` | maybeAutoAdvanceStatus: its condition; its PATCH, by id alone |
| `RemoveAssignee`, `ReadStatus`, `WriteStatus` | handleRemoveAssignee; handlePatchStatus |
| `EvictTicket` | the end of an invocation |

- **promo_ticket**: three requests of any kind, two people, three statuses, two
  faults. Three requests are two that race and a status set by hand between them; the
  third status stands for all that the advance must not overwrite. Checks
  `AdvanceIsNotMissed` and the action property `AutoAdvanceIsDue`.
- `PromoTicketAdvance.cfg`: section 14.

`stale` and `excuses` are history: who has been overtaken since it read, and why a
promotion that is due may still wait. No promotion module has liveness or fairness:
each step after a request began is the worker's, but whether anybody asks is not, and
a status that was passed over is not looked at again until somebody does.

## 13. FormPublish

`FormPublish.tla` is one form of the builder and its versions. A version's id stands
for its number, which is unique; a schema is told apart by whether the renderer
accepts it and whether it has the field that says which site a submission is about.

| Model | Code |
|---|---|
| `form` | forms: status, current_version_id, draft_version_id, whether scope_field_key is set |
| `versions` | form_versions: is_draft and the schema of each number, or no row |
| `req[r]` | a request between two calls: the version it holds, the schema it read or will write, whether it has a key to set |
| `Create`, `InsertFirst`, `Link` | createForm: the form, its first version, the pointer |
| `SaveDraft`, `WriteDraft` | updateDraft: the look-up, then the PATCH filtered by is_draft, which may match nothing and is answered the same |
| `StartPublish` | handlePublish: getDraftSchema and the strict check |
| `ReadScope`, `FindDraft`, `WriteDraft` | the first publish of an internal form: a site field found, or injected and saved through updateDraft; a failure is logged and the publish goes on without |
| `ReadDraft`, `Promote`, `SetCurrent`, `Spawn`, `Link` | publishDraft: the row, then its four writes, each by id alone |
| `StampScope` | setFormScopeFieldKey |
| `SetStatus` | archive and restore |
| `Evict`, `Failed` | the end of an invocation; a call that failed, or whose answer was lost |

- **form_publish**: two requests of any kind, an internal form, three versions, two
  saves, two faults. Two requests are a save or a publish behind another publish's
  check, and two publishes that pass each other; three versions are a draft, its
  successor and the successor of that one; with two faults a publish can fail, and so
  can the one that comes after it. Checks `PublicIsSound`, `NextDraftIsAClone`,
  `EndsWhole` and the action property `PublishedIsImmutable`, all four theorems too.
- `FormPublishStrict.cfg`, `FormPublishOpen.cfg`: section 14.

The history variables say what a property excuses: `missed` and `flaws`, what somebody
did between a publish's check and its promotion; `reverted`, a publish that was passed
by another; `cut`, a draft whose successor was never linked as a call failed. There is
no liveness: people may stop, and nothing repairs a form that was cut short.
`CHECK_DEADLOCK FALSE`, as versions and saves are bounded.

## 14. Where the code and its texts part

One is a run that must be violated. The others gave their run up to new modules; their
configuration reproduces the counterexample.

| Run or configuration | Text | What the code does |
|---|---|---|
| promo_remark | "a follow-up Re-mark + Notify will fire fresh" (promo-worker/src/handlers/promo-writes.ts:940-941) | un-marking clears the stamp, not the queued row: the second Notify enqueues under the first one's key, which the unique index ignores, and stamps the site though no mail goes out |
| ClaimReviewKeys | "Sequence number is over BOTH active and soft-deleted rows so we never collide on R2 keys" (damage-worker/src/index.ts:3916) | countPhotosOfType counts live rows: after a deletion an upload takes the key, and the file, of a live one |
| MxSweepKick | "Safe to call while the cron is also running: every write is an upsert" (workorders-worker/src/index.ts:426-427) | the kick writes the page it fetched earlier over the newer row of the cron's sweep, whose watermark has gone past it |
| EmailQueueShared | "the two drains can never pick up the same email" (cloudflare-drain.ts:6-7) | after a re-route the other drain takes over a row whose holder is merely slow |
| EmailQueueAbandon | "Row abandoned. It will never send." (actions.ts:61) | a drain that held the row writes its own attempt count over the abandoned mark |
| FormWorkflowBothLand | "two decisions racing each other cannot both" land (admin/submissions.ts:1191-1192) | the dashboard passes no expected stage; its write replaces the link's decision and its history entry |
| FormWorkflowResurrect | "must not be resurrected into somebody's queue" (reresolve-approvers.ts:118-120) | the re-stamp writes by id alone, onto a submission decided meanwhile |
| FormWorkflowReentry | "For each resolved recipient, enqueues" (workflow-email-step.ts:12-13) | a second passage through an email stage hits the unique key and mails nobody, though the history says it did |
| MxDeliveriesLost | "retried rather than lost" (mx-webhook.ts:22-27) | a delivery whose insert was refused is acknowledged with no row to retry |
| SharedDraftReborn | "`replaced` is set when the stored draft was saved by someone else after base_version" (inventory/worker/db.ts:2208) | versions begin again at 1 with every draft: a page of the old one overwrites the new one unreported |
| ClaimIntakeShown | "a retry after a lost-response success collapses onto the original claim" (damage-worker/src/index.ts:4514) | the draft's submission id is also the next customer's: that form is shown as filed, and what is on file is the first one |
| FormPublishStrict | "the rendered public form is always strictly valid" (forms-worker/src/admin/forms.ts:25-26) | the check reads the draft, the promotion is by id: a lenient save that lands in between is published unchecked |
| FormPublishOpen | a draft_version_id at a row that is no draft, "which the lifecycle never produces" (forms-worker/src/db/admin-forms.ts:671-672) | between the promotion and the link of the next draft, and for good when a call in between fails; saves then match no row and are answered with success |
| PromoTicketAdvance | "after a successful PATCH there is at least one assignee AND ready_by_date is non-null, the worker auto-advances" (promo-writes.ts:18-22) | two handlers that each read before the other's write both find the other half missing, and nobody advances |

Smaller ones that no configuration shows:

- the PATCH of stampEvent is unconditional, so an overlapping attempt that fails late
  writes its error over a row already done; an outcome's email is queued before the
  PATCH that may lose its race;
- overlapping refreshes delete and insert expenditures, so index.ts:423 ("every write
  is an upsert") does not hold of them either; a kick can also break `ReArmIsWalked`
  and move the watermark back;
- mx-reconcile.ts:39 says that the sweep sees closed work orders' changes, which it
  does not when the list shows them more than the overlap late;
- the amount of a quote can be edited after its approval, so that AP is sent a check
  request above the threshold without the note (damage-worker/src/index.ts:3194-3241);
- reopening a claim nobody answered into the payment chain is commented "approval
  intact" (transitions.ts:447), but there was none;
- an automatic "No Fault" is written over a cause an operator set in between
  (index.ts:3304), two overrides at once both open a work order (index.ts:3521-3530),
  and a claim whose parts were ordered can be sent back and settled without a receipt
  (transitions.ts:270).

## 15. Proofs

TLAPS checks, for every value of the constants that satisfies the assumptions
named in the modules: finite sets of emails, runs, sites and work orders, disjoint
names, positive limits, an abandoned mark not below the attempts limit, a `NoRow` that
is no row, an email stage with one transition out of it (what the builder's validation
requires), statuses that include the two of the advance. Three theorems have a
hypothesis of their own: those of MxSweep but its type invariant say `Kicks = {} =>`,
because with a manual kick beside the cron the properties are false (section 14).

- `EmailQueueProofs`: `TypeCorrect`, `CopiesExcused`, `RoutesPartition`,
  `AbandonHolds`, `CountsFailures`, `QueueImplementsOutbox`. None of the properties is
  inductive. `CopyInv`
  adds to the bound on copies how much of it is left for whoever may claim the
  row next; it rests on `AcceptInv` (a run told that the mail was taken did send
  it). `RouteInv` ties the work in hand of a kind never re-routed to its
  transport. `AbandonInv` says that a row abandoned while idle has no worker.
  `CountInv` says that what the holder of a row remembers of send_attempts is
  still true, which makes its increments single steps. With the same invariants the
  queue implements Outbox under the mapping of `Contract`: initial states map to
  initial states, each action to a step of Outbox or to a stutter.
- `FormWorkflowProofs`: `TypeCorrect`, `DecisionsAreTold`, `SpentLinksDecide`,
  `StampsMatch`, `NotedIsQueued`, `MailIsMeant`, `EmailRests`, `ClosesAtOutcomes`,
  `LinksWriteWhereMinted`, `ApproversDecide`. Each action is first shown to be one of a
  dozen effects (`Submits`, `Decides`, `Takes`, `Settles`, `Mails`, `Inserts`, `Writes`,
  `Restamps` and the like), which say what it does to the row, to the link, to the mail
  and to its own request and leave the rest of the model out; each of eight invariants
  then has a lemma per effect. `NotedInv`, `StampInv`, `MailInv` and `ClaimInv` say of
  what a request is about to write what the property says of what is written; `HistInv`
  ties the history on the row, and in every decision under way, to what has landed;
  `DepthInv` counts the hops of a cascade, which are the last entries of its history;
  `CloseInv` is what a decision may believe of the status it read. TLC checked the
  conjunction on the instance of forms_race.
- `MxDeliveriesProofs`: `TypeCorrect`, `ObservationFirst`, `Observations`,
  `GivesUp`, `Rejects`, `Final`. `WorkInv` says who may work on which delivery,
  `ObservedInv` that whoever is past the observation can show it, `OnceInv` that
  only the inline path can have observed a delivery without a row, and `CountInv`
  that an attempt numbered n was preceded by n - 1 failures, whoever counted.
- `SharedDraftProofs`: `TypeCorrect`, `FiledStays`, `OverwritesReported`,
  `SavedShared`, `Versioned`, for any clients, rounds and numbers of saves under way.
  `SaveInv` is what the worker may believe of the row it has read: the same draft in
  the same version is the same row, and a save that found no draft had no base.
  From it follow the two properties of the worker when a write lands. `ScreenInv` is
  the page's side: without overlapping saves of its own a client has one under way,
  which holds what is on the screen until that changes. Its proof goes client by
  client (`Screen(c)`): one lemma for what others' steps leave, one per kind of own
  step. TLC checked both invariants on the instance of draft_race.

- `ClaimProofs`: of ClaimReview `TypeCorrect`, `QuoteStays`, `PaymentApproved`,
  `ChecksApproved`, `AtMostOneOrder`, `FilesKept`, `Transitioning`; of ClaimIntake
  `IntakeTyped`, `SuccessFiled`, `OneFiling`, `PhantomsCounted`, `PhotosStay`,
  `FollowedUp` (`DebtPaid` is the lemma for one call of the try that filed the
  claim: what it called is paid or missed, the rest is still ahead).
  The review's invariant is
  `Base` (`NoteInv` what a request carries for good, `FreshInv` what it read that is
  still so while nobody has written under it, `PriceInv` that an approval has the amount
  of its quote, `DocInv` and `Distinct` that uploads are told apart), `OneInv`, who may
  be opening a work order, and `FileInv`, that the keys of a kind none of whose files
  was deleted are numbered without a gap, which is why an upload then takes a free one.
  The properties themselves (`Goals`) are inductive beside these.
  The intake: each action is first shown to be one of twenty-one effects (`OpenDoes`,
  `SubmitBy`, `HearOk`, `InsertBy` and the like), in five families (`Editing`, `Sending`,
  `Quieting`, `Ending`, `Working`, `Sweeping`), and nothing any of them does takes
  back a claim, a content sent or a photo's id (`Grows`). `TryInv` says what a try in hand
  carries and has done, `HearInv` that what the page still listens to is what it is
  waiting for, `PageInv` how the form, the frozen body and the draft go together. `OneId`
  is FiledOnce seen from the page: what was sent under an id is held, if at all, with
  that id; it rests on `TypedInv`, that nothing is sent before it is typed. `OwnInv` says
  of every photo that is held, frozen, sent or filed whose id it carries: its holder's, a
  filed one, or one nothing will ever be sent under (`Lost`); `StayInv` is then the sweep.
  PhantomsAreExcused is a count, and `CountInv` the balance that keeps it: mails sent for
  nothing, and tries that are bound to send one, are together no more than the mishaps and
  the crowded tries, but for one as long as a claim may still be filed. TLC checked the
  conjunction on the run's instance and on two with more ids and photos (3.5 million
  states).
- `MxMirrorProofs`: of MxSweep `SweepTyped`, `SweepLeavesNoHole`, `ReArmedWalkIsWhole`,
  `WatermarkAdvances`; of MxMirror `MirrorTyped`, `DatesMoved`, `LinesVanished`,
  `GhostsRaced`, `AloneExact`.
  The sweep: `ClockInv` orders the instants (mirror, list, MaintainX, clock), `PageInv`
  and `SinceInv` say what a page and a cursor are worth, and `HoleInv` is `NoHole` with
  what makes it inductive: of the rows the next sweep would ask for, those its cursor
  has passed are written (`WalkInv`) and so is what it has seen when it moves the
  watermark, but for versions the list had not shown, which are in `unlisted` for as
  long as the look-back still covers them (`HiddenInv`). `OwedInv` says the same of the
  live pass: what is owed is ahead of its cursor.
  The mirror: `DatesInv` says that without an excuse refreshes come one after the other
  and each carries every date it is about to delete; `GhostInv` that a refresh that read
  a work order since deleted has its deletion still to come; `AloneInv` how far a
  refresh that nothing has interfered with has got. TLC checked the parts on larger
  instances than the runs' first: of MxSweep with two lags and three or four instants
  (12.6 million states), of MxMirror 25 million states.
- `PromoProofs`: of PromoSites `TypeCorrect`, `StampsAreMailed`, `UnmarkedUnstamped`; of
  PromoTicket `TicketTyped`, `Advanced`, `AdvancesAreExcused`. Neither property of the
  sites is inductive, for the stamp is written long after what justifies it.
  `Delivered` says of a Notify in its loop that whoever of the current site is no
  longer before it has a row, unless one has failed; a failure leaves somebody before
  it, so that no site with one reaches its stamp. `Carried` says that the sites before
  it have somebody to mail, `Watched` that one of them no longer marked was un-marked
  under it. Of the ticket, `ReadsAreCurrent` says that a request nobody has written
  under still sees the promotion as it is, `AdvancesAreDue` that if it is to advance it
  is right to, and `DueIsPending` that a promotion that is due without an excuse has a
  request about to advance it.
- `FormPublishProofs`: `TypeCorrect`, `SnapshotsStay`, `PublicSound`, `ClonesDraft`,
  `EndsComplete`, for any number of administrators and versions, internal or not. A
  promoted row has no draft flag left for a save to match, and nothing else writes to it
  but the promotion itself.
  `PublicIsSound` is not inductive: `Held` says what a request relies on in the
  versions at its stage (the row it promotes is there, the one it sets current is no
  draft), `Checked` what the check still says of the draft and then of the row read as
  long as nobody went behind it, `Accounted` what a promoted row has or why not. A step
  that leaves versions and draft alone is one lemma (`Quiet`); the four that do not,
  `WriteDraft`, `Promote`, `Spawn` and `Link`, show that whoever had checked either
  has been told (`Unchecked`) or reads rows that did not change. The other two properties
  rest on the same (`SoundInv`) and on `ChainInv`, which orders the versions: nothing
  beyond the draft but the successor somebody is linking. `CloneInv` says what a publish
  still knows of the row it copies, `EndInv` who is going to make the successor, the
  draft and the current version there will be, or what has cut it short.

Each invariant has one lemma per action, or per group of actions alike for it, and is
closed under stuttering; the last step of each theorem is propositional temporal
logic. TLC checks the properties on the instances above.

Three modules of proofs are about two components each; for that, MxMirror, PromoTicket
and ClaimIntake call their initial predicate, their steps and some helpers by names of
their own (`MirrorInit`, `TicketNext`, `IntakeSpec`).

Only model-checked: the liveness properties `SettlesEventually`, `EveryRowIsStamped`,
`Converges`, `GapsHeal` and `PageSettles` (the prover has no ENABLED).

## 16. Not modelled

Rendering of pages, emails, CSV and PDF; authentication of requests beyond the
approvers' gate; the content of payloads and templates; file rows and action items
that follow a submission; the creation, announcements, documents and materials of a
promotion; the settings and assets of a form; comments, attachments and work requests of
the mirror, and the backfill of its ingest; the purge of claims and their daily report. The components
that `PROJECT.json` lists as not modelled are either planned in section 2 or have no
state that two actors write. External systems (Power Automate, MaintainX, the mailbox,
the Workers runtime, browsers) appear only as the calls and answers the code sees.
