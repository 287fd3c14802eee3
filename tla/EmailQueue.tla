----------------------------- MODULE EmailQueue -----------------------------
(***************************************************************************)
(* The shared outbound email queue (table outbound_emails) and its two     *)
(* drains: the Power Automate flow, which claims a batch over HTTP, sends  *)
(* it and confirms each result (claim.ts, confirm.ts), and the             *)
(* every-minute Cloudflare cron, which does the same in one invocation     *)
(* (cloudflare-drain.ts).  Both go through claim_outbound_emails, which    *)
(* partitions rows by the transport their source_kind is routed to.        *)
(* Administrators retry and abandon rows (admin/email-queue.ts) and change *)
(* routes while the drains run.                                            *)
(*                                                                         *)
(* An email is the unique key (source_worker, source_kind, source_id,      *)
(* recipient) of a row; its content is abstracted away.  No caller of the  *)
(* enqueue helper passes scheduled_for, so a row is due when it is         *)
(* inserted and scheduled_for is the order of insertion.  Of the clock     *)
(* only one fact is kept: whether a claim is older than ten minutes.       *)
(***************************************************************************)
EXTENDS Integers, FiniteSets

CONSTANTS
  Emails,             \* logical emails, one per unique key of the table
  Kinds,              \* source_kind values
  KindOf,             \* the source_kind of an email
  PaRuns,             \* claim ids of Power Automate runs
  CfRuns,             \* claim ids of Cloudflare cron runs
  NoClaim,            \* claim_id is null
  PaLimit,            \* rows a Power Automate claim asks for
  CfLimit,            \* BATCH_LIMIT of the Cloudflare drain
  MaxAttempts,        \* the 5 of "send_attempts < 5"
  AbandonedAttempts,  \* ABANDONED_ATTEMPTS
  MaxFaults,          \* bound: crashes, slow runs, lost or failed calls
  MaxOps              \* bound: operator actions (retry, abandon, route)

Runs == PaRuns \cup CfRuns
Transports == {"pa", "cloudflare"}
TransportOf(r) == IF r \in PaRuns THEN "pa" ELSE "cloudflare"

ASSUME RunsAssumption ==
  /\ IsFiniteSet(Emails) /\ IsFiniteSet(PaRuns) /\ IsFiniteSet(CfRuns)
  /\ PaRuns \cap CfRuns = {}
  /\ NoClaim \notin PaRuns \cup CfRuns

ASSUME KindAssumption == KindOf \in [Emails -> Kinds]

ASSUME LimitAssumption ==
  /\ PaLimit \in Nat \ {0} /\ CfLimit \in Nat \ {0}
  /\ MaxAttempts \in Nat \ {0}
  /\ AbandonedAttempts \in Nat /\ AbandonedAttempts >= MaxAttempts
  /\ MaxFaults \in Nat /\ MaxOps \in Nat

VARIABLES
  scheduledFor,  \* [Emails -> Nat]: 0 before the row exists, then its turn
  sentVia,       \* [Emails -> Transports \cup {"none"}]: "none" is sent_at null
  claimId,       \* [Emails -> Runs \cup {NoClaim}]
  stale,         \* rows whose claimed_at is more than ten minutes ago
  attempts,      \* [Emails -> Nat]: send_attempts
  routes,        \* [Kinds -> Transports]: outbound_email_routes; no row is "pa"
  work,          \* [Runs -> [Emails -> WorkStates]]: what a run does with a row
  snap,          \* [Runs -> [Emails -> Nat]]: send_attempts as the run read it
  viewed,        \* rows some open admin page shows as stuck
  faults, ops,   \* faults and operator actions so far
  \* History variables, never read by the system:
  sends,         \* [Emails -> Nat]: times the email really went out
  carriers,      \* [Emails -> SUBSET Transports]: which drains sent it
  excuses,       \* [Emails -> Nat]: events that may each cost one more copy
  abandoned,     \* [Emails -> {"no", "quiet", "racing"}]
  rerouted       \* kinds whose route was changed

rowVars   == <<scheduledFor, sentVia, claimId, stale, attempts>>
drainVars == <<work, snap>>
adminVars == <<routes, viewed, ops>>
sendVars  == <<sends, carriers>>
vars == <<rowVars, drainVars, adminVars, sendVars,
          faults, excuses, abandoned, rerouted>>

\* "todo": claimed, not sent yet.  "accepted" / "rejected": the result the
\* sender saw, not recorded yet.  "reading": the confirm endpoint is between
\* its read of send_attempts and its PATCH.
WorkStates == {"none", "todo", "accepted", "rejected", "reading"}

TypeOK ==
  /\ scheduledFor \in [Emails -> Nat]
  /\ sentVia \in [Emails -> Transports \cup {"none"}]
  /\ claimId \in [Emails -> Runs \cup {NoClaim}]
  /\ stale \in SUBSET Emails
  /\ attempts \in [Emails -> Nat]
  /\ routes \in [Kinds -> Transports]
  /\ work \in [Runs -> [Emails -> WorkStates]]
  /\ snap \in [Runs -> [Emails -> Nat]]
  /\ viewed \in SUBSET Emails
  /\ faults \in Nat /\ ops \in Nat
  /\ sends \in [Emails -> Nat]
  /\ carriers \in [Emails -> SUBSET Transports]
  /\ excuses \in [Emails -> Nat]
  /\ abandoned \in [Emails -> {"no", "quiet", "racing"}]
  /\ rerouted \in SUBSET Kinds

Init ==
  /\ scheduledFor = [e \in Emails |-> 0]
  /\ sentVia = [e \in Emails |-> "none"]
  /\ claimId = [e \in Emails |-> NoClaim]
  /\ stale = {}
  /\ attempts = [e \in Emails |-> 0]
  /\ routes \in [Kinds -> Transports]
  /\ work = [r \in Runs |-> [e \in Emails |-> "none"]]
  /\ snap = [r \in Runs |-> [e \in Emails |-> 0]]
  /\ viewed = {}
  /\ faults = 0 /\ ops = 0
  /\ sends = [e \in Emails |-> 0]
  /\ carriers = [e \in Emails |-> {}]
  /\ excuses = [e \in Emails |-> 0]
  /\ abandoned = [e \in Emails |-> "no"]
  /\ rerouted = {}

-----------------------------------------------------------------------------
\* Row and run predicates.

Queued(e) == scheduledFor[e] > 0
Unsent(e) == sentVia[e] = "none"
Stuck(e)  == Unsent(e) /\ attempts[e] >= MaxAttempts  \* rowStatus = "stuck"
Holds(r, e) == claimId[e] = r       \* the (id, claim_id) scope of a PATCH
Working(r) == \E e \in Emails : work[r][e] # "none"

\* Mutants of Eligible, each without one condition of the where clause: a
\* claim that goes stale, the attempts ceiling, the route, the claim, sent_at.
EligibleUnlessClaimed(t) ==
  {e \in Emails : /\ Queued(e) /\ Unsent(e) /\ attempts[e] < MaxAttempts
                  /\ claimId[e] = NoClaim /\ routes[KindOf[e]] = t}
EligibleOnAnyRoute(t) ==
  {e \in Emails : /\ Queued(e) /\ Unsent(e) /\ attempts[e] < MaxAttempts
                  /\ claimId[e] = NoClaim \/ e \in stale}
EligibleThoughClaimed(t) ==
  {e \in Emails : /\ Queued(e) /\ Unsent(e) /\ attempts[e] < MaxAttempts
                  /\ routes[KindOf[e]] = t}
EligibleThoughSent(t) ==
  {e \in Emails : /\ Queued(e) /\ attempts[e] < MaxAttempts
                  /\ claimId[e] = NoClaim \/ e \in stale
                  /\ routes[KindOf[e]] = t}

\* The candidate rows of claim_outbound_emails for one transport.
Eligible(t) ==
  {e \in Emails : /\ Queued(e)
                  /\ Unsent(e)
                  /\ attempts[e] < MaxAttempts
                  /\ claimId[e] = NoClaim \/ e \in stale
                  /\ routes[KindOf[e]] = t}

\* order by scheduled_for limit n
Batches(t, n) ==
  {B \in SUBSET Eligible(t) :
     /\ \/ Cardinality(B) = n
        \/ Cardinality(B) < n /\ B = Eligible(t)
     /\ \A b \in B, e \in Eligible(t) \ B : scheduledFor[b] <= scheduledFor[e]}

\* A run draws a fresh uuid.  A finite set of ids stands for them: an id is
\* as good as fresh when no run uses it and the unsent rows that carry it, if
\* any, are stale, so that every claimer may take them.
Fresh(r) ==
  /\ ~Working(r)
  /\ \A e \in Emails : Holds(r, e) => ~Unsent(e) \/ e \in stale

\* A fault of the environment, of which there are finitely many.
Fault == faults < MaxFaults /\ faults' = faults + 1

\* An operator action, of which there are finitely many.
Operate == ops < MaxOps /\ ops' = ops + 1

Excuse(e) == excuses' = [excuses EXCEPT ![e] = @ + 1]
SetWork(r, e, w) == work' = [work EXCEPT ![r][e] = w]

-----------------------------------------------------------------------------
\* Producers.

\* enqueueOutboundEmail: insert with ignore-duplicates.  Firing the same
\* email again leaves the row alone, sent or not.
Enqueue(e) ==
  /\ scheduledFor' =
       IF Queued(e) THEN scheduledFor
       ELSE [scheduledFor EXCEPT ![e] = 1 + Cardinality({d \in Emails : Queued(d)})]
  /\ UNCHANGED <<sentVia, claimId, stale, attempts, drainVars, adminVars,
                 sendVars, faults, excuses, abandoned, rerouted>>

-----------------------------------------------------------------------------
\* Both drains: claim, then hand each row to the mail provider.

\* claim_outbound_emails(r, n, transport of r).  Taking a row over from a
\* claim that went stale is an excuse: the old holder may have sent it, or
\* may still send it.
Claim(r, n) ==
  /\ Fresh(r)
  /\ \E B \in Batches(TransportOf(r), n) :
       /\ B # {}
       /\ claimId' = [e \in Emails |-> IF e \in B THEN r ELSE claimId[e]]
       /\ stale' = stale \ B
       /\ work' = [work EXCEPT ![r] = [e \in Emails |-> IF e \in B THEN "todo" ELSE "none"]]
       /\ snap' = [snap EXCEPT ![r] = [e \in Emails |-> IF e \in B THEN attempts[e] ELSE 0]]
       /\ excuses' = [e \in Emails |->
                        IF e \in B \cap stale THEN excuses[e] + 1 ELSE excuses[e]]
  /\ UNCHANGED <<scheduledFor, sentVia, attempts, adminVars, sendVars,
                 faults, abandoned, rerouted>>

\* handleEmailQueueClaim
PaClaim(r) == Claim(r, PaLimit)

\* runCloudflareEmailDrain up to its loop.  Its read of the routes only skips
\* a claim that would come back empty, and a route that is gone by the time
\* of the send falls back to CF_EMAIL_FROM, so neither has a step here.
CfClaim(r) == Claim(r, CfLimit)

Deliver(r, e) ==
  /\ sends' = [sends EXCEPT ![e] = @ + 1]
  /\ carriers' = [carriers EXCEPT ![e] = @ \cup {TransportOf(r)}]

\* One row goes to the provider, which takes it or rejects it; or takes it
\* while the sender sees an error (an excuse: the row will be sent again).
Transmit(r, e) ==
  /\ work[r][e] = "todo"
  /\ \/ Deliver(r, e) /\ SetWork(r, e, "accepted") /\ UNCHANGED <<faults, excuses>>
     \/ SetWork(r, e, "rejected") /\ UNCHANGED <<sendVars, faults, excuses>>
     \/ Fault /\ Deliver(r, e) /\ SetWork(r, e, "rejected") /\ Excuse(e)
  /\ UNCHANGED <<rowVars, snap, adminVars, abandoned, rerouted>>

\* The flow sends the items of its batch in any order.
PaSend(r, e) == Transmit(r, e)

\* The cron's loop finishes one row before it starts the next.
CfSend(r, e) ==
  /\ \A d \in Emails : work[r][d] \in {"none", "todo"}
  /\ Transmit(r, e)

-----------------------------------------------------------------------------
\* Recording a result.  Every PATCH is scoped by (id, claim_id).

RecordSent(r, e) ==
  sentVia' = IF Holds(r, e) THEN [sentVia EXCEPT ![e] = TransportOf(r)] ELSE sentVia

\* Mutant of RecordFailed: a PATCH by id alone.
RecordFailedById(r, e) ==
  /\ claimId' = [claimId EXCEPT ![e] = NoClaim]
  /\ stale' = stale \ {e}
  /\ attempts' = [attempts EXCEPT ![e] = snap[r][e] + 1]

RecordFailed(r, e) ==
  IF Holds(r, e)
  THEN /\ claimId' = [claimId EXCEPT ![e] = NoClaim]
       /\ stale' = stale \ {e}
       /\ attempts' = [attempts EXCEPT ![e] = snap[r][e] + 1]
  ELSE UNCHANGED <<claimId, stale, attempts>>

\* markSent.  The PATCH may fail (the result is skipped), and the answer to
\* the flow may be lost, so that the flow posts the same result again.
PaMarkSent(r, e) ==
  /\ work[r][e] = "accepted"
  /\ \/ RecordSent(r, e) /\ SetWork(r, e, "none") /\ UNCHANGED faults
     \/ Fault /\ RecordSent(r, e) /\ UNCHANGED work
     \/ Fault /\ SetWork(r, e, "none") /\ UNCHANGED sentVia
  /\ UNCHANGED <<scheduledFor, claimId, stale, attempts, snap, adminVars,
                 sendVars, excuses, abandoned, rerouted>>

\* markFailed, first call: read send_attempts within the claim.
PaReadAttempts(r, e) ==
  /\ work[r][e] = "rejected"
  /\ \/ /\ Holds(r, e)
        /\ snap' = [snap EXCEPT ![r][e] = attempts[e]]
        /\ SetWork(r, e, "reading")
        /\ UNCHANGED faults
     \/ /\ ~Holds(r, e)
        /\ SetWork(r, e, "none")
        /\ UNCHANGED <<snap, faults>>
     \/ Fault /\ SetWork(r, e, "none") /\ UNCHANGED snap
  /\ UNCHANGED <<rowVars, adminVars, sendVars, excuses, abandoned, rerouted>>

\* markFailed, second call: release the claim and count the attempt.
PaMarkFailed(r, e) ==
  /\ work[r][e] = "reading"
  /\ \/ RecordFailed(r, e) /\ SetWork(r, e, "none") /\ UNCHANGED faults
     \/ Fault /\ RecordFailed(r, e) /\ SetWork(r, e, "rejected")
     \/ Fault /\ SetWork(r, e, "none") /\ UNCHANGED <<claimId, stale, attempts>>
  /\ UNCHANGED <<scheduledFor, sentVia, snap, adminVars, sendVars, excuses,
                 abandoned, rerouted>>

\* The PATCH after a successful send.  A refused PATCH is only logged.  A
\* PATCH that throws, landed or not, reaches the catch, which records the
\* email as failed although it went out: an excuse.
CfMarkSent(r, e) ==
  /\ work[r][e] = "accepted"
  /\ \/ RecordSent(r, e) /\ SetWork(r, e, "none") /\ UNCHANGED <<faults, excuses>>
     \/ Fault /\ SetWork(r, e, "none") /\ UNCHANGED <<sentVia, excuses>>
     \/ /\ Fault /\ SetWork(r, e, "rejected") /\ Excuse(e)
        /\ RecordSent(r, e) \/ UNCHANGED sentVia
  /\ UNCHANGED <<scheduledFor, claimId, stale, attempts, snap, adminVars,
                 sendVars, abandoned, rerouted>>

\* The PATCH of the catch.  send_attempts comes from the row as it was
\* claimed.  If it throws, the run ends there: see Crash.
CfMarkFailed(r, e) ==
  /\ work[r][e] = "rejected"
  /\ SetWork(r, e, "none")
  /\ \/ RecordFailed(r, e) /\ UNCHANGED faults
     \/ Fault /\ UNCHANGED <<claimId, stale, attempts>>
  /\ UNCHANGED <<scheduledFor, sentVia, snap, adminVars, sendVars, excuses,
                 abandoned, rerouted>>

-----------------------------------------------------------------------------
\* Faults and the passage of time.

\* A run ends in the middle: the flow dies or never sees the claim's answer,
\* the worker is evicted, or the catch's PATCH throws out of the loop.  Its
\* rows stay claimed.
Crash(r) ==
  /\ Working(r)
  /\ Fault
  /\ work' = [work EXCEPT ![r] = [e \in Emails |-> "none"]]
  /\ UNCHANGED <<rowVars, snap, adminVars, sendVars, excuses, abandoned, rerouted>>

\* Ten minutes have passed since r claimed.  All rows of a claim share its
\* claimed_at.  A run that is still at work by then counts as a fault.
ClaimExpires(r) ==
  LET held == {e \in Emails : Holds(r, e) /\ Unsent(e)}
  IN  /\ \E e \in held : e \notin stale
      /\ stale' = stale \cup held
      /\ IF Working(r) THEN Fault ELSE UNCHANGED faults
      /\ UNCHANGED <<scheduledFor, sentVia, claimId, attempts, drainVars,
                     adminVars, sendVars, excuses, abandoned, rerouted>>

-----------------------------------------------------------------------------
\* The administrator's page and the routes table.

\* handleEmailQueueRetry: no check of the row's state.  The page offers it
\* for every row.  Retrying an unsent row that a drain has claimed is an
\* excuse: that drain may have sent it, or may still send it.
Retry(e) ==
  /\ Queued(e)
  /\ Operate
  /\ claimId' = [claimId EXCEPT ![e] = NoClaim]
  /\ stale' = stale \ {e}
  /\ attempts' = [attempts EXCEPT ![e] = 0]
  /\ abandoned' = [abandoned EXCEPT ![e] = "no"]
  /\ IF Unsent(e) /\ claimId[e] # NoClaim THEN Excuse(e) ELSE UNCHANGED excuses
  /\ UNCHANGED <<scheduledFor, sentVia, routes, viewed, drainVars, sendVars,
                 faults, rerouted>>

\* An administrator opens the page of a stuck row; the page enables Abandon.
ViewStuck(e) ==
  /\ Queued(e) /\ Stuck(e)
  /\ viewed' = viewed \cup {e}
  /\ UNCHANGED <<rowVars, drainVars, routes, ops, sendVars, faults, excuses,
                 abandoned, rerouted>>

\* handleEmailQueueAbandon, sent from a page that was rendered some time ago.
\* The claim is left in place.
Abandon(e) ==
  /\ e \in viewed
  /\ Operate
  /\ attempts' = [attempts EXCEPT ![e] = AbandonedAttempts]
  /\ abandoned' = [abandoned EXCEPT ![e] =
                     IF \A r \in Runs : work[r][e] = "none" THEN "quiet" ELSE "racing"]
  /\ UNCHANGED <<scheduledFor, sentVia, claimId, stale, routes, viewed,
                 drainVars, sendVars, faults, excuses, rerouted>>

\* The operator inserts, updates or deletes a row of outbound_email_routes.
SetRoute(k, t) ==
  /\ routes[k] # t
  /\ Operate
  /\ routes' = [routes EXCEPT ![k] = t]
  /\ rerouted' = rerouted \cup {k}
  /\ UNCHANGED <<rowVars, drainVars, viewed, sendVars, faults, excuses, abandoned>>

-----------------------------------------------------------------------------

PaStep(r) == \E e \in Emails :
  PaSend(r, e) \/ PaMarkSent(r, e) \/ PaReadAttempts(r, e) \/ PaMarkFailed(r, e)

CfStep(r) == \E e \in Emails :
  CfSend(r, e) \/ CfMarkSent(r, e) \/ CfMarkFailed(r, e)

Admin == \/ \E e \in Emails : Retry(e) \/ ViewStuck(e) \/ Abandon(e)
         \/ \E k \in Kinds, t \in Transports : SetRoute(k, t)

Next ==
  \/ \E e \in Emails : Enqueue(e)
  \/ \E r \in PaRuns : PaClaim(r) \/ PaStep(r)
  \/ \E r \in CfRuns : CfClaim(r) \/ CfStep(r)
  \/ \E r \in Runs : Crash(r) \/ ClaimExpires(r)
  \/ Admin

\* Both schedules recur (the flow polls every five minutes, the cron runs
\* every minute), a run that started goes on unless it crashes, and time
\* passes.  Nothing obliges a producer or an operator to act.
Fairness ==
  /\ WF_vars(\E r \in PaRuns : PaClaim(r))
  /\ WF_vars(\E r \in CfRuns : CfClaim(r))
  /\ \A r \in PaRuns : WF_vars(PaStep(r))
  /\ \A r \in CfRuns : WF_vars(CfStep(r))
  /\ \A r \in Runs : WF_vars(ClaimExpires(r))

Spec == Init /\ [][Next]_vars /\ Fairness

-----------------------------------------------------------------------------
\* Properties.

\* Every copy of an email beyond the first, sent or about to be sent, was
\* paid for by an event that puts an earlier attempt in doubt: a claim taken
\* over once stale, a retry of a claimed row, or a send that was recorded as
\* failed.  Without such an event the queue sends an email at most once and to
\* at most one run at a time, whatever the two drains, replays of the confirm
\* call and crashes do (the claim scope of confirm.ts and of patchRow).
AboutToSend(e) == {r \in Runs : work[r][e] = "todo"}
Copies(e) == sends[e] + Cardinality(AboutToSend(e))
EachCopyIsExcused == \A e \in Emails : Copies(e) <= 1 + excuses[e]

\* The claim function partitions rows by route: as long as nobody re-routes
\* the kind of an email, only one of the two drains ever sends it.
SplitNeedsReroute ==
  \A e \in Emails : carriers[e] = Transports => KindOf[e] \in rerouted

\* send_attempts counts failures one by one although both drains write a
\* value computed from an earlier read: it moves only by one, to zero (Retry)
\* or to the abandoned mark.  Rows abandoned under a drain are set apart (see
\* AbandonIsFinal).
FailuresAreCounted ==
  [][\A e \in Emails :
       abandoned[e] # "racing" =>
         attempts'[e] \in {attempts[e], attempts[e] + 1, 0, AbandonedAttempts}]_vars

\* Abandoning a row that no drain is working on holds: no copy of it goes
\* out until an operator retries it.
QuietAbandonHolds ==
  [][\A e \in Emails : abandoned[e] = "quiet" => sends'[e] = sends[e]]_vars

\* An enqueued email is eventually recorded as sent or runs out of attempts,
\* however often runs crash, stall or lose a call, finitely many times in all.
SettlesEventually ==
  \A e \in Emails : Queued(e) ~> (~Unsent(e) \/ attempts[e] >= MaxAttempts)

\* The queue implements the at-least-once contract of Outbox.
Contract == INSTANCE Outbox WITH
  Senders  <- Runs,
  accepted <- {e \in Emails : Queued(e)},
  holders  <- [e \in Emails |-> AboutToSend(e)],
  copies   <- sends,
  recorded <- {e \in Emails : ~Unsent(e)}

ImplementsOutbox == Contract!Spec

-----------------------------------------------------------------------------
\* The inductive invariants behind the properties.

\* An unsent row that anybody may claim, now or once its holder records the
\* failure it saw, has no copy that is not excused: one more may be sent.
CopyInv ==
  \A e \in Emails :
    /\ Copies(e) <= 1 + excuses[e]
    /\ Unsent(e) /\ claimId[e] = NoClaim => Copies(e) <= excuses[e]
    /\ \A r \in Runs :
         Unsent(e) /\ Holds(r, e) /\ work[r][e] \in {"rejected", "reading"}
           => Copies(e) <= excuses[e]

\* A kind whose route never changed is the business of one transport.
RouteInv ==
  \A e \in Emails : KindOf[e] \notin rerouted =>
    /\ carriers[e] \subseteq {routes[KindOf[e]]}
    /\ \A r \in Runs : work[r][e] # "none" => TransportOf(r) = routes[KindOf[e]]

\* A row abandoned while idle stays idle and out of reach of the claim.
AbandonInv ==
  \A e \in Emails : abandoned[e] = "quiet" =>
    /\ attempts[e] >= MaxAttempts
    /\ \A r \in Runs : work[r][e] = "none"

\* What a run that holds a row remembers of send_attempts is still true.
CountInv ==
  \A e \in Emails, r \in Runs :
    work[r][e] # "none" /\ Holds(r, e) /\ abandoned[e] # "racing"
      => snap[r][e] = attempts[e]

\* A run that was told the provider took the email did send it.
AcceptInv ==
  \A e \in Emails, r \in Runs : work[r][e] = "accepted" => sends[e] > 0

-----------------------------------------------------------------------------
\* What comments and texts of the repository say and the code does not do.

\* "The claim RPC partitions rows by route, so the two drains can never pick
\* up the same email" (cloudflare-drain.ts): not while both work on it.
DrainsNeverShareARow ==
  \A e \in Emails : ~\E p \in PaRuns, c \in CfRuns :
    work[p][e] # "none" /\ work[c][e] # "none"

\* "Row abandoned. It will never send." (the admin page's actions.ts): an
\* abandoned row stays out of the claimable pool until somebody retries it.
AbandonIsFinal ==
  \A e \in Emails : abandoned[e] # "no" /\ Unsent(e) => attempts[e] >= MaxAttempts
=============================================================================
