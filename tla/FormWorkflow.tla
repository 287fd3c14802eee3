---------------------------- MODULE FormWorkflow ----------------------------
(***************************************************************************)
(* The life of one form submission in its approval workflow: the submit    *)
(* handler (submit/index.ts), decisions taken on the dashboard             *)
(* (handleTransition) or through an emailed link                           *)
(* (approval-links/handlers.ts), both of which end in applyTransition, the *)
(* cascade through email stages (workflow-email-step.ts), the re-stamping  *)
(* of approvers (reresolve-approvers.ts) and the status edit               *)
(* (updateSubmission).                                                     *)
(*                                                                         *)
(* Every handler is a sequence of HTTP calls to the database.  A request   *)
(* is therefore a process: it reads the row once, works on that snapshot   *)
(* and writes it back some calls later, while other requests do the same.  *)
(* Submissions do not share state, so one is enough.  Answers, templates   *)
(* and signatures are abstracted away, but for which people a payload      *)
(* makes approvers and recipients.  A request that lacks what its          *)
(* transition requires changes nothing and is not modelled.                *)
(***************************************************************************)
EXTENDS Integers, Sequences

CONSTANTS
  Approvals, Emails, Outcomes,  \* the stages of the pinned version, by kind
  DefaultStage,                 \* workflow.default_stage
  Transitions,                  \* [Stages -> SUBSET Stages]
  LinkEmails,                   \* email stages whose template has {approval.link}
  People, Admins,
  Payloads,                     \* answers that resolve to different people
  PinnedApprovers,              \* [Payloads -> [Approvals -> SUBSET People]]
  CurrentApprovers,             \* the same under the form's newest version
  Recipients,                   \* [Payloads -> [Emails -> SUBSET People]]
  Requests,                     \* HTTP requests, each of any kind
  Nobody, NoLink, NoStage,
  MaxCascadeDepth,              \* MAX_CASCADE_DEPTH
  MaxFaults,                    \* bound: failed or lost calls, crashes
  MaxEdits                      \* bound: status edits by hand

Stages == Approvals \cup Emails \cup Outcomes

ASSUME StagesAssumption ==
  /\ Approvals \cap Emails = {} /\ Outcomes \cap (Approvals \cup Emails) = {}
  /\ DefaultStage \in Stages /\ NoStage \notin Stages
  /\ Transitions \in [Stages -> SUBSET Stages]
  /\ LinkEmails \subseteq Emails

\* What the strict validator refuses to publish.
ASSUME ValidatedAssumption ==
  /\ \A s \in Stages : s \notin Transitions[s]
  /\ \A s \in Emails : \E next \in Stages : Transitions[s] = {next}
  /\ \A s \in Outcomes : Transitions[s] = {}
  /\ \A s \in Approvals : Transitions[s] # {}

ASSUME PeopleAssumption ==
  /\ Admins \subseteq People /\ Payloads # {}
  /\ Nobody \notin People \cup Requests
  /\ PinnedApprovers \in [Payloads -> [Approvals -> SUBSET People]]
  /\ CurrentApprovers \in [Payloads -> [Approvals -> SUBSET People]]
  /\ Recipients \in [Payloads -> [Emails -> SUBSET People]]
  /\ MaxFaults \in Nat /\ MaxEdits \in Nat
  /\ MaxCascadeDepth \in Nat \ {0}

\* transitions[0].to of an email stage.
After(e) == CHOOSE s \in Stages : s \in Transitions[e]

\* The approvers the pinned version resolves to; {} without approver_source.
Resolved(p, s) == IF s \in Approvals THEN PinnedApprovers[p][s] ELSE {}

\* A link is named by the request that minted it, the email stage it was
\* minted in and its recipient.  It is bound to the stage after that one.
LinkIds == Requests \X Emails \X People
LinkStage(l) == After(l[2])
LinkRecipient(l) == l[3]
WantsLink(e) == e \in LinkEmails /\ After(e) \in Approvals

VARIABLES
  row,         \* the form_submissions row
  mail,        \* outbound_emails rows: [Emails \X People -> Mail \cup {NoMail}]
  minted,      \* form_approval_links rows
  expired,     \* links past expires_at
  usedBy,      \* [LinkIds -> Requests \cup {Nobody}]: Nobody is used_at null
  req,         \* [Requests -> request in progress]
  faults,
  \* History variables, never read by the system:
  landed,      \* decisions whose PATCH took effect
  outdated,    \* requests in progress that read the row before a decision landed
  overwrote,   \* decisions that landed although they were outdated
  visited, revisited,  \* stages the row has rested at, and those it came back to
  lateStamped, \* people a re-stamp for one stage put on the row at another
  edits,       \* times an administrator has set the status by hand
  unsure       \* requests that crashed or lost an answer after a call took effect

ghosts == <<landed, outdated, overwrote, visited, revisited, lateStamped, edits>>
vars == <<row, mail, minted, expired, usedBy, req, faults, ghosts, unsure>>

NoMail == [by |-> Nobody, link |-> FALSE]
Mail == [by : Requests, link : BOOLEAN]

\* A workflow_history entry: a person's decision, or the entry an email stage
\* adds with the recipients it noted as enqueued.  The email stage itself is
\* not in the row; "step" keeps it for the properties.
Entry == [by : Requests, step : Emails \cup {NoStage}, from : Stages,
          to : Stages, told : SUBSET People]
Decision(r, from, to) ==
  [by |-> r, step |-> NoStage, from |-> from, to |-> to, told |-> {}]

Row == [stage : Stages \cup {NoStage}, payload : Payloads, history : Seq(Entry),
        approvers : SUBSET People, status : {"new", "in_progress", "closed"}]
Seed(p) == [stage |-> NoStage, payload |-> p, history |-> <<>>,
            approvers |-> {}, status |-> "new"]
AnyPayload == CHOOSE p \in Payloads : TRUE
Exists == row.stage # NoStage

\* snap: the row as the request read it.  stage, history, approvers: what it
\* will write.  via: the stage before the one the cascade is at.
Kinds == {"none", "submit", "dashboard", "link", "restamp"}
Steps == {"idle", "claim", "cascade", "write", "release", "done"}
Idle == [kind |-> "none", step |-> "idle", who |-> Nobody, link |-> NoLink,
         snap |-> Seed(AnyPayload), via |-> NoStage, stage |-> NoStage,
         hops |-> 0, history |-> <<>>, approvers |-> {}]
Request == [kind : Kinds, step : Steps, who : People \cup {Nobody},
            link : LinkIds \cup {NoLink}, snap : Row,
            via : Stages \cup {NoStage}, stage : Stages \cup {NoStage},
            hops : Nat, history : Seq(Entry), approvers : SUBSET People]

TypeOK ==
  /\ row \in Row
  /\ mail \in [Emails \X People -> Mail \cup {NoMail}]
  /\ minted \subseteq LinkIds /\ expired \subseteq minted
  /\ usedBy \in [LinkIds -> Requests \cup {Nobody}]
  /\ req \in [Requests -> Request]
  /\ faults \in Nat
  /\ landed \subseteq Requests /\ outdated \subseteq Requests
  /\ overwrote \subseteq Requests /\ unsure \subseteq Requests
  /\ visited \subseteq Stages /\ revisited \subseteq visited
  /\ lateStamped \subseteq People /\ edits \in Nat

Init ==
  /\ row = Seed(AnyPayload)
  /\ mail = [m \in Emails \X People |-> NoMail]
  /\ minted = {} /\ expired = {}
  /\ usedBy = [l \in LinkIds |-> Nobody]
  /\ req = [r \in Requests |-> Idle]
  /\ faults = 0
  /\ landed = {} /\ outdated = {} /\ overwrote = {} /\ unsure = {}
  /\ visited = {} /\ revisited = {}
  /\ lateStamped = {} /\ edits = 0

Active(r) == req[r].step \notin {"idle", "done"}
Deciding(r) == req[r].kind \in {"dashboard", "link"}
Fault == faults < MaxFaults /\ faults' = faults + 1
Finished(r) == [Idle EXCEPT !.kind = req[r].kind, !.link = req[r].link, !.step = "done"]
Finish(r) == req' = [req EXCEPT ![r] = Finished(r)]
GoTo(r, step) == req' = [req EXCEPT ![r].step = step]

-----------------------------------------------------------------------------
\* How a request starts: it reads what it needs, once.

\* "from" of the first entry of a submit-time cascade: previousStageId ??
\* stage.id.
FirstFrom == DefaultStage

\* handleSubmit up to the cascade.  Nothing stops the same submission id from
\* being posted twice, even with other answers.
Submit(r, p) ==
  /\ req[r].step = "idle"
  /\ req' = [req EXCEPT ![r] =
       [Idle EXCEPT !.kind = "submit", !.step = "cascade", !.snap = Seed(p),
                    !.via = FirstFrom, !.stage = DefaultStage]]
  /\ UNCHANGED <<row, mail, minted, expired, usedBy, faults, ghosts, unsure>>

\* applyTransition's gate: the stamped column, re-resolved when it is empty.
Authorized(sub, who) ==
  IF sub.approvers # {} THEN who \in sub.approvers
  ELSE who \in Resolved(sub.payload, sub.stage)

\* Mutant of StartedDecision: the history array starts afresh.
StartedWithoutHistory(r, kind, step, who, link, to) ==
  [Idle EXCEPT !.kind = kind, !.step = step, !.who = who, !.link = link,
               !.snap = row, !.via = row.stage, !.stage = to,
               !.history = <<Decision(r, row.stage, to)>>]

\* A decision: where it starts from and the history it will write.
StartedDecision(r, kind, step, who, link, to) ==
  [Idle EXCEPT !.kind = kind, !.step = step, !.who = who, !.link = link,
               !.snap = row, !.via = row.stage, !.stage = to,
               !.history = Append(row.history, Decision(r, row.stage, to))]

\* Mutant of MayDecide: any session passes the gate.
MayDecideAnyone(who) == TRUE

MayDecide(who) == who \in Admins \/ Authorized(row, who)

\* handleTransition: load the submission, check, start applyTransition.
DecideOnDashboard(r, who, to) ==
  /\ req[r].step = "idle"
  /\ Exists /\ to \in Transitions[row.stage]
  /\ MayDecide(who)
  /\ req' = [req EXCEPT ![r] = StartedDecision(r, "dashboard", "cascade", who, NoLink, to)]
  /\ UNCHANGED <<row, mail, minted, expired, usedBy, faults, ghosts, unsure>>

\* Only the email carries the token.
Mailed(l) == mail[<<l[2], l[3]>>] = [by |-> l[1], link |-> TRUE]

\* validateLink.  Its two reads are one step: what the first one saw is
\* checked again by the claim.
ValidLink(l) ==
  /\ usedBy[l] = Nobody /\ l \notin expired
  /\ Exists /\ row.stage = LinkStage(l)
  /\ row.approvers = {} \/ LinkRecipient(l) \in row.approvers

\* handleApprovalLinkSubmit up to the claim.
DecideByLink(r, l, to) ==
  /\ req[r].step = "idle"
  /\ Mailed(l) /\ ValidLink(l) /\ to \in Transitions[row.stage]
  /\ req' = [req EXCEPT ![r] =
               StartedDecision(r, "link", "claim", LinkRecipient(l), l, to)]
  /\ UNCHANGED <<row, mail, minted, expired, usedBy, faults, ghosts, unsure>>

-----------------------------------------------------------------------------
\* The link's claim.

\* Mutant of Claimable: the PATCH without used_at=is.null.
ClaimableThoughUsed(l) == TRUE

Claimable(l) == usedBy[l] = Nobody

\* claimApprovalLink, then applyTransition's gate, which may still refuse; its
\* resolve may fail.  The claim may fail, or its answer be lost.
Claim(r) ==
  LET l == req[r].link
      Claimed == usedBy' = [usedBy EXCEPT ![l] = r]
  IN /\ req[r].step = "claim"
     /\ \/ /\ Claimable(l) /\ Claimed /\ UNCHANGED unsure
           /\ \/ /\ Authorized(req[r].snap, req[r].who)
                 /\ GoTo(r, "cascade") /\ UNCHANGED faults
              \/ /\ ~Authorized(req[r].snap, req[r].who)
                 /\ GoTo(r, "release") /\ UNCHANGED faults
              \/ /\ req[r].snap.approvers = {}
                 /\ Fault /\ GoTo(r, "release")
        \/ ~Claimable(l) /\ Finish(r) /\ UNCHANGED <<usedBy, faults, unsure>>
        \/ Fault /\ Finish(r) /\ UNCHANGED <<usedBy, unsure>>
        \/ Fault /\ Claimable(l) /\ Claimed /\ Finish(r) /\ unsure' = unsure \cup {r}
     /\ UNCHANGED <<row, mail, minted, expired, ghosts>>

\* releaseApprovalLink, by id alone and fail-soft.
Release(r) ==
  /\ req[r].step = "release"
  /\ \/ /\ usedBy' = [usedBy EXCEPT ![req[r].link] = Nobody]
        /\ UNCHANGED <<faults, unsure>>
     \/ Fault /\ unsure' = unsure \cup {r} /\ UNCHANGED usedBy
  /\ Finish(r)
  /\ UNCHANGED <<row, mail, minted, expired, ghosts>>

-----------------------------------------------------------------------------
\* cascadeThroughEmailSteps.

\* enqueueOutboundEmail under the key (submission and stage, recipient): the
\* first row stays, whatever later calls carry.
Enqueued(r, e, to, linked) ==
  [m \in Emails \X People |->
     IF m[1] = e /\ m[2] \in to /\ mail[m] = NoMail
     THEN [by |-> r, link |-> m[2] \in linked]
     ELSE mail[m]]

\* Mutant of NotedRecipients: notes a recipient before the insert answered.
NotedAllRecipients(to, unqueued) == to

\* stageRecipients: those whose insert did not throw.
NotedRecipients(to, unqueued) == to \ unqueued

CapReached(r) == req[r].hops = MaxCascadeDepth

\* One email stage: mint a link per recipient, enqueue, note, advance.  Some
\* mints and inserts may fail, and an insert that seemed to may have worked.
EmailStage(r) ==
  LET e == req[r].stage
      to == Recipients[req[r].snap.payload][e]
  IN /\ req[r].step = "cascade" /\ e \in Emails /\ ~CapReached(r)
     /\ \E unlinked, unqueued \in SUBSET to : \E lost \in SUBSET unqueued :
          LET linked == IF WantsLink(e) THEN to \ unlinked ELSE {} IN
          /\ WantsLink(e) \/ unlinked = {}
          /\ IF unlinked \cup unqueued = {} THEN UNCHANGED faults ELSE Fault
          /\ minted' = minted \cup {<<r, e, p>> : p \in linked}
          /\ mail' = Enqueued(r, e, (to \ unqueued) \cup lost, linked)
          /\ req' = [req EXCEPT
               ![r].via = e, ![r].stage = After(e), ![r].hops = @ + 1,
               ![r].history = Append(@,
                  [by |-> r, step |-> e, from |-> req[r].via, to |-> After(e),
                   told |-> NotedRecipients(to, unqueued)])]
     /\ UNCHANGED <<row, expired, usedBy, ghosts, unsure>>

\* Rests(r, approvers): the cascade is over; what is left is the write.
Rests(r, approvers) ==
  req' = [req EXCEPT ![r].step = "write", ![r].approvers = approvers]

\* The depth cap, which does not look at the stage it stops at; the first stage
\* that is no email stage (resolving may fail); or a cascade that threw before its
\* first stage.
Rest(r) ==
  /\ req[r].step = "cascade"
  /\ \/ CapReached(r) /\ Rests(r, {}) /\ UNCHANGED faults
     \/ /\ ~CapReached(r) /\ req[r].stage \notin Emails
        /\ \/ Rests(r, Resolved(req[r].snap.payload, req[r].stage)) /\ UNCHANGED faults
           \/ Fault /\ Rests(r, {})
     \/ /\ req[r].stage \in Emails /\ req[r].hops = 0
        /\ Fault /\ Rests(r, {})
  /\ UNCHANGED <<row, mail, minted, expired, usedBy, ghosts, unsure>>

-----------------------------------------------------------------------------
\* The writes.

Visit(s) ==
  /\ visited' = visited \cup {s}
  /\ revisited' = IF s \in visited THEN revisited \cup {s} ELSE revisited

\* insertSubmissionIdempotent: a row that exists stays as it is.
Insert(r) ==
  /\ req[r].kind = "submit" /\ req[r].step = "write"
  /\ Finish(r)
  /\ \/ /\ ~Exists
        /\ row' = [req[r].snap EXCEPT !.stage = req[r].stage, !.history = req[r].history,
                                      !.approvers = req[r].approvers]
        /\ Visit(req[r].stage) /\ UNCHANGED faults
     \/ Exists /\ UNCHANGED <<row, faults, visited, revisited>>
     \/ Fault /\ UNCHANGED <<row, visited, revisited>>
  /\ UNCHANGED <<mail, minted, expired, usedBy, unsure, landed, outdated, overwrote,
                 lateStamped, edits>>

\* Mutant of Patched: leaves the stamp.
PatchedKeepingStamp(r) ==
  [row EXCEPT !.stage = req[r].stage, !.history = req[r].history,
              !.status = IF req[r].stage \in Outcomes THEN "closed" ELSE @]

\* The columns transitionSubmission writes: the whole history array, and
\* "closed" when an outcome is reached and the snapshot was still open.
Patched(r) ==
  [row EXCEPT !.stage = req[r].stage, !.history = req[r].history,
              !.approvers = req[r].approvers,
              !.status = IF req[r].stage \in Outcomes /\ req[r].snap.status # "closed"
                         THEN "closed" ELSE @]

Lands(r) ==
  /\ row' = Patched(r)
  /\ landed' = landed \cup {r}
  /\ outdated' = (outdated \cup {q \in Requests : Active(q) /\ Deciding(q)}) \ {r}
  /\ overwrote' = IF r \in outdated THEN overwrote \cup {r} ELSE overwrote
  /\ Visit(req[r].stage)

\* Mutant of Matches: the PATCH expects the stage it goes to.
MatchesNext(r) == req[r].kind = "link" => row.stage = req[r].stage

\* Mutant of Matches: no expectedStage.
MatchesAlways(r) == TRUE

\* The filter of the PATCH: a link's decision names the stage it expects.
Matches(r) == req[r].kind = "link" => row.stage = LinkStage(req[r].link)

\* Mutant of Fail: the link is not released.
FailWithoutRelease(r) == Finish(r)

\* applyTransition returned an error: a link is released first.
Fail(r) == IF req[r].kind = "link" THEN GoTo(r, "release") ELSE Finish(r)

\* transitionSubmission.  A PATCH may fail, or take effect and lose its
\* answer, which looks the same to the request.
Patch(r) ==
  /\ Deciding(r) /\ req[r].step = "write"
  /\ \/ Matches(r) /\ Lands(r) /\ Finish(r) /\ UNCHANGED <<faults, unsure>>
     \/ /\ ~Matches(r) /\ Fail(r)
        /\ UNCHANGED <<row, landed, outdated, overwrote, visited, revisited, faults, unsure>>
     \/ /\ Fault /\ Fail(r)
        /\ UNCHANGED <<row, landed, outdated, overwrote, visited, revisited, unsure>>
     \/ Fault /\ Matches(r) /\ Lands(r) /\ Fail(r) /\ unsure' = unsure \cup {r}
  /\ UNCHANGED <<mail, minted, expired, usedBy, lateStamped, edits>>

-----------------------------------------------------------------------------
\* Administrators, the clock and crashes.

\* handleReResolveApprovers reads a row ...
RestampRead(r) ==
  /\ req[r].step = "idle"
  /\ Exists /\ row.stage \in Approvals
  /\ LET resolved == CurrentApprovers[row.payload][row.stage] IN
       /\ resolved # row.approvers
       /\ req' = [req EXCEPT ![r] = [Idle EXCEPT !.kind = "restamp", !.step = "write",
                                       !.snap = row, !.approvers = resolved]]
  /\ UNCHANGED <<row, mail, minted, expired, usedBy, faults, ghosts, unsure>>

\* ... and, rows later, writes its approvers by id alone.
RestampWrite(r) ==
  /\ req[r].kind = "restamp" /\ req[r].step = "write"
  /\ \/ /\ row' = [row EXCEPT !.approvers = req[r].approvers]
        /\ lateStamped' = IF row.stage = req[r].snap.stage THEN lateStamped
                          ELSE lateStamped \cup req[r].approvers
        /\ UNCHANGED faults
     \/ Fault /\ UNCHANGED <<row, lateStamped>>
  /\ Finish(r)
  /\ UNCHANGED <<mail, minted, expired, usedBy, unsure, landed, outdated, overwrote,
                 visited, revisited, edits>>

\* updateSubmission: last write wins.
SetStatus(status) ==
  /\ Exists /\ row.status # status
  /\ row' = [row EXCEPT !.status = status]
  /\ edits < MaxEdits /\ edits' = edits + 1
  /\ UNCHANGED <<mail, minted, expired, usedBy, req, faults, unsure, landed, outdated,
                 overwrote, visited, revisited, lateStamped>>

\* LINK_TTL_DAYS go by: every link minted so far expires.
LinksExpire ==
  /\ minted # expired
  /\ expired' = minted
  /\ UNCHANGED <<row, mail, minted, usedBy, req, faults, ghosts, unsure>>

\* The worker invocation dies between two calls.
Crash(r) ==
  /\ Active(r) /\ Fault /\ Finish(r)
  /\ unsure' = unsure \cup {r}
  /\ UNCHANGED <<row, mail, minted, expired, usedBy, ghosts>>

Start(r) ==
  \/ \E p \in Payloads : Submit(r, p)
  \/ \E who \in People, to \in Stages : DecideOnDashboard(r, who, to)
  \/ \E l \in LinkIds, to \in Stages : DecideByLink(r, l, to)
  \/ RestampRead(r)

Continue(r) ==
  Claim(r) \/ EmailStage(r) \/ Rest(r) \/ Insert(r) \/ Patch(r)
           \/ Release(r) \/ RestampWrite(r)

Next ==
  \/ \E r \in Requests : Start(r) \/ Continue(r) \/ Crash(r)
  \/ \E status \in {"new", "in_progress", "closed"} : SetStatus(status)
  \/ LinksExpire

Spec == Init /\ [][Next]_vars

-----------------------------------------------------------------------------
\* Properties.

Landing(r) == r \in landed' \ landed

\* A decision through a link takes effect only while the submission is at the
\* stage the link was minted for, and only in the hands of the request that
\* holds the link's claim, however many clicks, tabs and dashboard decisions
\* race it.
LinkWritesWhereMinted ==
  [][\A r \in Requests :
       Landing(r) /\ req[r].kind = "link" =>
         row.stage = LinkStage(req[r].link) /\ usedBy[req[r].link] = r]_vars

\* The decisions the history shows.
Recorded == {row.history[i].by : i \in {j \in DOMAIN row.history :
                                          row.history[j].step = NoStage}}

\* The history names every decision that took effect unless one was overwritten,
\* and never one that did not.  A decision that lands on top of one it never saw,
\* and so drops it, came from the dashboard, which expects no stage; or through a
\* link to a stage the submission had meanwhile left and come back to.
HistoryIsTheDecisions ==
  /\ Recorded \subseteq landed /\ (overwrote = {} => Recorded = landed)
  /\ \A r \in overwrote :
       req[r].kind = "dashboard" \/ LinkStage(req[r].link) \in revisited

\* A spent link stands for a decision that landed or is under way, unless its
\* request crashed or lost an answer: nobody is left with a dead link for a
\* decision that never landed.  Two decisions through one link both land only
\* when the first one's answer was lost, so that the link was handed back.
SpentLinkIsDecided ==
  /\ \A l \in LinkIds : usedBy[l] # Nobody =>
       usedBy[l] \in landed \cup unsure \/ Active(usedBy[l])
  /\ \A r, q \in landed :
       r # q /\ req[r].kind = "link" /\ req[q].kind = "link" /\ req[r].link = req[q].link
         => {r, q} \cap unsure # {}

EligibleAt(p, s) == Resolved(p, s) \cup IF s \in Approvals THEN CurrentApprovers[p][s] ELSE {}

\* Whoever is stamped on the row may act at its stage under the pinned or the
\* newest version, or was put there by a re-stamp that had read another stage.
StampMatchesStage ==
  Exists => row.approvers \subseteq EligibleAt(row.payload, row.stage) \cup lateStamped

\* A decision is landed by an administrator or by an approver of the stage it
\* left, or by somebody a late re-stamp had put on the row.
DecidersAreApprovers ==
  [][\A r \in Requests :
       Landing(r) => LET sub == req[r].snap IN
         req[r].who \in Admins \cup EligibleAt(sub.payload, sub.stage) \cup lateStamped]_vars

\* Every recipient the history says was enqueued has a row in the email queue.
NotedMailIsQueued ==
  \A i \in DOMAIN row.history :
    \A p \in row.history[i].told : mail[<<row.history[i].step, p>>] # NoMail

\* The cascade mails before the decision is written.  An email whose decision
\* does not land comes from a call that failed, from a link whose approver was
\* overtaken by another decision, or from a submit that was posted again: what
\* the dashboard announces lands.
MailIsForADecision ==
  \A m \in Emails \X People : mail[m] # NoMail =>
    LET r == mail[m].by IN
      \/ Active(r) \/ r \in landed \cup unsure \/ faults > 0
      \/ req[r].kind = "link" /\ r \in outdated
      \/ req[r].kind = "submit" /\ Exists

\* A submission rests at an email stage, where only an administrator can move
\* it, when a cascade threw, or walked MaxCascadeDepth email stages in a row,
\* which a published workflow with a cycle of email stages makes it do.
EmailRestIsExcused ==
  row.stage \in Emails =>
    \/ faults > 0
    \/ LET n == Len(row.history) IN
         /\ n >= MaxCascadeDepth
         /\ \A i \in (n - MaxCascadeDepth + 1)..n : row.history[i].step # NoStage

\* Unless somebody edits the status or overwrites a decision, a decided
\* submission is closed exactly when it has reached an outcome.
AutoCloseAgrees ==
  edits = 0 /\ overwrote = {} /\ landed # {} =>
    (row.status = "closed" <=> row.stage \in Outcomes)

\* The comment on expectedStage in applyTransition: it makes a link's write
\* conditional, "so two decisions racing each other cannot both land".  So no
\* decision through a link, once landed, would leave the history.  One from
\* the dashboard, read before and written after it, expects no stage.
LinkDecisionsAreKept ==
  \A r \in landed : req[r].kind = "link" => r \in Recorded

\* The comment in reresolve-approvers.ts: a submission that has reached an
\* outcome "must not be resurrected into somebody's queue".
NobodyQueuedAtOutcome == row.stage \in Outcomes => row.approvers = {}

\* The header of workflow-email-step.ts: for each resolved recipient a row is
\* enqueued, and the history entry notes it.  A submission that comes back to
\* an email stage finds the row of its first passage, whose key is the same,
\* and enqueues nothing: two entries cannot both be true of one recipient.
EachPassageIsMailed ==
  \A i, j \in DOMAIN row.history :
    i # j /\ row.history[i].step = row.history[j].step
      => row.history[i].told \cap row.history[j].told = {}
=============================================================================
