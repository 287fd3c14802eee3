------------------------- MODULE FormWorkflowProofs -------------------------
(***************************************************************************)
(* Theorems about FormWorkflow, for every workflow, people and payloads,   *)
(* every number of requests and every bound.                               *)
(***************************************************************************)
EXTENDS FormWorkflow, TLAPS

\* What every leaf may use: the workflow and the people are what they are.
USE StagesAssumption, PeopleAssumption

-----------------------------------------------------------------------------
\* The operators.

\* An email stage leads to one stage.
LEMMA AfterIs == \A e \in Emails : After(e) \in Stages
<1> SUFFICES ASSUME NEW e \in Emails PROVE After(e) \in Stages
  OBVIOUS
<1>1. PICK next \in Stages : Transitions[e] = {next}
  BY ValidatedAssumption
<1> QED BY <1>1 DEF After

LEMMA ResolvedIs == \A p \in Payloads : \A s : Resolved(p, s) \subseteq People
BY DEF Resolved

\* The seeds of a row and of a request.
LEMMA SeedIs ==
  ASSUME NEW p \in Payloads
  PROVE  /\ Seed(p) \in Row /\ Seed(p).payload = p /\ Seed(p).stage = NoStage
         /\ Seed(p).history = <<>> /\ Seed(p).approvers = {} /\ Seed(p).status = "new"
<1>1. <<>> \in Seq(Entry)
  OBVIOUS
<1> QED BY <1>1 DEF Seed, Row

LEMMA PayloadIs == AnyPayload \in Payloads
BY DEF AnyPayload

LEMMA IdleIs ==
  /\ Idle \in Request /\ Idle.kind = "none" /\ Idle.step = "idle" /\ Idle.history = <<>>
  /\ Idle.link = NoLink /\ Idle.approvers = {} /\ Idle.hops = 0 /\ Idle.snap = Seed(AnyPayload)
<1>1. <<>> \in Seq(Entry) /\ Seed(AnyPayload) \in Row
  BY PayloadIs, SeedIs
<1> QED BY <1>1 DEF Idle, Request, Kinds, Steps

\* What a history gains with an entry.
LEMMA Appended ==
  ASSUME NEW h \in Seq(Entry), NEW x \in Entry
  PROVE  /\ Append(h, x) \in Seq(Entry)
         /\ DOMAIN Append(h, x) = 1..(Len(h) + 1) /\ DOMAIN h = 1..Len(h) /\ Len(h) \in Nat
         /\ Len(Append(h, x)) = Len(h) + 1
         /\ \A i \in DOMAIN h : Append(h, x)[i] = h[i]
         /\ Append(h, x)[Len(h) + 1] = x
OBVIOUS

LEMMA DecisionIs ==
  ASSUME NEW r \in Requests, NEW from \in Stages, NEW to \in Stages
  PROVE  /\ Decision(r, from, to) \in Entry
         /\ Decision(r, from, to).by = r /\ Decision(r, from, to).step = NoStage
         /\ Decision(r, from, to).told = {}
BY DEF Decision, Entry

-----------------------------------------------------------------------------
\* The type invariant needs what a request may hold at each step.

Working(q) == q.step \in {"claim", "cascade", "write"}

Fine(q) ==
  /\ q.step \in {"claim", "release"} => q.kind = "link"
  /\ q.step = "cascade" => q.kind \in {"submit", "dashboard", "link"}
  /\ q.step = "write" => q.kind \in {"submit", "dashboard", "link", "restamp"}
  /\ q.kind = "link" => q.link \in LinkIds
  /\ Working(q) /\ q.kind # "restamp" => q.stage \in Stages /\ q.via \in Stages
  /\ Working(q) /\ q.kind \in {"dashboard", "link"} => q.snap.stage \in Stages
  /\ q.kind = "restamp" => q.step \in {"write", "done"}
  /\ Working(q) /\ q.kind = "restamp" => q.snap.stage \in Approvals

TypeInv == TypeOK /\ \A r \in Requests : Fine(req[r])

\* TypeOK but for the requests.
OthersTyped ==
  /\ row \in Row
  /\ mail \in [Emails \X People -> Mail \cup {NoMail}]
  /\ minted \subseteq LinkIds /\ expired \subseteq minted
  /\ usedBy \in [LinkIds -> Requests \cup {Nobody}]
  /\ faults \in Nat
  /\ landed \subseteq Requests /\ outdated \subseteq Requests
  /\ overwrote \subseteq Requests /\ unsure \subseteq Requests
  /\ visited \subseteq Stages /\ revisited \subseteq visited
  /\ lateStamped \subseteq People /\ edits \in Nat

LEMMA Halves == TypeOK <=> OthersTyped /\ req \in [Requests -> Request]
BY DEF TypeOK, OthersTyped

LEMMA Halves2 == TypeOK' <=> OthersTyped' /\ req' \in [Requests -> Request]
BY DEF TypeOK, OthersTyped

LEMMA TypeInit == Init => TypeInv
<1> SUFFICES ASSUME Init PROVE TypeInv
  OBVIOUS
<1>1. OthersTyped
  BY PayloadIs, SeedIs DEF Init, OthersTyped
<1>2. req \in [Requests -> Request] /\ \A r \in Requests : Fine(req[r])
  BY IdleIs DEF Init, Fine, Working
<1> QED BY <1>1, <1>2, Halves DEF TypeInv

Others(r) == \A s \in Requests \ {r} : req'[s] = req[s]

LEMMA Becomes ==
  ASSUME TypeInv, NEW r \in Requests, NEW q \in Request, req' = [req EXCEPT ![r] = q], Fine(q)
  PROVE  /\ req' \in [Requests -> Request] /\ req'[r] = q /\ Others(r)
         /\ (\A s \in Requests : Fine(req[s]))'
<1>1. req \in [Requests -> Request]
  BY Halves DEF TypeInv
<1>2. req' \in [Requests -> Request] /\ req'[r] = q /\ Others(r)
  BY <1>1 DEF Others
<1>3. \A s \in Requests : Fine(req'[s])
  BY <1>2 DEF TypeInv, Others
<1> QED BY <1>2, <1>3

\* A step of r that keeps the types.
LEMMA Whole ==
  ASSUME TypeInv, NEW r \in Requests, NEW q \in Request, req' = [req EXCEPT ![r] = q], Fine(q),
         OthersTyped'
  PROVE  TypeInv' /\ req'[r] = q /\ Others(r)
BY Becomes, Halves2 DEF TypeInv

LEMMA FinishedIs ==
  ASSUME TypeInv, NEW r \in Requests, req[r].kind # "none"
  PROVE  /\ Finished(r) \in Request /\ Fine(Finished(r))
         /\ Finished(r).kind = req[r].kind /\ Finished(r).link = req[r].link
         /\ Finished(r).step = "done" /\ Finished(r).history = <<>>
<1>1. req[r] \in Request /\ Fine(req[r])
  BY Halves DEF TypeInv
<1>2. /\ Finished(r) \in Request
      /\ Finished(r).kind = req[r].kind /\ Finished(r).link = req[r].link
      /\ Finished(r).step = "done" /\ Finished(r).history = <<>>
  BY <1>1, IdleIs DEF Finished, Request, Steps
<1> QED BY <1>1, <1>2 DEF Fine, Working

\* A request that goes to another step keeps what it holds.
Held(q, p) ==
  /\ q.kind = p.kind /\ q.who = p.who /\ q.link = p.link /\ q.snap = p.snap
  /\ q.via = p.via /\ q.stage = p.stage /\ q.hops = p.hops /\ q.history = p.history

LEMMA GoToIs ==
  ASSUME TypeInv, NEW r \in Requests, NEW step \in Steps, GoTo(r, step)
  PROVE  LET q == [req[r] EXCEPT !.step = step] IN
         /\ req' = [req EXCEPT ![r] = q] /\ q \in Request
         /\ Held(q, req[r]) /\ q.step = step /\ q.approvers = req[r].approvers
<1> DEFINE q == [req[r] EXCEPT !.step = step]
<1>1. req[r] \in Request
  BY Halves DEF TypeInv
<1>2. req' = [req EXCEPT ![r] = q]
  BY DEF GoTo
<1>3. q \in Request /\ q.step = step /\ q.approvers = req[r].approvers
  BY <1>1 DEF Request
<1>4. Held(q, req[r])
  BY <1>1 DEF Request, Held
<1> QED BY <1>2, <1>3, <1>4

LEMMA RestsIs ==
  ASSUME TypeInv, NEW r \in Requests, NEW approvers \in SUBSET People, Rests(r, approvers)
  PROVE  LET q == [req[r] EXCEPT !.step = "write", !.approvers = approvers] IN
         /\ req' = [req EXCEPT ![r] = q] /\ q \in Request
         /\ Held(q, req[r]) /\ q.step = "write" /\ q.approvers = approvers
<1> DEFINE q == [req[r] EXCEPT !.step = "write", !.approvers = approvers]
<1>1. req[r] \in Request /\ "write" \in Steps
  BY Halves DEF TypeInv, Steps
<1>2. req' = [req EXCEPT ![r] = q]
  BY DEF Rests
<1>3. q \in Request /\ q.step = "write" /\ q.approvers = approvers
  BY <1>1 DEF Request
<1>4. Held(q, req[r])
  BY <1>1 DEF Request, Held
<1> QED BY <1>2, <1>3, <1>4

-----------------------------------------------------------------------------
\* What the steps do, as far as the invariants below tell, and that each keeps
\* the types.

\* Nothing but requests, links' uses, faults and doubts changes.
RowStays ==
  /\ row' = row /\ mail' = mail /\ landed' = landed /\ outdated' = outdated
  /\ overwrote' = overwrote /\ visited' = visited /\ revisited' = revisited
  /\ lateStamped' = lateStamped /\ edits' = edits

\* A request has started: it holds what it has read.
Starts(r) ==
  /\ RowStays /\ Others(r) /\ usedBy' = usedBy /\ faults' = faults /\ unsure' = unsure
  /\ req[r].step = "idle" /\ req'[r].hops = 0

Submits(r) ==
  /\ Starts(r)
  /\ req'[r].kind = "submit" /\ req'[r].step = "cascade" /\ req'[r].history = <<>>
  /\ \E p \in Payloads : req'[r].snap = Seed(p)

Decides(r) ==
  /\ Starts(r) /\ Exists
  /\ \/ req'[r].kind = "dashboard" /\ req'[r].step = "cascade" /\ MayDecide(req'[r].who)
     \/ req'[r].kind = "link" /\ req'[r].step = "claim" /\ row.stage = LinkStage(req'[r].link)
  /\ req'[r].snap = row /\ req'[r].stage \in Transitions[row.stage]
  /\ req'[r].history = Append(row.history, Decision(r, row.stage, req'[r].stage))

Rereads(r) ==
  /\ Starts(r) /\ Exists /\ row.stage \in Approvals
  /\ req'[r].kind = "restamp" /\ req'[r].step = "write" /\ req'[r].history = <<>>
  /\ req'[r].snap = row /\ req'[r].approvers = CurrentApprovers[row.payload][row.stage]

LEMMA SubmitIs ==
  ASSUME TypeInv, NEW r \in Requests, NEW p \in Payloads, Submit(r, p)
  PROVE  TypeInv' /\ Submits(r)
<1> DEFINE q == [Idle EXCEPT !.kind = "submit", !.step = "cascade", !.snap = Seed(p),
                             !.via = FirstFrom, !.stage = DefaultStage]
<1>1. req[r].step = "idle" /\ req' = [req EXCEPT ![r] = q]
      /\ UNCHANGED <<row, mail, minted, expired, usedBy, faults, ghosts, unsure>>
  BY DEF Submit
<1>2. Seed(p) \in Row
  BY SeedIs
<1>3. q \in Request /\ q.kind = "submit" /\ q.step = "cascade" /\ q.snap = Seed(p)
      /\ q.history = <<>> /\ q.hops = 0 /\ q.via = DefaultStage /\ q.stage = DefaultStage
  BY <1>2, IdleIs DEF Request, Kinds, Steps, FirstFrom
<1>4. Fine(q)
  BY <1>3 DEF Fine
<1>5. OthersTyped'
  BY <1>1, Halves DEF TypeInv, OthersTyped, ghosts
<1>6. TypeInv' /\ req'[r] = q /\ Others(r)
  BY <1>1, <1>3, <1>4, <1>5, Whole
<1> QED BY <1>1, <1>3, <1>6 DEF Submits, Starts, RowStays, ghosts

\* A decision as it starts.
Links == LinkIds \cup {NoLink}

LEMMA StartedIs ==
  ASSUME TypeInv, NEW r \in Requests, NEW kind \in {"dashboard", "link"},
         NEW step \in {"claim", "cascade"}, NEW who \in People,
         NEW link \in Links, NEW to \in Stages, Exists
  PROVE  LET q == StartedDecision(r, kind, step, who, link, to) IN
         /\ q \in Request /\ q.hops = 0
         /\ q.kind = kind /\ q.step = step /\ q.who = who /\ q.link = link
         /\ q.snap = row /\ q.stage = to /\ q.via \in Stages /\ q.snap.stage \in Stages
         /\ q.history = Append(row.history, Decision(r, row.stage, to))
<1> DEFINE q == StartedDecision(r, kind, step, who, link, to)
           h == Append(row.history, Decision(r, row.stage, to))
<1>1. row \in Row /\ row.stage \in Stages
  BY Halves DEF TypeInv, OthersTyped, Exists, Row
<1>2. h \in Seq(Entry)
  BY <1>1, DecisionIs, Appended DEF Row
<1> HIDE DEF h
<1>3. /\ q \in Request /\ q.hops = 0
      /\ q.kind = kind /\ q.step = step /\ q.who = who /\ q.link = link
      /\ q.snap = row /\ q.via = row.stage /\ q.stage = to /\ q.history = h
  <2>1. q = [Idle EXCEPT !.kind = kind, !.step = step, !.who = who, !.link = link,
                         !.snap = row, !.via = row.stage, !.stage = to, !.history = h]
    BY DEF StartedDecision, h
  <2> QED BY <1>1, <1>2, <2>1, IdleIs DEF Request, Kinds, Steps, Links
<1> QED BY <1>1, <1>3 DEF h

LEMMA DecideOnDashboardIs ==
  ASSUME TypeInv, NEW r \in Requests, NEW who \in People, NEW to \in Stages,
         DecideOnDashboard(r, who, to)
  PROVE  TypeInv' /\ Decides(r)
<1> DEFINE q == StartedDecision(r, "dashboard", "cascade", who, NoLink, to)
<1>1. /\ req[r].step = "idle" /\ req' = [req EXCEPT ![r] = q]
      /\ Exists /\ to \in Transitions[row.stage] /\ MayDecide(who)
      /\ UNCHANGED <<row, mail, minted, expired, usedBy, faults, ghosts, unsure>>
  BY DEF DecideOnDashboard
<1>2. /\ q \in Request /\ q.hops = 0
      /\ q.kind = "dashboard" /\ q.step = "cascade" /\ q.who = who
      /\ q.snap = row /\ q.stage = to /\ q.via \in Stages /\ q.snap.stage \in Stages
      /\ q.history = Append(row.history, Decision(r, row.stage, to))
  <2>1. /\ NoLink \in Links
        /\ "dashboard" \in {"dashboard", "link"} /\ "cascade" \in {"claim", "cascade"}
    BY DEF Links
  <2> QED BY <1>1, <2>1, StartedIs
<1>3. OthersTyped'
  BY <1>1, Halves DEF TypeInv, OthersTyped, ghosts
<1>4. Fine(q)
  BY <1>2 DEF Fine
<1>5. TypeInv' /\ req'[r] = q /\ Others(r)
  BY <1>1, <1>2, <1>3, <1>4, Whole
<1> QED BY <1>1, <1>2, <1>5 DEF Decides, Starts, RowStays, ghosts

LEMMA DecideByLinkIs ==
  ASSUME TypeInv, NEW r \in Requests, NEW l \in LinkIds, NEW to \in Stages,
         DecideByLink(r, l, to)
  PROVE  TypeInv' /\ Decides(r)
<1> DEFINE q == StartedDecision(r, "link", "claim", LinkRecipient(l), l, to)
<1>1. /\ req[r].step = "idle" /\ req' = [req EXCEPT ![r] = q]
      /\ Exists /\ to \in Transitions[row.stage] /\ row.stage = LinkStage(l)
      /\ UNCHANGED <<row, mail, minted, expired, usedBy, faults, ghosts, unsure>>
  BY DEF DecideByLink, ValidLink
<1>2. LinkRecipient(l) \in People
  BY DEF LinkIds, LinkRecipient
<1>3. /\ q \in Request /\ q.hops = 0
      /\ q.kind = "link" /\ q.step = "claim" /\ q.link = l
      /\ q.snap = row /\ q.stage = to /\ q.via \in Stages /\ q.snap.stage \in Stages
      /\ q.history = Append(row.history, Decision(r, row.stage, to))
  <2>1. l \in Links
    BY DEF Links
  <2> QED BY <1>1, <1>2, <2>1, StartedIs
<1>4. OthersTyped'
  BY <1>1, Halves DEF TypeInv, OthersTyped, ghosts
<1>5. Fine(q)
  BY <1>3 DEF Fine
<1>6. TypeInv' /\ req'[r] = q /\ Others(r)
  BY <1>1, <1>3, <1>4, <1>5, Whole
<1> QED BY <1>1, <1>3, <1>6 DEF Decides, Starts, RowStays, ghosts

LEMMA RestampReadIs ==
  ASSUME TypeInv, NEW r \in Requests, RestampRead(r)
  PROVE  TypeInv' /\ Rereads(r)
<1> DEFINE resolved == CurrentApprovers[row.payload][row.stage]
           q == [Idle EXCEPT !.kind = "restamp", !.step = "write", !.snap = row,
                             !.approvers = resolved]
<1>1. /\ req[r].step = "idle" /\ req' = [req EXCEPT ![r] = q]
      /\ Exists /\ row.stage \in Approvals
      /\ UNCHANGED <<row, mail, minted, expired, usedBy, faults, ghosts, unsure>>
  BY DEF RestampRead
<1>2. row \in Row /\ row.payload \in Payloads /\ resolved \in SUBSET People
  BY <1>1, Halves DEF TypeInv, OthersTyped, Row
<1>3. /\ q \in Request /\ q.kind = "restamp" /\ q.step = "write" /\ q.snap = row
      /\ q.approvers = resolved /\ q.history = <<>> /\ q.hops = 0
  BY <1>2, IdleIs DEF Request, Kinds, Steps
<1>4. Fine(q)
  BY <1>1, <1>3 DEF Fine
<1>5. OthersTyped'
  BY <1>1, Halves DEF TypeInv, OthersTyped, ghosts
<1>6. TypeInv' /\ req'[r] = q /\ Others(r)
  BY <1>1, <1>3, <1>4, <1>5, Whole
<1> QED BY <1>1, <1>3, <1>6 DEF Rereads, Starts, RowStays, ghosts

\* A request ends, or is about to release its link, without an effect of its own.
Leaves(r) ==
  /\ RowStays /\ Others(r) /\ faults <= faults' /\ unsure \subseteq unsure'
  /\ req'[r].kind = req[r].kind /\ req'[r].link = req[r].link /\ req[r].kind # "none"
  /\ req'[r].step \in {"release", "done"} /\ req'[r].history \in {<<>>, req[r].history}
  /\ req[r].step \in {"claim", "cascade", "write", "release"}

ClaimedBy(r) ==
  usedBy[req[r].link] = Nobody /\ usedBy' = [usedBy EXCEPT ![req[r].link] = r]

\* The claim found the link used, or failed; it was refused afterwards, or its
\* answer was lost; the write did not match, or failed; the link is released.
Misses(r) == Leaves(r) /\ req[r].step = "claim" /\ usedBy' = usedBy /\ req'[r].step = "done"
Refused(r) ==
  /\ Leaves(r) /\ req[r].step = "claim" /\ ClaimedBy(r)
  /\ req'[r].step = "release" \/ r \in unsure'
Drops(r) ==
  /\ Leaves(r) /\ req[r].step = "write" /\ usedBy' = usedBy
  /\ req'[r].step = IF req[r].kind = "link" THEN "release" ELSE "done"
  /\ \/ faults' > 0 \/ req[r].kind = "restamp"
     \/ req[r].kind = "submit" /\ Exists
     \/ req[r].kind = "link" /\ row.stage # LinkStage(req[r].link)
Releases(r) ==
  /\ Leaves(r) /\ req[r].step = "release" /\ req'[r].step = "done"
  /\ \/ usedBy' = [usedBy EXCEPT ![req[r].link] = Nobody]
     \/ usedBy' = usedBy /\ r \in unsure'
Crashes(r) == Leaves(r) /\ usedBy' = usedBy /\ r \in unsure' /\ req'[r].step = "done"

Over(r) == Misses(r) \/ Refused(r) \/ Drops(r) \/ Releases(r) \/ Crashes(r)

\* A request goes on: it has claimed its link, or its cascade has ended.
GoesOn(r) ==
  /\ RowStays /\ Others(r) /\ Held(req'[r], req[r]) /\ faults <= faults' /\ unsure' = unsure
Takes(r) ==
  /\ GoesOn(r) /\ req[r].step = "claim" /\ req'[r].step = "cascade" /\ ClaimedBy(r)
  /\ Authorized(req[r].snap, req[r].who)
Settles(r) ==
  /\ GoesOn(r) /\ req[r].step = "cascade" /\ req'[r].step = "write" /\ usedBy' = usedBy
  /\ req'[r].approvers \subseteq Resolved(req[r].snap.payload, req[r].stage)
  /\ req[r].stage \in Emails => CapReached(r) \/ faults' > 0

LEMMA FaultIs == TypeInv /\ Fault => faults' \in Nat /\ faults' > 0 /\ faults <= faults'
BY Halves DEF TypeInv, OthersTyped, Fault

\* r finishes, or goes to release its link, and the types of the rest are kept.
LEMMA OverTyped ==
  ASSUME TypeInv, NEW r \in Requests, RowStays, UNCHANGED <<minted, expired>>,
         req[r].step \in {"claim", "cascade", "write", "release"},
         usedBy' \in [LinkIds -> Requests \cup {Nobody}],
         UNCHANGED faults \/ Fault, unsure' \in {unsure, unsure \cup {r}}
  PROVE  /\ OthersTyped' /\ req[r].kind # "none" /\ faults <= faults'
         /\ req[r] \in Request /\ Fine(req[r])
<1>1. req[r] \in Request /\ Fine(req[r]) /\ faults \in Nat
  BY Halves DEF TypeInv, OthersTyped
<1>2. OthersTyped'
  BY FaultIs, Halves DEF TypeInv, OthersTyped, RowStays
<1> QED BY <1>1, <1>2, FaultIs DEF Fine

LEMMA EndsIs ==
  ASSUME TypeInv, NEW r \in Requests, RowStays, UNCHANGED <<minted, expired>>,
         req[r].step \in {"claim", "cascade", "write", "release"},
         usedBy' \in [LinkIds -> Requests \cup {Nobody}],
         UNCHANGED faults \/ Fault, unsure' \in {unsure, unsure \cup {r}},
         Finish(r)
  PROVE  TypeInv' /\ Leaves(r) /\ req'[r].step = "done"
<1>1. OthersTyped' /\ req[r].kind # "none" /\ faults <= faults'
  BY OverTyped
<1>2. /\ Finished(r) \in Request /\ Fine(Finished(r))
      /\ Finished(r).kind = req[r].kind /\ Finished(r).link = req[r].link
      /\ Finished(r).step = "done" /\ Finished(r).history = <<>>
  BY <1>1, FinishedIs
<1>3. TypeInv' /\ req'[r] = Finished(r) /\ Others(r)
  BY <1>1, <1>2, Whole DEF Finish
<1> QED BY <1>1, <1>2, <1>3 DEF Leaves

LEMMA LetsGoIs ==
  ASSUME TypeInv, NEW r \in Requests, RowStays, UNCHANGED <<minted, expired>>,
         req[r].step \in {"claim", "cascade", "write", "release"},
         usedBy' \in [LinkIds -> Requests \cup {Nobody}],
         UNCHANGED faults \/ Fault, unsure' \in {unsure, unsure \cup {r}},
         GoTo(r, "release"), req[r].kind = "link"
  PROVE  TypeInv' /\ Leaves(r) /\ req'[r].step = "release"
<1> DEFINE q == [req[r] EXCEPT !.step = "release"]
<1>1. /\ OthersTyped' /\ faults <= faults'
      /\ req[r] \in Request /\ Fine(req[r])
  BY OverTyped
<1>2. /\ req' = [req EXCEPT ![r] = q] /\ q \in Request
      /\ Held(q, req[r]) /\ q.step = "release"
  BY GoToIs DEF Steps
<1>3. Fine(q)
  BY <1>1, <1>2 DEF Fine, Working, Held
<1>4. TypeInv' /\ req'[r] = q /\ Others(r)
  BY <1>1, <1>2, <1>3, Whole
<1> QED BY <1>1, <1>2, <1>4 DEF Leaves, Held

LEMMA ClaimIs ==
  ASSUME TypeInv, NEW r \in Requests, Claim(r)
  PROVE  TypeInv' /\ (Takes(r) \/ Refused(r) \/ Misses(r))
<1> DEFINE l == req[r].link
<1>1. /\ req[r].step = "claim" /\ UNCHANGED <<row, mail, minted, expired, ghosts>>
      /\ \/ /\ ClaimedBy(r) /\ UNCHANGED <<unsure, faults>>
            /\ Authorized(req[r].snap, req[r].who) /\ GoTo(r, "cascade")
         \/ ClaimedBy(r) /\ UNCHANGED unsure /\ (UNCHANGED faults \/ Fault) /\ GoTo(r, "release")
         \/ Finish(r) /\ UNCHANGED <<usedBy, unsure>> /\ (UNCHANGED faults \/ Fault)
         \/ Fault /\ ClaimedBy(r) /\ Finish(r) /\ unsure' = unsure \cup {r}
  BY DEF Claim, Claimable, ClaimedBy
<1>2. RowStays /\ UNCHANGED <<minted, expired>>
  BY <1>1 DEF RowStays, ghosts
<1>3. /\ req[r] \in Request /\ Fine(req[r]) /\ req[r].kind = "link" /\ l \in LinkIds
      /\ usedBy \in [LinkIds -> Requests \cup {Nobody}]
  BY <1>1, Halves DEF TypeInv, OthersTyped, Fine
<1>4. ClaimedBy(r) => usedBy' \in [LinkIds -> Requests \cup {Nobody}]
  BY <1>3 DEF ClaimedBy
<1>5. CASE /\ ClaimedBy(r) /\ UNCHANGED <<unsure, faults>>
           /\ Authorized(req[r].snap, req[r].who) /\ GoTo(r, "cascade")
  <2> DEFINE q == [req[r] EXCEPT !.step = "cascade"]
  <2>1. /\ req' = [req EXCEPT ![r] = q] /\ q \in Request
        /\ Held(q, req[r]) /\ q.step = "cascade"
    BY <1>5, GoToIs DEF Steps
  <2>2. Fine(q)
    BY <1>1, <1>3, <2>1 DEF Fine, Working, Held
  <2>3. OthersTyped'
    BY <1>2, <1>4, <1>5, Halves DEF TypeInv, OthersTyped, RowStays
  <2>4. TypeInv' /\ req'[r] = q /\ Others(r)
    BY <2>1, <2>2, <2>3, Whole
  <2>5. faults <= faults'
    BY <1>5, Halves DEF TypeInv, OthersTyped
  <2> QED BY <1>1, <1>2, <1>5, <2>1, <2>4, <2>5 DEF Takes, GoesOn
<1>6. CASE ClaimedBy(r) /\ UNCHANGED unsure /\ (UNCHANGED faults \/ Fault) /\ GoTo(r, "release")
  BY <1>1, <1>2, <1>3, <1>4, <1>6, LetsGoIs DEF Refused
<1>7. CASE Finish(r) /\ UNCHANGED <<usedBy, unsure>> /\ (UNCHANGED faults \/ Fault)
  BY <1>1, <1>2, <1>3, <1>7, EndsIs DEF Misses
<1>8. CASE Fault /\ ClaimedBy(r) /\ Finish(r) /\ unsure' = unsure \cup {r}
  BY <1>1, <1>2, <1>3, <1>4, <1>8, EndsIs DEF Refused
<1> QED BY <1>1, <1>5, <1>6, <1>7, <1>8

LEMMA ReleaseIs ==
  ASSUME TypeInv, NEW r \in Requests, Release(r)
  PROVE  TypeInv' /\ Releases(r)
<1>1. /\ req[r].step = "release" /\ Finish(r) /\ UNCHANGED <<row, mail, minted, expired, ghosts>>
      /\ UNCHANGED faults \/ Fault
      /\ unsure' \in {unsure, unsure \cup {r}}
      /\ \/ usedBy' = [usedBy EXCEPT ![req[r].link] = Nobody]
         \/ usedBy' = usedBy /\ r \in unsure'
  BY DEF Release
<1>2. RowStays /\ UNCHANGED <<minted, expired>>
  BY <1>1 DEF RowStays, ghosts
<1>3. usedBy' \in [LinkIds -> Requests \cup {Nobody}]
  BY <1>1, Halves DEF TypeInv, OthersTyped
<1> QED BY <1>1, <1>2, <1>3, EndsIs DEF Releases

LEMMA CrashIs ==
  ASSUME TypeInv, NEW r \in Requests, Crash(r)
  PROVE  TypeInv' /\ Crashes(r)
<1>1. /\ req[r].step \notin {"idle", "done"} /\ Finish(r) /\ Fault /\ unsure' = unsure \cup {r}
      /\ UNCHANGED <<row, mail, minted, expired, usedBy, ghosts>>
  BY DEF Crash, Active
<1>2. RowStays /\ UNCHANGED <<minted, expired>>
  BY <1>1 DEF RowStays, ghosts
<1>3. /\ usedBy' \in [LinkIds -> Requests \cup {Nobody}]
      /\ req[r].step \in {"claim", "cascade", "write", "release"}
  BY <1>1, Halves DEF TypeInv, OthersTyped, Request, Steps
<1> QED BY <1>1, <1>2, <1>3, EndsIs DEF Crashes

LEMMA RestIs ==
  ASSUME TypeInv, NEW r \in Requests, Rest(r)
  PROVE  TypeInv' /\ Settles(r)
<1>1. /\ req[r].step = "cascade" /\ UNCHANGED <<row, mail, minted, expired, usedBy, ghosts, unsure>>
      /\ UNCHANGED faults \/ Fault
      /\ req[r].stage \in Emails => CapReached(r) \/ Fault
      /\ \E approvers \in {Resolved(req[r].snap.payload, req[r].stage), {}} : Rests(r, approvers)
  BY DEF Rest
<1>2. req[r] \in Request /\ Fine(req[r]) /\ req[r].snap.payload \in Payloads
  BY Halves DEF TypeInv, Request, Row
<1>3. PICK approvers \in SUBSET People :
        approvers \subseteq Resolved(req[r].snap.payload, req[r].stage) /\ Rests(r, approvers)
  BY <1>1, <1>2, ResolvedIs
<1> DEFINE q == [req[r] EXCEPT !.step = "write", !.approvers = approvers]
<1>4. /\ req' = [req EXCEPT ![r] = q] /\ q \in Request
      /\ Held(q, req[r]) /\ q.step = "write" /\ q.approvers = approvers
  BY <1>3, RestsIs
<1>5. Fine(q)
  BY <1>1, <1>2, <1>4 DEF Fine, Working, Held
<1>6. OthersTyped'
  BY <1>1, FaultIs, Halves DEF TypeInv, OthersTyped, ghosts
<1>7. TypeInv' /\ req'[r] = q /\ Others(r)
  BY <1>4, <1>5, <1>6, Whole
<1>8. faults <= faults' /\ (Fault => faults' > 0)
  BY <1>1, FaultIs, Halves DEF TypeInv, OthersTyped
<1> QED BY <1>1, <1>3, <1>4, <1>7, <1>8 DEF Settles, GoesOn, RowStays, ghosts

\* An email stage: r notes those it has enqueued; a row of the queue stays.
Mails(r) ==
  /\ row' = row /\ landed' = landed /\ outdated' = outdated /\ overwrote' = overwrote
  /\ visited' = visited /\ revisited' = revisited /\ lateStamped' = lateStamped /\ edits' = edits
  /\ Others(r) /\ usedBy' = usedBy /\ faults <= faults' /\ unsure' = unsure
  /\ req[r].step = "cascade" /\ req'[r].step = "cascade"
  /\ req'[r].kind = req[r].kind /\ req'[r].who = req[r].who
  /\ req'[r].link = req[r].link /\ req'[r].snap = req[r].snap
  /\ req'[r].stage = After(req[r].stage) /\ req'[r].hops = req[r].hops + 1
  /\ \E x \in Entry :
       /\ req'[r].history = Append(req[r].history, x) /\ x.step = req[r].stage
       /\ x.step \in Emails /\ \A p \in x.told : mail'[<<x.step, p>>] # NoMail
  /\ \A m \in Emails \X People :
       mail'[m] = mail[m] \/ (mail[m] = NoMail /\ mail'[m] # NoMail /\ mail'[m].by = r)

\* What Enqueued leaves.
LEMMA EnqueuedIs ==
  ASSUME mail \in [Emails \X People -> Mail \cup {NoMail}], NEW r \in Requests,
         NEW e \in Emails, NEW to \in SUBSET People, NEW linked \in SUBSET People,
         mail' = Enqueued(r, e, to, linked)
  PROVE  /\ mail' \in [Emails \X People -> Mail \cup {NoMail}]
         /\ \A p \in to : mail'[<<e, p>>] # NoMail
         /\ \A m \in Emails \X People :
              mail'[m] = mail[m] \/ (mail[m] = NoMail /\ mail'[m] # NoMail /\ mail'[m].by = r)
<1> DEFINE sent(m) == [by |-> r, link |-> m[2] \in linked]
           new(m) == m[1] = e /\ m[2] \in to /\ mail[m] = NoMail
<1>1. mail' = [m \in Emails \X People |-> IF new(m) THEN sent(m) ELSE mail[m]]
  BY DEF Enqueued
<1>2. ASSUME NEW m
      PROVE  sent(m) \in Mail /\ sent(m) # NoMail /\ sent(m).by = r
  <2>1. (m[2] \in linked) \in BOOLEAN
    OBVIOUS
  <2>2. sent(m).by = r /\ NoMail.by = Nobody /\ r # Nobody
    BY DEF NoMail
  <2>3. sent(m) \in Mail
    BY <2>1 DEF Mail
  <2> QED BY <2>2, <2>3
<1> HIDE DEF sent
<1>3. \A m \in Emails \X People : mail'[m] = IF new(m) THEN sent(m) ELSE mail[m]
  BY <1>1
<1>4. mail' \in [Emails \X People -> Mail \cup {NoMail}]
  BY <1>1, <1>2
<1>5. ASSUME NEW p \in to PROVE mail'[<<e, p>>] # NoMail
  BY <1>2, <1>3
<1> QED BY <1>2, <1>3, <1>4, <1>5

LEMMA EmailStageIs ==
  ASSUME TypeInv, NEW r \in Requests, EmailStage(r)
  PROVE  TypeInv' /\ Mails(r)
<1> DEFINE e == req[r].stage
           to == Recipients[req[r].snap.payload][e]
<1>1. /\ req[r].step = "cascade" /\ e \in Emails
      /\ UNCHANGED <<row, expired, usedBy, ghosts, unsure>>
  BY DEF EmailStage
<1>2. /\ req[r] \in Request /\ Fine(req[r]) /\ req[r].snap.payload \in Payloads
      /\ req[r].via \in Stages /\ req[r].history \in Seq(Entry) /\ req[r].hops \in Nat
      /\ mail \in [Emails \X People -> Mail \cup {NoMail}]
  BY <1>1, Halves DEF TypeInv, OthersTyped, Request, Row, Fine, Working
<1>3. to \in SUBSET People /\ After(e) \in Stages
  BY <1>1, <1>2, AfterIs
<1>4. PICK unqueued \in SUBSET to, lost \in SUBSET to, linked \in SUBSET to :
        /\ UNCHANGED faults \/ Fault
        /\ minted' = minted \cup {<<r, e, p>> : p \in linked}
        /\ mail' = Enqueued(r, e, (to \ unqueued) \cup lost, linked)
        /\ req' = [req EXCEPT
             ![r].via = e, ![r].stage = After(e), ![r].hops = @ + 1,
             ![r].history = Append(@,
                [by |-> r, step |-> e, from |-> req[r].via, to |-> After(e),
                 told |-> NotedRecipients(to, unqueued)])]
  BY DEF EmailStage
<1> DEFINE x == [by |-> r, step |-> e, from |-> req[r].via, to |-> After(e),
                 told |-> NotedRecipients(to, unqueued)]
           h == Append(req[r].history, x)
           q == [req[r] EXCEPT !.via = e, !.stage = After(e), !.hops = req[r].hops + 1,
                               !.history = h]
<1>5. /\ x \in Entry /\ x.step = e /\ x.told = to \ unqueued
      /\ x.told \subseteq (to \ unqueued) \cup lost
  <2>1. NotedRecipients(to, unqueued) = to \ unqueued
    BY DEF NotedRecipients
  <2> QED BY <1>1, <1>2, <1>3, <2>1 DEF Entry
<1>6. h \in Seq(Entry)
  BY <1>2, <1>5, Appended
<1>7. req' = [req EXCEPT ![r] = q]
  BY <1>4
<1> HIDE DEF h, x
<1>8. e \in Stages /\ req[r].hops + 1 \in Nat
  BY <1>1, <1>2 DEF Stages
<1>9. /\ q \in Request /\ q.step = "cascade" /\ q.kind = req[r].kind /\ q.who = req[r].who
      /\ q.link = req[r].link /\ q.snap = req[r].snap /\ q.history = h
      /\ q.stage \in Stages /\ q.via \in Stages /\ q.stage = After(e) /\ q.hops = req[r].hops + 1
  <2> HIDE DEF to
  <2>1. q = [req[r] EXCEPT !.via = e, !.stage = After(e), !.hops = req[r].hops + 1, !.history = h]
    OBVIOUS
  <2> HIDE DEF q
  <2>2. /\ req[r] \in Request /\ e \in Stages /\ After(e) \in Stages /\ req[r].hops + 1 \in Nat
        /\ h \in Seq(Entry) /\ req[r].step = "cascade"
    BY <1>1, <1>2, <1>3, <1>6, <1>8
  <2> HIDE DEF e
  <2>3. /\ q \in Request /\ q.step = req[r].step /\ q.kind = req[r].kind /\ q.who = req[r].who
        /\ q.link = req[r].link /\ q.snap = req[r].snap
        /\ q.history = h /\ q.stage = After(e) /\ q.via = e /\ q.hops = req[r].hops + 1
    <3> DEFINE a == After(e)  n == req[r].hops + 1
    <3>1. /\ a \in Stages /\ n \in Nat /\ a = After(e)
          /\ q = [req[r] EXCEPT !.via = e, !.stage = a, !.hops = n, !.history = h]
      BY <2>1, <2>2
    <3> HIDE DEF a, n
    <3>2. \A p \in Request : req[r] = p => q \in Request
      BY <2>2, <3>1 DEF Request
    <3>3. /\ q.step = req[r].step /\ q.kind = req[r].kind /\ q.who = req[r].who
          /\ q.link = req[r].link /\ q.snap = req[r].snap
          /\ q.history = h /\ q.stage = a /\ q.via = e /\ q.hops = n
      BY <2>2, <3>1 DEF Request
    <3> QED BY <2>2, <3>1, <3>2, <3>3 DEF n
  <2> QED BY <2>2, <2>3
<1>10. Fine(q)
  BY <1>1, <1>2, <1>9 DEF Fine, Working
<1>11. /\ mail' \in [Emails \X People -> Mail \cup {NoMail}]
       /\ \A p \in (to \ unqueued) \cup lost : mail'[<<e, p>>] # NoMail
       /\ \A m \in Emails \X People :
            mail'[m] = mail[m] \/ (mail[m] = NoMail /\ mail'[m] # NoMail /\ mail'[m].by = r)
  <2>1. (to \ unqueued) \cup lost \in SUBSET People
    BY <1>3
  <2>2. mail' = Enqueued(r, e, (to \ unqueued) \cup lost, linked)
    BY <1>4
  <2> DEFINE sent == (to \ unqueued) \cup lost
  <2> HIDE DEF sent, to, e
  <2>3. /\ e \in Emails /\ mail \in [Emails \X People -> Mail \cup {NoMail}]
        /\ sent \in SUBSET People /\ linked \in SUBSET People /\ mail' = Enqueued(r, e, sent, linked)
    BY <1>1, <1>2, <1>3, <2>1, <2>2 DEF sent, to, e
  <2>4. /\ mail' \in [Emails \X People -> Mail \cup {NoMail}]
        /\ \A p \in sent : mail'[<<e, p>>] # NoMail
        /\ \A m \in Emails \X People :
             mail'[m] = mail[m] \/ (mail[m] = NoMail /\ mail'[m] # NoMail /\ mail'[m].by = r)
    BY <2>3, EnqueuedIs
  <2> QED BY <2>4 DEF sent
<1>12. minted' \subseteq LinkIds /\ expired' \subseteq minted'
  <2>1. linked \subseteq People
    BY <1>3
  <2> QED BY <1>1, <1>4, <2>1, Halves DEF TypeInv, OthersTyped, LinkIds
<1>13. OthersTyped'
  BY <1>1, <1>4, <1>11, <1>12, FaultIs, Halves DEF TypeInv, OthersTyped, ghosts
<1>14. TypeInv' /\ req'[r] = q /\ Others(r)
  BY <1>7, <1>9, <1>10, <1>13, Whole
<1>15. faults <= faults'
  BY <1>4, FaultIs, Halves DEF TypeInv, OthersTyped
<1>16. \A p \in x.told : mail'[<<x.step, p>>] # NoMail
  BY <1>5, <1>11
<1> QED BY <1>1, <1>5, <1>9, <1>11, <1>14, <1>15, <1>16 DEF Mails, ghosts, h

\* What a finished request leaves; a write leaves the mail and the links.
Ends(r) ==
  /\ Others(r) /\ req[r].step = "write" /\ req'[r].kind = req[r].kind
  /\ req'[r].link = req[r].link /\ req'[r].history \in {<<>>, req[r].history}
  /\ mail' = mail /\ usedBy' = usedBy /\ edits' = edits /\ faults <= faults'

Visited(s) ==
  /\ visited' = visited \cup {s}
  /\ revisited \subseteq revisited'
  /\ s \in visited => s \in revisited'

\* The row is created, a decision is written, a re-stamp is written.
Inserts(r) ==
  /\ Ends(r) /\ ~Exists /\ req[r].kind = "submit" /\ req'[r].step = "done"
  /\ row'.stage = req[r].stage /\ row'.history = req[r].history
  /\ row'.approvers = req[r].approvers /\ row'.payload = req[r].snap.payload
  /\ row'.status = req[r].snap.status
  /\ landed' = landed /\ outdated' = outdated /\ overwrote' = overwrote
  /\ lateStamped' = lateStamped /\ unsure' = unsure /\ Visited(req[r].stage)

Writes(r) ==
  /\ Ends(r) /\ req[r].kind \in {"dashboard", "link"} /\ Matches(r)
  /\ \/ req'[r].step = "done"
     \/ req'[r].step = "release" /\ req[r].kind = "link" /\ r \in unsure'
  /\ unsure \subseteq unsure'
  /\ row'.stage = req[r].stage /\ row'.history = req[r].history
  /\ row'.approvers = req[r].approvers /\ row'.payload = row.payload
  /\ row'.status = IF req[r].stage \in Outcomes /\ req[r].snap.status # "closed"
                   THEN "closed" ELSE row.status
  /\ landed' = landed \cup {r}
  /\ outdated' = (outdated \cup {q \in Requests : Active(q) /\ Deciding(q)}) \ {r}
  /\ overwrote' = IF r \in outdated THEN overwrote \cup {r} ELSE overwrote
  /\ lateStamped' = lateStamped /\ Visited(req[r].stage)

Restamps(r) ==
  /\ Ends(r) /\ req[r].kind = "restamp" /\ req'[r].step = "done"
  /\ row'.stage = row.stage /\ row'.history = row.history /\ row'.status = row.status
  /\ row'.approvers = req[r].approvers /\ row'.payload = row.payload
  /\ landed' = landed /\ outdated' = outdated /\ overwrote' = overwrote /\ unsure' = unsure
  /\ visited' = visited /\ revisited' = revisited
  /\ lateStamped' = IF row.stage = req[r].snap.stage THEN lateStamped
                    ELSE lateStamped \cup req[r].approvers

\* How a write ends.
LEMMA FinishIs ==
  ASSUME TypeInv, NEW r \in Requests, req[r].step = "write", Finish(r), OthersTyped',
         UNCHANGED <<mail, usedBy, edits>>, UNCHANGED faults \/ Fault
  PROVE  TypeInv' /\ Ends(r) /\ req'[r].step = "done"
<1>1. req[r].kind # "none" /\ faults \in Nat
  BY Halves DEF TypeInv, OthersTyped, Fine
<1>2. /\ Finished(r) \in Request /\ Fine(Finished(r))
      /\ Finished(r).kind = req[r].kind /\ Finished(r).link = req[r].link
      /\ Finished(r).step = "done" /\ Finished(r).history = <<>>
  BY <1>1, FinishedIs
<1>3. TypeInv' /\ req'[r] = Finished(r) /\ Others(r)
  BY <1>2, Whole DEF Finish
<1>4. faults <= faults'
  BY <1>1, FaultIs
<1> QED BY <1>2, <1>3, <1>4 DEF Ends

LEMMA FailIs ==
  ASSUME TypeInv, NEW r \in Requests, req[r].step = "write", Fail(r), OthersTyped',
         UNCHANGED <<mail, usedBy, edits>>, UNCHANGED faults \/ Fault
  PROVE  /\ TypeInv' /\ Ends(r)
         /\ req'[r].step = IF req[r].kind = "link" THEN "release" ELSE "done"
<1>1. CASE req[r].kind # "link"
  BY <1>1, FinishIs DEF Fail
<1>2. CASE req[r].kind = "link"
  <2> DEFINE q == [req[r] EXCEPT !.step = "release"]
  <2>1. req[r] \in Request /\ Fine(req[r]) /\ faults <= faults'
    BY FaultIs, Halves DEF TypeInv, OthersTyped
  <2>2. /\ req' = [req EXCEPT ![r] = q] /\ q \in Request
        /\ Held(q, req[r]) /\ q.step = "release"
    BY <1>2, GoToIs DEF Steps, Fail
  <2>3. Fine(q)
    BY <1>2, <2>1, <2>2 DEF Fine, Working, Held
  <2>4. TypeInv' /\ req'[r] = q /\ Others(r)
    BY <2>2, <2>3, Whole
  <2> QED BY <1>2, <2>1, <2>2, <2>4 DEF Ends, Held
<1> QED BY <1>1, <1>2

LEMMA VisitIs ==
  ASSUME TypeInv, NEW s \in Stages, Visit(s)
  PROVE  Visited(s) /\ visited' \subseteq Stages /\ revisited' \subseteq visited'
BY Halves DEF TypeInv, OthersTyped, Visit, Visited

LEMMA InsertIs ==
  ASSUME TypeInv, NEW r \in Requests, Insert(r)
  PROVE  TypeInv' /\ (Inserts(r) \/ Drops(r))
<1>1. /\ req[r].kind = "submit" /\ req[r].step = "write" /\ Finish(r)
      /\ UNCHANGED <<mail, minted, expired, usedBy, unsure, landed, outdated, overwrote,
                     lateStamped, edits>>
  BY DEF Insert
<1>2. /\ req[r] \in Request /\ req[r].snap \in Row /\ req[r].stage \in Stages
      /\ req[r].history \in Seq(Entry) /\ req[r].approvers \in SUBSET People
  BY <1>1, Halves DEF TypeInv, Request, Fine, Working
<1>3. CASE /\ ~Exists /\ Visit(req[r].stage) /\ UNCHANGED faults
           /\ row' = [req[r].snap EXCEPT !.stage = req[r].stage, !.history = req[r].history,
                                         !.approvers = req[r].approvers]
  <2>1. row' \in Row
    BY <1>2, <1>3 DEF Row
  <2>2. /\ row'.stage = req[r].stage /\ row'.history = req[r].history
        /\ row'.approvers = req[r].approvers /\ row'.payload = req[r].snap.payload
        /\ row'.status = req[r].snap.status
    BY <1>2, <1>3 DEF Row
  <2>3. Visited(req[r].stage) /\ visited' \subseteq Stages /\ revisited' \subseteq visited'
    BY <1>2, <1>3, VisitIs
  <2>4. OthersTyped'
    BY <1>1, <1>3, <2>1, <2>3, Halves DEF TypeInv, OthersTyped
  <2>5. TypeInv' /\ Ends(r) /\ req'[r].step = "done"
    BY <1>1, <1>3, <2>4, FinishIs
  <2> QED BY <1>1, <1>3, <2>2, <2>3, <2>5 DEF Inserts
<1>4. CASE UNCHANGED <<row, visited, revisited>> /\ ((Exists /\ UNCHANGED faults) \/ Fault)
  <2>1. RowStays /\ req[r].step \in {"claim", "cascade", "write", "release"}
        /\ usedBy' \in [LinkIds -> Requests \cup {Nobody}]
    BY <1>1, <1>4, Halves DEF TypeInv, OthersTyped, RowStays
  <2>2. TypeInv' /\ Leaves(r) /\ req'[r].step = "done"
    BY <1>1, <1>4, <2>1, EndsIs
  <2>3. faults' > 0 \/ Exists
    BY <1>4, FaultIs
  <2> QED BY <1>1, <2>2, <2>3 DEF Drops
<1> QED BY <1>1, <1>3, <1>4 DEF Insert

\* A decision that is not written.
LEMMA DropsIs ==
  ASSUME TypeInv, NEW r \in Requests, Deciding(r), req[r].step = "write", Fail(r),
         UNCHANGED <<row, landed, outdated, overwrote, visited, revisited, unsure>>,
         UNCHANGED <<mail, minted, expired, usedBy, lateStamped, edits>>,
         (~Matches(r) /\ UNCHANGED faults) \/ Fault
  PROVE  TypeInv' /\ Drops(r)
<1>1. /\ RowStays /\ usedBy' \in [LinkIds -> Requests \cup {Nobody}]
      /\ req[r].step \in {"claim", "cascade", "write", "release"}
  BY Halves DEF TypeInv, OthersTyped, RowStays
<1>2. /\ TypeInv' /\ Leaves(r)
      /\ req'[r].step = IF req[r].kind = "link" THEN "release" ELSE "done"
  <2>1. CASE req[r].kind = "link"
    BY <1>1, <2>1, LetsGoIs DEF Fail
  <2>2. CASE req[r].kind # "link"
    BY <1>1, <2>2, EndsIs DEF Fail
  <2> QED BY <2>1, <2>2
<1>3. faults' > 0 \/ (req[r].kind = "link" /\ row.stage # LinkStage(req[r].link))
  BY FaultIs DEF Matches
<1> QED BY <1>2, <1>3 DEF Drops

\* A decision that is, whether or not its answer arrives.
LEMMA LandsIs ==
  ASSUME TypeInv, NEW r \in Requests, Deciding(r), req[r].step = "write",
         Matches(r), Lands(r), UNCHANGED <<mail, minted, expired, usedBy, lateStamped, edits>>,
         unsure' \in {unsure, unsure \cup {r}}, UNCHANGED faults \/ Fault
  PROVE  /\ OthersTyped'
         /\ row'.stage = req[r].stage /\ row'.history = req[r].history
         /\ row'.approvers = req[r].approvers /\ row'.payload = row.payload
         /\ row'.status = IF req[r].stage \in Outcomes /\ req[r].snap.status # "closed"
                          THEN "closed" ELSE row.status
         /\ Visited(req[r].stage)
<1>1. /\ req[r] \in Request /\ req[r].stage \in Stages
      /\ req[r].history \in Seq(Entry) /\ req[r].approvers \in SUBSET People
  BY Halves DEF TypeInv, Request, Fine, Working, Deciding
<1>2. row \in Row /\ row' = Patched(r)
  BY Halves DEF TypeInv, OthersTyped, Lands
<1>3. row' \in Row
  BY <1>1, <1>2 DEF Row, Patched
<1>4. /\ row'.stage = req[r].stage /\ row'.history = req[r].history
      /\ row'.approvers = req[r].approvers /\ row'.payload = row.payload
      /\ row'.status = IF req[r].stage \in Outcomes /\ req[r].snap.status # "closed"
                       THEN "closed" ELSE row.status
  BY <1>2 DEF Row, Patched
<1>5. Visited(req[r].stage) /\ visited' \subseteq Stages /\ revisited' \subseteq visited'
  BY <1>1, VisitIs DEF Lands
<1>6. /\ landed' \subseteq Requests /\ outdated' \subseteq Requests /\ overwrote' \subseteq Requests
      /\ unsure' \subseteq Requests
  BY Halves DEF TypeInv, OthersTyped, Lands
<1>7. OthersTyped'
  BY <1>3, <1>5, <1>6, FaultIs, Halves DEF TypeInv, OthersTyped
<1> QED BY <1>4, <1>5, <1>7

LEMMA PatchIs ==
  ASSUME TypeInv, NEW r \in Requests, Patch(r)
  PROVE  TypeInv' /\ (Writes(r) \/ Drops(r))
<1>1. /\ Deciding(r) /\ req[r].step = "write"
      /\ UNCHANGED <<mail, minted, expired, usedBy, lateStamped, edits>>
  BY DEF Patch
<1>2. CASE /\ Matches(r) /\ Lands(r)
           /\ \/ Finish(r) /\ UNCHANGED <<faults, unsure>>
              \/ Fault /\ Fail(r) /\ unsure' = unsure \cup {r}
  <2>1. /\ unsure' \in {unsure, unsure \cup {r}} /\ unsure \subseteq unsure'
        /\ UNCHANGED faults \/ Fault
    BY <1>2
  <2>2. /\ OthersTyped'
        /\ row'.stage = req[r].stage /\ row'.history = req[r].history
        /\ row'.approvers = req[r].approvers /\ row'.payload = row.payload
        /\ row'.status = IF req[r].stage \in Outcomes /\ req[r].snap.status # "closed"
                         THEN "closed" ELSE row.status
        /\ Visited(req[r].stage)
    BY <1>1, <1>2, <2>1, LandsIs
  <2>3. /\ TypeInv' /\ Ends(r)
        /\ \/ req'[r].step = "done"
           \/ req'[r].step = "release" /\ req[r].kind = "link" /\ r \in unsure'
    <3>1. CASE Finish(r)
      BY <1>1, <2>1, <2>2, <3>1, FinishIs
    <3>2. CASE Fault /\ Fail(r) /\ unsure' = unsure \cup {r}
      BY <1>1, <2>1, <2>2, <3>2, FailIs
    <3> QED BY <1>2, <3>1, <3>2
  <2>4. /\ landed' = landed \cup {r}
        /\ outdated' = (outdated \cup {q \in Requests : Active(q) /\ Deciding(q)}) \ {r}
        /\ overwrote' = IF r \in outdated THEN overwrote \cup {r} ELSE overwrote
    BY <1>2 DEF Lands
  <2> QED BY <1>1, <1>2, <2>1, <2>2, <2>3, <2>4 DEF Writes, Deciding
<1>3. CASE /\ Fail(r)
           /\ UNCHANGED <<row, landed, outdated, overwrote, visited, revisited, unsure>>
           /\ (~Matches(r) /\ UNCHANGED faults) \/ Fault
  BY <1>1, <1>3, DropsIs
<1> QED BY <1>2, <1>3 DEF Patch

LEMMA RestampWriteIs ==
  ASSUME TypeInv, NEW r \in Requests, RestampWrite(r)
  PROVE  TypeInv' /\ (Restamps(r) \/ Drops(r))
<1>1. /\ req[r].kind = "restamp" /\ req[r].step = "write" /\ Finish(r)
      /\ UNCHANGED <<mail, minted, expired, usedBy, unsure, landed, outdated, overwrote,
                     visited, revisited, edits>>
  BY DEF RestampWrite
<1>2. req[r] \in Request /\ req[r].approvers \in SUBSET People /\ row \in Row
  BY Halves DEF TypeInv, OthersTyped, Request
<1>3. CASE /\ row' = [row EXCEPT !.approvers = req[r].approvers] /\ UNCHANGED faults
           /\ lateStamped' = IF row.stage = req[r].snap.stage THEN lateStamped
                             ELSE lateStamped \cup req[r].approvers
  <2>1. row' \in Row
    BY <1>2, <1>3 DEF Row
  <2>2. /\ row'.stage = row.stage /\ row'.history = row.history /\ row'.status = row.status
        /\ row'.approvers = req[r].approvers /\ row'.payload = row.payload
    BY <1>2, <1>3 DEF Row
  <2>3. OthersTyped'
    BY <1>1, <1>2, <1>3, <2>1, Halves DEF TypeInv, OthersTyped
  <2>4. TypeInv' /\ Ends(r) /\ req'[r].step = "done"
    BY <1>1, <1>3, <2>3, FinishIs
  <2> QED BY <1>1, <1>3, <2>2, <2>4 DEF Restamps
<1>4. CASE Fault /\ UNCHANGED <<row, lateStamped>>
  <2>1. RowStays /\ req[r].step \in {"claim", "cascade", "write", "release"}
        /\ usedBy' \in [LinkIds -> Requests \cup {Nobody}]
    BY <1>1, <1>4, Halves DEF TypeInv, OthersTyped, RowStays
  <2>2. TypeInv' /\ Leaves(r) /\ req'[r].step = "done"
    BY <1>1, <1>4, <2>1, EndsIs
  <2> QED BY <1>1, <2>2 DEF Drops
<1> QED BY <1>1, <1>3, <1>4 DEF RestampWrite

\* A status edit, and what the clock does, or nothing.
Edits ==
  /\ Exists /\ edits' = edits + 1 /\ req' = req
  /\ row'.stage = row.stage /\ row'.history = row.history
  /\ row'.approvers = row.approvers /\ row'.payload = row.payload
  /\ mail' = mail /\ usedBy' = usedBy /\ faults' = faults /\ unsure' = unsure
  /\ landed' = landed /\ outdated' = outdated /\ overwrote' = overwrote
  /\ visited' = visited /\ revisited' = revisited /\ lateStamped' = lateStamped
Ticks == RowStays /\ req' = req /\ usedBy' = usedBy /\ faults' = faults /\ unsure' = unsure

LEMMA SetStatusIs ==
  ASSUME TypeInv, NEW status \in {"new", "in_progress", "closed"}, SetStatus(status)
  PROVE  TypeInv' /\ Edits
<1>1. /\ row \in Row /\ edits \in Nat /\ row' = [row EXCEPT !.status = status]
      /\ edits' = edits + 1
  BY Halves DEF TypeInv, OthersTyped, SetStatus
<1>2. row' \in Row
  BY <1>1 DEF Row
<1>3. /\ row'.stage = row.stage /\ row'.history = row.history
      /\ row'.approvers = row.approvers /\ row'.payload = row.payload
  BY <1>1 DEF Row
<1>4. TypeOK'
  BY <1>1, <1>2 DEF TypeInv, TypeOK, SetStatus
<1>5. req' = req
  BY DEF SetStatus
<1> QED BY <1>1, <1>3, <1>4, <1>5 DEF TypeInv, Edits, SetStatus, Fine, Working

LEMMA TicksIs ==
  ASSUME TypeInv, LinksExpire \/ UNCHANGED vars
  PROVE  TypeInv' /\ Ticks
<1>1. /\ RowStays /\ req' = req /\ UNCHANGED <<minted, usedBy, faults, unsure>>
      /\ expired' \in {expired, minted}
  BY DEF LinksExpire, vars, ghosts, RowStays
<1>2. TypeOK'
  BY <1>1 DEF TypeInv, TypeOK, RowStays
<1> QED BY <1>1, <1>2 DEF TypeInv, Ticks, Fine, Working

\* What a step is.
Moves(r) ==
  \/ Submits(r) \/ Decides(r) \/ Rereads(r) \/ Over(r) \/ Takes(r) \/ Settles(r)
  \/ Mails(r) \/ Inserts(r) \/ Writes(r) \/ Restamps(r)

LEMMA NextIs ==
  ASSUME TypeInv, [Next]_vars
  PROVE  TypeInv' /\ ((\E r \in Requests : Moves(r)) \/ Edits \/ Ticks)
<1>1. ASSUME NEW r \in Requests, Start(r)
      PROVE  TypeInv' /\ Moves(r)
  BY <1>1, SubmitIs, DecideOnDashboardIs, DecideByLinkIs, RestampReadIs DEF Start, Moves
<1>2. ASSUME NEW r \in Requests, Continue(r)
      PROVE  TypeInv' /\ Moves(r)
  BY <1>2, ClaimIs, EmailStageIs, RestIs, InsertIs, PatchIs, ReleaseIs, RestampWriteIs
     DEF Continue, Moves, Over
<1>3. ASSUME NEW r \in Requests, Crash(r)
      PROVE  TypeInv' /\ Moves(r)
  BY <1>3, CrashIs DEF Moves, Over
<1>4. ASSUME NEW status \in {"new", "in_progress", "closed"}, SetStatus(status)
      PROVE  TypeInv' /\ Edits
  BY <1>4, SetStatusIs
<1>5. CASE LinksExpire \/ UNCHANGED vars
  BY <1>5, TicksIs
<1> QED BY <1>1, <1>2, <1>3, <1>4, <1>5 DEF Next

\* Every variable keeps its type, and every request, whatever runs beside it and
\* wherever it fails, holds what its next call needs: a link while it claims or
\* releases one, a stage to go to while it mails, the stage it has read while it
\* decides.
THEOREM TypeCorrect == Spec => []TypeOK
<1>1. TypeInv /\ [Next]_vars => TypeInv'
  BY NextIs
<1>2. TypeInv => TypeOK
  BY DEF TypeInv
<1> QED BY <1>1, <1>2, TypeInit, PTL DEF Spec

-----------------------------------------------------------------------------
\* What is noted: those an entry names have a row in the email queue, in the
\* history of the row and in the one every request will write.

Noted(queue, h) ==
  \A i \in DOMAIN h : \A p \in h[i].told :
    h[i].step \in Emails /\ queue[<<h[i].step, p>>] # NoMail

NotedInv == Noted(mail, row.history) /\ \A r \in Requests : Noted(mail, req[r].history)

\* A row of the queue stays.
Keeps == \A m \in Emails \X People : mail[m] # NoMail => mail'[m] # NoMail

LEMMA NotedStays ==
  ASSUME Keeps, NEW h \in Seq(Entry), Noted(mail, h)
  PROVE  Noted(mail', h)
<1> SUFFICES ASSUME NEW i \in DOMAIN h, NEW p \in h[i].told
             PROVE  h[i].step \in Emails /\ mail'[<<h[i].step, p>>] # NoMail
  BY DEF Noted
<1>1. h[i] \in Entry
  BY DOMAIN h = 1..Len(h)
<1>2. h[i].told \subseteq People
  BY <1>1 DEF Entry
<1> QED BY <1>2 DEF Noted, Keeps

LEMMA NotedGains ==
  ASSUME NEW queue, NEW h \in Seq(Entry), NEW x \in Entry, Noted(queue, h),
         \A p \in x.told : x.step \in Emails /\ queue[<<x.step, p>>] # NoMail
  PROVE  Noted(queue, Append(h, x))
<1> DEFINE g == Append(h, x)
<1>1. /\ DOMAIN g = 1..(Len(h) + 1) /\ DOMAIN h = 1..Len(h) /\ Len(h) \in Nat
      /\ \A i \in DOMAIN h : g[i] = h[i]
      /\ g[Len(h) + 1] = x
  BY Appended
<1> HIDE DEF g
<1>2. ASSUME NEW i \in DOMAIN g, NEW p \in g[i].told
      PROVE  g[i].step \in Emails /\ queue[<<g[i].step, p>>] # NoMail
  <2>1. CASE i \in DOMAIN h
    BY <1>1, <1>2, <2>1 DEF Noted
  <2>2. CASE i = Len(h) + 1
    BY <1>1, <1>2, <2>2
  <2> QED BY <1>1, <2>1, <2>2
<1> QED BY <1>2 DEF Noted, g

LEMMA NotedEmpty == \A queue : Noted(queue, <<>>)
BY DEF Noted

LEMMA HistoriesTyped ==
  TypeInv => row.history \in Seq(Entry) /\ \A r \in Requests : req[r].history \in Seq(Entry)
BY Halves DEF TypeInv, OthersTyped, Row, Request

LEMMA KeepsIs ==
  ASSUME TypeInv, (\E r \in Requests : Moves(r)) \/ Edits \/ Ticks
  PROVE  Keeps
<1>1. ASSUME NEW r \in Requests, Mails(r) PROVE Keeps
  BY <1>1 DEF Mails, Keeps
<1>2. ASSUME mail' = mail PROVE Keeps
  BY <1>2 DEF Keeps
<1>3. ASSUME NEW r \in Requests, Moves(r), ~Mails(r) PROVE mail' = mail
  BY <1>3 DEF Moves, Submits, Decides, Rereads, Starts, RowStays, Over, Misses, Refused, Drops,
     Releases, Crashes, Leaves, Takes, Settles, GoesOn, Inserts, Writes, Restamps, Ends
<1>4. Edits \/ Ticks => mail' = mail
  BY DEF Edits, Ticks, RowStays
<1> QED BY <1>1, <1>2, <1>3, <1>4

LEMMA NotedInit == Init => NotedInv
<1> SUFFICES ASSUME Init PROVE NotedInv
  OBVIOUS
<1>1. row.history = <<>> /\ \A r \in Requests : req[r].history = <<>>
  BY IdleIs, PayloadIs, SeedIs DEF Init
<1> QED BY <1>1, NotedEmpty DEF NotedInv

\* The history a request comes to hold, and the one the row does.
LEMMA NotedNext ==
  ASSUME TypeInv, NotedInv, [Next]_vars
  PROVE  NotedInv'
<1>1. Keeps /\ ((\E r \in Requests : Moves(r)) \/ Edits \/ Ticks)
  BY NextIs, KeepsIs
<1>2. /\ Noted(mail', row.history) /\ \A r \in Requests : Noted(mail', req[r].history)
      /\ Noted(mail', <<>>)
  BY <1>1, HistoriesTyped, NotedStays, NotedEmpty DEF NotedInv
<1>3. ASSUME NEW r \in Requests, Moves(r)
      PROVE  NotedInv'
  <2>1. Others(r)
    BY <1>3 DEF Moves, Submits, Decides, Rereads, Starts, Over, Misses, Refused, Drops,
       Releases, Crashes, Leaves, Takes, Settles, GoesOn, Mails, Inserts, Writes, Restamps, Ends
  <2>2. row'.history \in {row.history, req[r].history}
    BY <1>3 DEF Moves, Submits, Decides, Rereads, Starts, RowStays, Over, Misses, Refused, Drops,
       Releases, Crashes, Leaves, Takes, Settles, GoesOn, Mails, Inserts, Writes, Restamps
  <2>3. Noted(mail', req'[r].history)
    <3>1. CASE Decides(r)
      <4>1. Exists /\ row.stage \in Stages /\ req'[r].stage \in Stages
        BY <3>1, Halves DEF TypeInv, OthersTyped, Decides, Exists, Row
      <4>2. /\ Decision(r, row.stage, req'[r].stage) \in Entry
            /\ Decision(r, row.stage, req'[r].stage).told = {}
        BY <4>1, DecisionIs
      <4>3. \A x \in Entry : x.told = {} => Noted(mail', Append(row.history, x))
        BY <1>2, HistoriesTyped, NotedGains
      <4>4. req'[r].history = Append(row.history, Decision(r, row.stage, req'[r].stage))
        BY <3>1 DEF Decides
      <4> QED BY <4>2, <4>3, <4>4
    <3>2. CASE Mails(r)
      BY <1>2, <3>2, HistoriesTyped, NotedGains DEF Mails
    <3>3. CASE ~Decides(r) /\ ~Mails(r)
      <4>1. req'[r].history \in {<<>>, req[r].history}
        BY <1>3, <3>3 DEF Moves, Submits, Rereads, Over, Misses, Refused, Drops,
           Releases, Crashes, Leaves, Takes, Settles, GoesOn, Held, Inserts, Writes, Restamps, Ends
      <4> QED BY <1>2, <4>1
    <3> QED BY <3>1, <3>2, <3>3
  <2> QED BY <1>2, <2>1, <2>2, <2>3 DEF NotedInv, Others
<1>4. CASE Edits \/ Ticks
  BY <1>2, <1>4 DEF NotedInv, Edits, Ticks, RowStays
<1> QED BY <1>1, <1>3, <1>4

-----------------------------------------------------------------------------
\* What is stamped: on the row, in a decision's snapshot, in what a decision or
\* a re-stamp will write; and who is past the gate.

InDecision(q) == Working(q) /\ q.kind \in {"dashboard", "link"}

Eligible(sub, late) == EligibleAt(sub.payload, sub.stage) \cup late

\* What request q keeps to, with sub on the row and late put there late.
Stamps(q, sub, late) ==
  /\ Working(q) /\ q.kind # "submit" => sub.stage # NoStage /\ q.snap.payload = sub.payload
  /\ q.step = "write" /\ q.kind # "restamp" =>
       q.approvers \subseteq Resolved(q.snap.payload, q.stage)
  /\ q.step = "write" /\ q.kind = "restamp" =>
       q.approvers = CurrentApprovers[q.snap.payload][q.snap.stage]
  /\ InDecision(q) => q.snap.approvers \subseteq Eligible(q.snap, late)
  /\ InDecision(q) /\ q.step # "claim" => q.who \in Admins \cup Eligible(q.snap, late)

StampInv == StampMatchesStage /\ \A r \in Requests : Stamps(req[r], row, lateStamped)

LEMMA StampInit == Init => StampInv
<1> SUFFICES ASSUME Init PROVE StampInv
  OBVIOUS
<1>1. row.stage = NoStage /\ \A r \in Requests : req[r].step = "idle"
  BY IdleIs, PayloadIs, SeedIs DEF Init
<1> QED BY <1>1 DEF StampInv, StampMatchesStage, Exists, Stamps, Working, InDecision

LEMMA StampsStay ==
  ASSUME NEW q, NEW sub, NEW new, NEW late, NEW later, Stamps(q, sub, late), late \subseteq later,
         sub.stage # NoStage => new.stage # NoStage /\ new.payload = sub.payload
  PROVE  Stamps(q, new, later)
BY DEF Stamps, Eligible

\* A request that is over keeps to nothing.
LEMMA StampsOver ==
  \A q, sub, late : q.step \in {"idle", "release", "done"} => Stamps(q, sub, late)
BY DEF Stamps, Working, InDecision

LEMMA MayActIs ==
  ASSUME NEW sub \in Row, NEW late, NEW who, sub.approvers \subseteq Eligible(sub, late),
         Authorized(sub, who)
  PROVE  who \in Eligible(sub, late)
BY DEF Authorized, Eligible, EligibleAt

\* What a step of r has to show.
LEMMA StampStep ==
  ASSUME StampInv, NEW r \in Requests, Others(r), lateStamped \subseteq lateStamped',
         Exists => row'.stage # NoStage /\ row'.payload = row.payload,
         Stamps(req'[r], row', lateStamped'), StampMatchesStage'
  PROVE  StampInv'
<1> SUFFICES ASSUME NEW s \in Requests PROVE Stamps(req'[s], row', lateStamped')
  BY DEF StampInv
<1>1. CASE s = r
  BY <1>1
<1>2. CASE s # r
  <2>1. req'[s] = req[s]
    BY <1>2 DEF Others
  <2>2. Stamps(req[s], row', lateStamped')
    BY StampsStay DEF StampInv, Exists
  <2> QED BY <2>1, <2>2
<1> QED BY <1>1, <1>2

\* While the row stays, r alone has something to show.
LEMMA StampCalm ==
  ASSUME StampInv, NEW r \in Requests, Others(r), row' = row, lateStamped' = lateStamped,
         Stamps(req'[r], row, lateStamped)
  PROVE  StampInv'
<1>1. StampMatchesStage'
  BY DEF StampInv, StampMatchesStage, Exists
<1> QED BY <1>1, StampStep DEF Exists

LEMMA StampSubmits ==
  ASSUME StampInv, NEW r \in Requests, Submits(r)
  PROVE  StampInv'
<1>1. Stamps(req'[r], row, lateStamped)
  BY DEF Submits, Stamps, InDecision
<1> QED BY <1>1, StampCalm DEF Submits, Starts, RowStays

LEMMA StampDecides ==
  ASSUME TypeInv, StampInv, NEW r \in Requests, Decides(r)
  PROVE  StampInv'
<1>1. row \in Row /\ row.approvers \subseteq Eligible(row, lateStamped)
  BY Halves DEF TypeInv, OthersTyped, StampInv, StampMatchesStage, Decides, Eligible
<1>2. req'[r].step # "claim" => req'[r].who \in Admins \cup Eligible(row, lateStamped)
  BY <1>1, MayActIs DEF Decides, MayDecide
<1>3. Stamps(req'[r], row, lateStamped)
  BY <1>1, <1>2 DEF Decides, Stamps, InDecision, Exists
<1> QED BY <1>3, StampCalm DEF Decides, Starts, RowStays

LEMMA StampRereads ==
  ASSUME StampInv, NEW r \in Requests, Rereads(r)
  PROVE  StampInv'
<1>1. Stamps(req'[r], row, lateStamped)
  BY DEF Rereads, Stamps, InDecision, Exists
<1> QED BY <1>1, StampCalm DEF Rereads, Starts, RowStays

LEMMA OverIs ==
  ASSUME NEW r \in Requests, Over(r)
  PROVE  Leaves(r)
BY DEF Over, Misses, Refused, Drops, Releases, Crashes

LEMMA StampOver ==
  ASSUME StampInv, NEW r \in Requests, Over(r)
  PROVE  StampInv'
<1>1. Leaves(r)
  BY OverIs
<1>2. Stamps(req'[r], row, lateStamped)
  BY <1>1, StampsOver DEF Leaves
<1> QED BY <1>1, <1>2, StampCalm DEF Leaves, RowStays

LEMMA StampTakes ==
  ASSUME TypeInv, StampInv, NEW r \in Requests, Takes(r)
  PROVE  StampInv'
<1>1. req[r].snap \in Row /\ req[r].kind = "link"
  BY Halves DEF TypeInv, Request, Takes, Fine
<1>2. Stamps(req[r], row, lateStamped) /\ InDecision(req[r])
  BY <1>1 DEF StampInv, Takes, InDecision, Working
<1>3. req[r].who \in Eligible(req[r].snap, lateStamped)
  BY <1>1, <1>2, MayActIs DEF Stamps, Takes
<1>4. Stamps(req'[r], row, lateStamped)
  BY <1>2, <1>3 DEF Stamps, Takes, GoesOn, Held, InDecision, Working
<1> QED BY <1>4, StampCalm DEF Takes, GoesOn, RowStays

LEMMA StampSettles ==
  ASSUME TypeInv, StampInv, NEW r \in Requests, Settles(r)
  PROVE  StampInv'
<1>1. Stamps(req[r], row, lateStamped) /\ req[r].kind # "restamp"
  BY Halves DEF TypeInv, StampInv, Settles, Fine
<1>2. Stamps(req'[r], row, lateStamped)
  BY <1>1 DEF Stamps, Settles, GoesOn, Held, InDecision, Working
<1> QED BY <1>2, StampCalm DEF Settles, GoesOn, RowStays

LEMMA StampMails ==
  ASSUME StampInv, NEW r \in Requests, Mails(r)
  PROVE  StampInv'
<1>1. Stamps(req[r], row, lateStamped)
  BY DEF StampInv
<1>2. Stamps(req'[r], row, lateStamped)
  BY <1>1 DEF Stamps, Mails, InDecision, Working
<1> QED BY <1>2, StampCalm DEF Mails

LEMMA StampInserts ==
  ASSUME TypeInv, StampInv, NEW r \in Requests, Inserts(r)
  PROVE  StampInv'
<1>1. req[r].approvers \subseteq Resolved(req[r].snap.payload, req[r].stage)
  BY DEF StampInv, Stamps, Inserts, Ends
<1>2. StampMatchesStage'
  BY <1>1 DEF StampMatchesStage, Inserts, EligibleAt
<1>3. Stamps(req'[r], row', lateStamped')
  BY StampsOver DEF Inserts
<1> QED BY <1>2, <1>3, StampStep DEF Inserts, Ends

LEMMA StampWrites ==
  ASSUME TypeInv, StampInv, NEW r \in Requests, Writes(r)
  PROVE  StampInv'
<1>1. /\ Stamps(req[r], row, lateStamped) /\ Working(req[r]) /\ req[r].stage \in Stages
      /\ req[r].kind \in {"dashboard", "link"} /\ req[r].step = "write"
  BY Halves DEF TypeInv, StampInv, Writes, Ends, Working, Fine
<1>2. /\ req[r].approvers \subseteq Resolved(row.payload, req[r].stage)
  BY <1>1 DEF Stamps
<1>3. StampMatchesStage'
  BY <1>2 DEF StampMatchesStage, Writes, EligibleAt
<1>4. Stamps(req'[r], row', lateStamped')
  BY StampsOver DEF Writes
<1> QED BY <1>1, <1>3, <1>4, StampStep DEF Writes, Ends

\* A late re-stamp that has read the stage the row is at stamps that stage's
\* approvers; another one's are remembered.
LEMMA StampRestamps ==
  ASSUME TypeInv, StampInv, NEW r \in Requests, Restamps(r)
  PROVE  StampInv'
<1>1. /\ Stamps(req[r], row, lateStamped) /\ Working(req[r])
      /\ req[r].kind = "restamp" /\ req[r].step = "write" /\ req[r].snap.stage \in Approvals
  BY Halves DEF TypeInv, StampInv, Restamps, Ends, Working, Fine
<1>2. Exists /\ req[r].approvers = CurrentApprovers[row.payload][req[r].snap.stage]
  BY <1>1 DEF Stamps, Exists
<1>3. StampMatchesStage'
  <2>1. CASE row.stage = req[r].snap.stage
    BY <1>1, <1>2, <2>1 DEF StampMatchesStage, Restamps, EligibleAt
  <2>2. CASE row.stage # req[r].snap.stage
    BY <2>2 DEF StampMatchesStage, Restamps
  <2> QED BY <2>1, <2>2
<1>4. Stamps(req'[r], row', lateStamped')
  BY StampsOver DEF Restamps
<1> QED BY <1>3, <1>4, StampStep DEF Restamps, Ends, Exists

LEMMA StampStill ==
  ASSUME StampInv, Edits \/ Ticks
  PROVE  StampInv'
<1>1. /\ req' = req /\ lateStamped' = lateStamped /\ row'.stage = row.stage
      /\ row'.approvers = row.approvers /\ row'.payload = row.payload
  BY DEF Edits, Ticks, RowStays
<1>2. StampMatchesStage'
  BY <1>1 DEF StampInv, StampMatchesStage, Exists
<1>3. ASSUME NEW r \in Requests PROVE Stamps(req'[r], row', lateStamped')
  BY <1>1, StampsStay DEF StampInv
<1> QED BY <1>2, <1>3 DEF StampInv

LEMMA StampNext ==
  ASSUME TypeInv, StampInv, [Next]_vars
  PROVE  StampInv'
BY NextIs, StampSubmits, StampDecides, StampRereads, StampOver, StampTakes, StampSettles,
   StampMails, StampInserts, StampWrites, StampRestamps, StampStill DEF Moves

-----------------------------------------------------------------------------
\* Who holds a link: a used link names a request that claimed it and has not
\* ended without effect; a request past its claim is the one its link names; so
\* is a decision that has landed, unless its answer was lost.

Past(q) == q.kind = "link" /\ q.step \in {"cascade", "write", "release"}

\* What r keeps to when it is at q, with used the uses of the links.
Claims(r, q, used, lands, doubts) ==
  /\ \A l \in LinkIds : used[l] = r =>
       /\ q.kind = "link" /\ q.link = l /\ q.step \notin {"idle", "claim"}
       /\ q.step = "done" => r \in lands \cup doubts
  /\ Past(q) => used[q.link] = r
  /\ r \in lands =>
       /\ q.kind \in {"dashboard", "link"} /\ q.step \in {"release", "done"}
       /\ q.step = "release" => r \in doubts
       /\ q.kind = "link" /\ r \notin doubts => used[q.link] = r

ClaimInv == \A r \in Requests : Claims(r, req[r], usedBy, landed, unsure)

LEMMA ClaimInit == Init => ClaimInv
<1> SUFFICES ASSUME Init, NEW r \in Requests PROVE Claims(r, req[r], usedBy, landed, unsure)
  BY DEF ClaimInv
<1>1. req[r].kind = "none" /\ landed = {} /\ \A l \in LinkIds : usedBy[l] = Nobody
  BY IdleIs DEF Init
<1> QED BY <1>1 DEF Claims, Past

LEMMA LinkTyped ==
  ASSUME TypeInv, NEW r \in Requests
  PROVE  /\ usedBy \in [LinkIds -> Requests \cup {Nobody}] /\ landed \subseteq Requests
         /\ req[r].kind = "link" => req[r].link \in LinkIds
         /\ req[r].step \in {"claim", "release"} => req[r].kind = "link"
BY Halves DEF TypeInv, OthersTyped, Fine

\* A step of r: what becomes of the links is no one else's, and r keeps to its own.
LEMMA ClaimStep ==
  ASSUME TypeInv, ClaimInv, NEW r \in Requests, Others(r), unsure \subseteq unsure',
         landed' \in {landed, landed \cup {r}},
         \A l \in LinkIds : usedBy'[l] # usedBy[l] => {usedBy[l], usedBy'[l]} \subseteq {r, Nobody},
         Claims(r, req'[r], usedBy', landed', unsure')
  PROVE  ClaimInv'
<1> SUFFICES ASSUME NEW s \in Requests PROVE Claims(s, req'[s], usedBy', landed', unsure')
  BY DEF ClaimInv
<1>1. CASE s = r
  BY <1>1
<1>2. CASE s # r
  <2>1. req'[s] = req[s] /\ s # Nobody /\ (s \in landed' <=> s \in landed)
    BY <1>2 DEF Others
  <2>2. \A l \in LinkIds : usedBy'[l] = s <=> usedBy[l] = s
    BY <1>2, <2>1
  <2>3. Claims(s, req[s], usedBy, landed, unsure)
    BY DEF ClaimInv
  <2>4. req[s].kind = "link" => req[s].link \in LinkIds
    BY LinkTyped
  <2> QED BY <2>1, <2>2, <2>3, <2>4 DEF Claims, Past
<1> QED BY <1>1, <1>2

LEMMA ClaimStarts ==
  ASSUME TypeInv, ClaimInv, NEW r \in Requests, Starts(r),
         ~Past(req'[r])
  PROVE  ClaimInv'
<1>1. Claims(r, req[r], usedBy, landed, unsure) /\ req[r].step = "idle"
  BY DEF ClaimInv, Starts
<1>2. (\A l \in LinkIds : usedBy[l] # r) /\ r \notin landed
  BY <1>1 DEF Claims
<1>3. Claims(r, req'[r], usedBy, landed, unsure)
  BY <1>2 DEF Claims
<1> QED BY <1>3, ClaimStep DEF Starts, RowStays

LEMMA ClaimMisses ==
  ASSUME TypeInv, ClaimInv, NEW r \in Requests, Misses(r)
  PROVE  ClaimInv'
<1>1. Claims(r, req[r], usedBy, landed, unsure) /\ req[r].step = "claim"
  BY DEF ClaimInv, Misses
<1>2. Claims(r, req'[r], usedBy, landed, unsure')
  BY <1>1 DEF Claims, Misses, Leaves, Past
<1> QED BY <1>2, ClaimStep DEF Misses, Leaves, RowStays

LEMMA ClaimRefused ==
  ASSUME TypeInv, ClaimInv, NEW r \in Requests, Refused(r)
  PROVE  ClaimInv'
<1>1. /\ Claims(r, req[r], usedBy, landed, unsure) /\ req[r].step = "claim"
      /\ req[r].kind = "link" /\ req[r].link \in LinkIds
      /\ usedBy \in [LinkIds -> Requests \cup {Nobody}]
  BY LinkTyped DEF ClaimInv, Refused
<1>2. /\ (\A l \in LinkIds : usedBy[l] # r) /\ r \notin landed
      /\ usedBy[req[r].link] = Nobody /\ usedBy' = [usedBy EXCEPT ![req[r].link] = r]
  BY <1>1 DEF Claims, Refused, ClaimedBy
<1>3. /\ usedBy'[req[r].link] = r
      /\ \A l \in LinkIds : l # req[r].link => usedBy'[l] = usedBy[l]
  BY <1>1, <1>2
<1>4. Claims(r, req'[r], usedBy', landed, unsure')
  BY <1>1, <1>2, <1>3 DEF Claims, Refused, Leaves, Past
<1> QED BY <1>2, <1>3, <1>4, ClaimStep DEF Refused, Leaves, RowStays

LEMMA ClaimTakes ==
  ASSUME TypeInv, ClaimInv, NEW r \in Requests, Takes(r)
  PROVE  ClaimInv'
<1>1. /\ Claims(r, req[r], usedBy, landed, unsure) /\ req[r].step = "claim"
      /\ req[r].kind = "link" /\ req[r].link \in LinkIds
      /\ usedBy \in [LinkIds -> Requests \cup {Nobody}]
  BY LinkTyped DEF ClaimInv, Takes
<1>2. /\ (\A l \in LinkIds : usedBy[l] # r) /\ r \notin landed
      /\ usedBy[req[r].link] = Nobody /\ usedBy' = [usedBy EXCEPT ![req[r].link] = r]
  BY <1>1 DEF Claims, Takes, ClaimedBy
<1>3. /\ usedBy'[req[r].link] = r
      /\ \A l \in LinkIds : l # req[r].link => usedBy'[l] = usedBy[l]
  BY <1>1, <1>2
<1>4. Claims(r, req'[r], usedBy', landed, unsure)
  BY <1>1, <1>2, <1>3 DEF Claims, Takes, GoesOn, Held, Past
<1> QED BY <1>2, <1>3, <1>4, ClaimStep DEF Takes, GoesOn, RowStays

LEMMA ClaimDrops ==
  ASSUME TypeInv, ClaimInv, NEW r \in Requests, Drops(r)
  PROVE  ClaimInv'
<1>1. Claims(r, req[r], usedBy, landed, unsure) /\ req[r].step = "write"
  BY DEF ClaimInv, Drops
<1>2. Claims(r, req'[r], usedBy, landed, unsure')
  BY <1>1 DEF Claims, Drops, Leaves, Past
<1> QED BY <1>2, ClaimStep DEF Drops, Leaves, RowStays

\* A release takes the link from nobody but its holder.
LEMMA ClaimReleases ==
  ASSUME TypeInv, ClaimInv, NEW r \in Requests, Releases(r)
  PROVE  ClaimInv'
<1>1. /\ Claims(r, req[r], usedBy, landed, unsure) /\ req[r].step = "release"
      /\ req[r].kind = "link" /\ req[r].link \in LinkIds
      /\ usedBy \in [LinkIds -> Requests \cup {Nobody}]
  BY LinkTyped DEF ClaimInv, Releases
<1>2. /\ usedBy[req[r].link] = r /\ r # Nobody
      /\ \A l \in LinkIds : usedBy[l] = r => l = req[r].link
  BY <1>1 DEF Claims, Past
<1>3. \/ /\ usedBy'[req[r].link] = Nobody
         /\ \A l \in LinkIds : l # req[r].link => usedBy'[l] = usedBy[l]
      \/ usedBy' = usedBy /\ r \in unsure'
  BY <1>1 DEF Releases
<1>4. Claims(r, req'[r], usedBy', landed, unsure')
  BY <1>1, <1>2, <1>3 DEF Claims, Releases, Leaves, Past
<1>5. \A l \in LinkIds : usedBy'[l] # usedBy[l] => {usedBy[l], usedBy'[l]} \subseteq {r, Nobody}
  BY <1>2, <1>3
<1> QED BY <1>4, <1>5, ClaimStep DEF Releases, Leaves, RowStays

LEMMA ClaimCrashes ==
  ASSUME TypeInv, ClaimInv, NEW r \in Requests, Crashes(r)
  PROVE  ClaimInv'
<1>1. Claims(r, req[r], usedBy, landed, unsure) /\ req[r].step \in {"claim", "cascade", "write", "release"}
  BY DEF ClaimInv, Crashes, Leaves
<1>2. req[r].step = "claim" => \A l \in LinkIds : usedBy[l] # r
  BY <1>1 DEF Claims
<1>3. Claims(r, req'[r], usedBy, landed, unsure')
  BY <1>1, <1>2 DEF Claims, Crashes, Leaves, Past
<1> QED BY <1>3, ClaimStep DEF Crashes, Leaves, RowStays

LEMMA ClaimGoesOn ==
  ASSUME TypeInv, ClaimInv, NEW r \in Requests, Settles(r) \/ Mails(r)
  PROVE  ClaimInv'
<1>1. /\ Claims(r, req[r], usedBy, landed, unsure) /\ req[r].step = "cascade"
      /\ req'[r].kind = req[r].kind /\ req'[r].link = req[r].link
      /\ req'[r].step \in {"cascade", "write"} /\ Others(r)
      /\ usedBy' = usedBy /\ landed' = landed /\ unsure' = unsure
  BY DEF ClaimInv, Settles, Mails, GoesOn, Held, RowStays
<1>2. Claims(r, req'[r], usedBy, landed, unsure)
  BY <1>1 DEF Claims, Past
<1> QED BY <1>1, <1>2, ClaimStep

LEMMA ClaimWrites ==
  ASSUME TypeInv, ClaimInv, NEW r \in Requests, Writes(r)
  PROVE  ClaimInv'
<1>1. Claims(r, req[r], usedBy, landed, unsure) /\ req[r].step = "write"
  BY DEF ClaimInv, Writes, Ends
<1>2. Claims(r, req'[r], usedBy, landed', unsure')
  BY <1>1 DEF Claims, Writes, Ends, Past
<1> QED BY <1>2, ClaimStep DEF Writes, Ends

LEMMA ClaimOtherWrites ==
  ASSUME TypeInv, ClaimInv, NEW r \in Requests, Inserts(r) \/ Restamps(r)
  PROVE  ClaimInv'
<1>1. /\ Claims(r, req[r], usedBy, landed, unsure) /\ req[r].step = "write"
      /\ req[r].kind \notin {"dashboard", "link"} /\ req'[r].kind = req[r].kind
      /\ usedBy' = usedBy /\ landed' = landed /\ unsure' = unsure /\ Others(r)
  BY DEF ClaimInv, Inserts, Restamps, Ends
<1>2. Claims(r, req'[r], usedBy, landed, unsure)
  BY <1>1 DEF Claims, Past
<1> QED BY <1>1, <1>2, ClaimStep

LEMMA ClaimNext ==
  ASSUME TypeInv, ClaimInv, [Next]_vars
  PROVE  ClaimInv'
<1>1. ASSUME NEW r \in Requests, Submits(r) \/ Decides(r) \/ Rereads(r) PROVE ClaimInv'
  <2>1. Starts(r) /\ ~Past(req'[r])
    BY <1>1 DEF Submits, Decides, Rereads, Past
  <2> QED BY <2>1, ClaimStarts
<1>2. ASSUME NEW r \in Requests, Over(r) PROVE ClaimInv'
  BY <1>2, ClaimMisses, ClaimRefused, ClaimDrops, ClaimReleases, ClaimCrashes DEF Over
<1>3. ASSUME Edits \/ Ticks PROVE ClaimInv'
  BY <1>3 DEF Edits, Ticks, RowStays, ClaimInv
<1> QED BY <1>1, <1>2, <1>3, NextIs, ClaimTakes, ClaimGoesOn, ClaimWrites, ClaimOtherWrites DEF Moves

LEMMA SpentIsDecided ==
  ASSUME TypeInv, ClaimInv
  PROVE  SpentLinkIsDecided
<1>1. ASSUME NEW l \in LinkIds, usedBy[l] # Nobody
      PROVE  usedBy[l] \in landed \cup unsure \/ Active(usedBy[l])
  <2>1. usedBy[l] \in Requests
    BY <1>1, Halves DEF TypeInv, OthersTyped
  <2>2. Claims(usedBy[l], req[usedBy[l]], usedBy, landed, unsure)
    BY <2>1 DEF ClaimInv
  <2> QED BY <2>2 DEF Claims, Active
<1>2. ASSUME NEW r \in landed, NEW q \in landed, r # q, req[r].kind = "link", req[q].kind = "link",
             req[r].link = req[q].link, {r, q} \cap unsure = {}
      PROVE  FALSE
  <2>1. r \in Requests /\ q \in Requests
    BY Halves DEF TypeInv, OthersTyped
  <2>2. usedBy[req[r].link] = r /\ usedBy[req[q].link] = q
    BY <1>2, <2>1 DEF ClaimInv, Claims
  <2> QED BY <1>2, <2>2
<1> QED BY <1>1, <1>2 DEF SpentLinkIsDecided

-----------------------------------------------------------------------------
\* What a history tells.  A decision under way that no other has overtaken will
\* write the decisions of the row and itself; one that was overtaken, none that
\* has not landed.  And a decision that finds the row at the stage it has read,
\* though it was overtaken, finds a stage the row has come back to.

Deciders(h) == {h[i].by : i \in {j \in DOMAIN h : h[j].step = NoStage}}

Tells(r) ==
  LET q == req[r] IN
  /\ Deciders(q.history) \subseteq landed \cup {r}
  /\ r \notin outdated => /\ Deciders(q.history) = Deciders(row.history) \cup {r}
                          /\ row.stage = q.snap.stage
  /\ Exists /\ q.snap.stage \in visited
  /\ r \in outdated /\ row.stage = q.snap.stage => q.snap.stage \in revisited
  /\ q.kind = "link" => q.snap.stage = LinkStage(q.link)

Excused(r) == req[r].kind = "dashboard" \/ LinkStage(req[r].link) \in revisited

RowTells ==
  /\ Deciders(row.history) \subseteq landed
  /\ overwrote = {} => Deciders(row.history) = landed
  /\ Exists => row.stage \in visited
  /\ ~Exists => Deciders(row.history) = {} /\ landed = {}

Overtakes ==
  /\ \A r \in outdated : req[r].step # "idle"
  /\ \A r \in overwrote : r \in landed /\ Excused(r)

HistInv ==
  /\ RowTells /\ Overtakes
  /\ \A r \in Requests : InDecision(req[r]) => Tells(r)
  /\ \A r \in Requests : Working(req[r]) /\ req[r].kind = "submit" => Deciders(req[r].history) = {}

LEMMA DecidersEmpty == Deciders(<<>>) = {}
BY DEF Deciders

LEMMA DecidersGain ==
  ASSUME NEW h \in Seq(Entry), NEW x \in Entry
  PROVE  Deciders(Append(h, x)) = Deciders(h) \cup (IF x.step = NoStage THEN {x.by} ELSE {})
<1> DEFINE g == Append(h, x)
<1>1. /\ DOMAIN g = 1..(Len(h) + 1) /\ DOMAIN h = 1..Len(h) /\ Len(h) \in Nat
      /\ \A i \in DOMAIN h : g[i] = h[i]
      /\ g[Len(h) + 1] = x
  BY Appended
<1> HIDE DEF g
<1>2. ASSUME NEW d \in Deciders(g)
      PROVE  d \in Deciders(h) \/ (x.step = NoStage /\ d = x.by)
  <2>1. PICK i \in DOMAIN g : g[i].step = NoStage /\ d = g[i].by
    BY DEF Deciders
  <2>2. CASE i \in DOMAIN h
    BY <1>1, <2>1, <2>2 DEF Deciders
  <2>3. CASE i = Len(h) + 1
    BY <1>1, <2>1, <2>3
  <2> QED BY <1>1, <2>2, <2>3
<1>3. ASSUME NEW d \in Deciders(h)
      PROVE  d \in Deciders(g)
  <2>1. PICK i \in DOMAIN h : h[i].step = NoStage /\ d = h[i].by
    BY DEF Deciders
  <2>2. i \in DOMAIN g /\ g[i] = h[i]
    BY <1>1
  <2> QED BY <2>1, <2>2 DEF Deciders
<1>4. ASSUME x.step = NoStage
      PROVE  x.by \in Deciders(g)
  <2>1. Len(h) + 1 \in DOMAIN g
    BY <1>1
  <2> QED BY <1>1, <1>4, <2>1 DEF Deciders
<1> QED BY <1>2, <1>3, <1>4 DEF g

LEMMA HistInit == Init => HistInv
<1> SUFFICES ASSUME Init PROVE HistInv
  OBVIOUS
<1>1. /\ row.history = <<>> /\ row.stage = NoStage /\ landed = {} /\ outdated = {} /\ overwrote = {}
      /\ \A r \in Requests : req[r].step = "idle"
  BY IdleIs, PayloadIs, SeedIs DEF Init
<1> QED BY <1>1, DecidersEmpty DEF HistInv, RowTells, Overtakes, Exists, InDecision, Working

\* The row, as far as the history goes, and the decisions stay.
Quiet ==
  /\ row'.stage = row.stage /\ row'.history = row.history
  /\ landed' = landed /\ outdated' = outdated /\ overwrote' = overwrote
  /\ visited' = visited /\ revisited' = revisited

\* Then r alone has something to show.
LEMMA HistQuiet ==
  ASSUME HistInv, NEW r \in Requests, Others(r), Quiet,
         req'[r].step # "idle",
         r \in landed => req'[r].kind = req[r].kind /\ req'[r].link = req[r].link,
         InDecision(req'[r]) => Tells(r)',
         Working(req'[r]) /\ req'[r].kind = "submit" => Deciders(req'[r].history) = {},
         outdated \subseteq Requests, landed \subseteq Requests
  PROVE  HistInv'
<1>1. RowTells'
  BY DEF HistInv, RowTells, Quiet, Exists
<1>2. Overtakes'
  BY DEF HistInv, Overtakes, Excused, Quiet, Others
<1>3. ASSUME NEW s \in Requests, InDecision(req'[s])
      PROVE  Tells(s)'
  <2>1. CASE s = r
    BY <1>3, <2>1
  <2>2. CASE s # r
    BY <1>3, <2>2 DEF HistInv, Tells, Quiet, Others, Exists
  <2> QED BY <2>1, <2>2
<1>4. ASSUME NEW s \in Requests, Working(req'[s]), req'[s].kind = "submit"
      PROVE  Deciders(req'[s].history) = {}
  BY <1>4 DEF HistInv, Others
<1> QED BY <1>1, <1>2, <1>3, <1>4 DEF HistInv

LEMMA HistTyped ==
  TypeInv => outdated \subseteq Requests /\ landed \subseteq Requests
             /\ overwrote \subseteq Requests
BY Halves DEF TypeInv, OthersTyped

\* A request that starts has not landed.
LEMMA StartsFresh ==
  ASSUME ClaimInv, NEW r \in Requests, Starts(r)
  PROVE  r \notin landed /\ Quiet /\ Others(r)
BY DEF ClaimInv, Claims, Starts, RowStays, Quiet

LEMMA HistSubmits ==
  ASSUME TypeInv, ClaimInv, HistInv, NEW r \in Requests, Submits(r)
  PROVE  HistInv'
<1>1. r \notin landed /\ Quiet /\ Others(r) /\ ~InDecision(req'[r])
  BY StartsFresh DEF Submits, InDecision
<1> QED BY <1>1, HistTyped, HistQuiet, DecidersEmpty DEF Submits

LEMMA HistRereads ==
  ASSUME TypeInv, ClaimInv, HistInv, NEW r \in Requests, Rereads(r)
  PROVE  HistInv'
<1>1. r \notin landed /\ Quiet /\ Others(r) /\ ~InDecision(req'[r])
  BY StartsFresh DEF Rereads, InDecision
<1> QED BY <1>1, HistTyped, HistQuiet DEF Rereads

LEMMA HistDecides ==
  ASSUME TypeInv, ClaimInv, HistInv, NEW r \in Requests, Decides(r)
  PROVE  HistInv'
<1>1. /\ r \notin landed /\ Quiet /\ Others(r) /\ req[r].step = "idle" /\ r \notin outdated
      /\ row.history \in Seq(Entry)
  BY StartsFresh, HistoriesTyped DEF Decides, Starts, HistInv, Overtakes
<1>2. Deciders(req'[r].history) = Deciders(row.history) \cup {r}
  <2> DEFINE x == Decision(r, row.stage, req'[r].stage)
  <2>1. row.stage \in Stages /\ req'[r].stage \in Stages
    BY Halves DEF TypeInv, OthersTyped, Decides, Exists, Row
  <2>2. x \in Entry /\ x.by = r /\ x.step = NoStage
    BY <2>1, DecisionIs
  <2>3. req'[r].history = Append(row.history, x)
    BY DEF Decides
  <2> HIDE DEF x
  <2> QED BY <1>1, <2>2, <2>3, DecidersGain
<1>3. Tells(r)'
  BY <1>1, <1>2 DEF Tells, Decides, Quiet, HistInv, RowTells, Exists
<1> QED BY <1>1, <1>3, HistTyped, HistQuiet DEF Decides

LEMMA HistOver ==
  ASSUME TypeInv, HistInv, NEW r \in Requests, Over(r)
  PROVE  HistInv'
<1>1. Leaves(r) /\ Quiet /\ Others(r)
  BY OverIs DEF Leaves, RowStays, Quiet
<1>2. ~Working(req'[r])
  BY <1>1 DEF Leaves, Working
<1> QED BY <1>1, <1>2, HistTyped, HistQuiet DEF Leaves, InDecision

LEMMA HistGoesOn ==
  ASSUME TypeInv, HistInv, NEW r \in Requests, Takes(r) \/ Settles(r)
  PROVE  HistInv'
<1>1. /\ GoesOn(r) /\ Quiet /\ Others(r) /\ Working(req[r]) /\ Working(req'[r])
      /\ Held(req'[r], req[r])
  BY DEF Takes, Settles, GoesOn, RowStays, Quiet, Working
<1>2. InDecision(req'[r]) => Tells(r)'
  BY <1>1 DEF HistInv, InDecision, Held, Tells, Quiet, Exists
<1>3. req'[r].kind = "submit" => Deciders(req'[r].history) = {}
  BY <1>1 DEF HistInv, Held
<1> QED BY <1>1, <1>2, <1>3, HistTyped, HistQuiet DEF Held, Working

LEMMA HistMails ==
  ASSUME TypeInv, HistInv, NEW r \in Requests, Mails(r)
  PROVE  HistInv'
<1>1. /\ Quiet /\ Others(r) /\ Working(req[r]) /\ Working(req'[r])
      /\ req'[r].kind = req[r].kind /\ req'[r].link = req[r].link /\ req'[r].snap = req[r].snap
  BY DEF Mails, Quiet, Working
<1>2. Deciders(req'[r].history) = Deciders(req[r].history)
  <2>1. PICK x \in Entry :
          req'[r].history = Append(req[r].history, x) /\ x.step \in Emails
    BY DEF Mails
  <2>2. x.step # NoStage
    BY <2>1 DEF Stages
  <2> QED BY <2>1, <2>2, HistoriesTyped, DecidersGain
<1>3. InDecision(req'[r]) => Tells(r)'
  BY <1>1, <1>2 DEF HistInv, InDecision, Tells, Quiet, Exists
<1>4. req'[r].kind = "submit" => Deciders(req'[r].history) = {}
  BY <1>1, <1>2 DEF HistInv
<1> QED BY <1>1, <1>3, <1>4, HistTyped, HistQuiet DEF Mails, Working

LEMMA HistRestamps ==
  ASSUME TypeInv, HistInv, NEW r \in Requests, Restamps(r)
  PROVE  HistInv'
<1>1. Quiet /\ Others(r) /\ ~Working(req'[r])
  BY DEF Restamps, Ends, Quiet, Working
<1> QED BY <1>1, HistTyped, HistQuiet DEF Restamps, Ends, InDecision

LEMMA HistStill ==
  ASSUME HistInv, Edits \/ Ticks
  PROVE  HistInv'
<1>1. Quiet /\ req' = req
  BY DEF Edits, Ticks, RowStays, Quiet
<1> QED BY <1>1 DEF HistInv, RowTells, Overtakes, Excused, Tells, Quiet, Exists

\* A row is created when there was none, and so no decision under way.
LEMMA HistInserts ==
  ASSUME TypeInv, HistInv, NEW r \in Requests, Inserts(r)
  PROVE  HistInv'
<1>1. /\ ~Exists /\ Others(r) /\ req[r].stage \in Stages /\ Working(req[r])
      /\ req[r].kind = "submit" /\ req'[r].step = "done"
  BY Halves DEF TypeInv, Inserts, Ends, Fine, Working
<1>2. landed' = {} /\ Deciders(row'.history) = {}
  BY <1>1 DEF HistInv, RowTells, Inserts
<1>3. RowTells'
  BY <1>1, <1>2 DEF RowTells, Inserts, Visited, Exists
<1>4. Overtakes'
  BY <1>1, <1>2, HistTyped DEF HistInv, RowTells, Overtakes, Inserts, Others
<1>5. ASSUME NEW s \in Requests PROVE ~InDecision(req'[s])
  BY <1>1 DEF HistInv, Tells, Others, InDecision, Working
<1>6. ASSUME NEW s \in Requests, Working(req'[s]), req'[s].kind = "submit"
      PROVE  Deciders(req'[s].history) = {}
  BY <1>1, <1>6 DEF HistInv, Others, Working
<1> QED BY <1>3, <1>4, <1>5, <1>6 DEF HistInv

LEMMA HistWrites ==
  ASSUME TypeInv, ClaimInv, HistInv, NEW r \in Requests, Writes(r)
  PROVE  HistInv'
<1>1. /\ Others(r) /\ InDecision(req[r]) /\ req[r].stage \in Stages /\ Tells(r)
      /\ ~Working(req'[r]) /\ req'[r].step # "idle"
      /\ req'[r].kind = req[r].kind /\ req'[r].link = req[r].link
  BY Halves DEF TypeInv, HistInv, Writes, Ends, Fine, Working, InDecision
<1>2. RowTells'
  BY <1>1 DEF RowTells, Tells, Writes, Visited, Exists, HistInv
<1>3. Overtakes'
  <2>1. ASSUME NEW s \in outdated' PROVE req'[s].step # "idle"
    BY <1>1, <2>1, HistTyped DEF HistInv, Overtakes, Writes, Others, Active
  <2>2. ASSUME NEW s \in overwrote' PROVE s \in landed' /\ Excused(s)'
    <3>1. CASE s \in overwrote
      <4>1. s \in Requests /\ s \in landed /\ Excused(s)
        BY <3>1, HistTyped DEF HistInv, Overtakes
      <4>2. req'[s].kind = req[s].kind /\ req'[s].link = req[s].link
        BY <1>1, <4>1 DEF Others
      <4>3. revisited \subseteq revisited' /\ s \in landed'
        BY <4>1 DEF Writes, Visited
      <4> QED BY <4>1, <4>2, <4>3 DEF Excused
    <3>2. CASE s = r /\ r \in outdated
      <4>1. /\ req[r].kind = "link" => LinkStage(req[r].link) \in revisited
            /\ req[r].kind \in {"dashboard", "link"}
        BY <1>1, <3>2 DEF Tells, Writes, Matches, InDecision
      <4>2. revisited \subseteq revisited' /\ r \in landed'
        BY DEF Writes, Visited
      <4> QED BY <1>1, <3>2, <4>1, <4>2 DEF Excused
    <3> QED BY <3>1, <3>2 DEF Writes
  <2> QED BY <2>1, <2>2 DEF Overtakes
<1>4. ASSUME NEW s \in Requests, InDecision(req'[s])
      PROVE  Tells(s)'
  <2>1. s # r /\ req'[s] = req[s] /\ Tells(s) /\ s \in outdated'
    BY <1>1, <1>4 DEF HistInv, Others, InDecision, Writes, Working, Active, Deciding
  <2>2. Exists' /\ row'.stage = req[r].stage /\ Visited(req[r].stage) /\ landed \subseteq landed'
    BY <1>1 DEF Writes, Exists
  <2>3. Deciders(req'[s].history) \subseteq landed' \cup {s}
    BY <2>1, <2>2 DEF Tells
  <2>4. req'[s].snap.stage \in visited'
    BY <2>1, <2>2 DEF Tells, Visited
  <2>5. row'.stage = req'[s].snap.stage => req'[s].snap.stage \in revisited'
    BY <2>1, <2>2 DEF Tells, Visited
  <2>6. req'[s].kind = "link" => req'[s].snap.stage = LinkStage(req'[s].link)
    BY <2>1 DEF Tells
  <2> QED BY <2>1, <2>2, <2>3, <2>4, <2>5, <2>6 DEF Tells
<1>5. ASSUME NEW s \in Requests, Working(req'[s]), req'[s].kind = "submit"
      PROVE  Deciders(req'[s].history) = {}
  BY <1>1, <1>5 DEF HistInv, Others
<1> QED BY <1>2, <1>3, <1>4, <1>5 DEF HistInv

LEMMA HistNext ==
  ASSUME TypeInv, ClaimInv, HistInv, [Next]_vars
  PROVE  HistInv'
BY NextIs, HistSubmits, HistRereads, HistDecides, HistOver, HistGoesOn, HistMails,
   HistInserts, HistWrites, HistRestamps, HistStill DEF Moves

LEMMA HistoryIs ==
  ASSUME HistInv
  PROVE  HistoryIsTheDecisions
<1>1. Recorded = Deciders(row.history)
  BY DEF Recorded, Deciders
<1> QED BY <1>1 DEF HistInv, RowTells, Overtakes, Excused, HistoryIsTheDecisions

-----------------------------------------------------------------------------
\* What the mail is for.

Meant(r) ==
  /\ req[r].step \notin {"idle", "claim"}
  /\ req[r].kind \in {"submit", "dashboard", "link"}
  /\ \/ req[r].step \in {"cascade", "write"}
     \/ r \in landed \cup unsure \/ faults > 0
     \/ req[r].kind = "link" /\ r \in outdated
     \/ req[r].kind = "submit" /\ Exists

MailInv ==
  \A m \in Emails \X People, r \in Requests : mail[m] # NoMail /\ mail[m].by = r => Meant(r)

LEMMA MailInit == Init => MailInv
BY DEF Init, MailInv

\* A step of r: what the others mean they still do, so does r, and so it does
\* by what it sends.
LEMMA MailStep ==
  ASSUME TypeInv, MailInv, NEW r \in Requests, Others(r), faults' \in Nat, faults <= faults',
         landed \subseteq landed', unsure \subseteq unsure', outdated \ {r} \subseteq outdated',
         Exists => row'.stage # NoStage, Meant(r) => Meant(r)',
         \A m \in Emails \X People :
           mail'[m] = mail[m] \/ (mail'[m].by = r /\ Meant(r)')
  PROVE  MailInv'
<1>1. ASSUME NEW s \in Requests, Meant(s) PROVE Meant(s)'
  <2>1. CASE s = r
    BY <1>1, <2>1
  <2>2. CASE s # r
    <3>1. req'[s] = req[s] /\ faults \in Nat
      BY <2>2, Halves DEF TypeInv, OthersTyped, Others
    <3>2. faults > 0 => faults' > 0
      BY <3>1
    <3> QED BY <1>1, <2>2, <3>1, <3>2 DEF Meant, Exists
  <2> QED BY <2>1, <2>2
<1>2. ASSUME NEW m \in Emails \X People, NEW s \in Requests, mail'[m] # NoMail, mail'[m].by = s
      PROVE  Meant(s)'
  <2>1. CASE mail'[m] = mail[m]
    BY <1>1, <1>2, <2>1 DEF MailInv
  <2>2. CASE mail'[m].by = r /\ Meant(r)'
    BY <1>2, <2>2
  <2> QED BY <2>1, <2>2
<1> QED BY <1>2 DEF MailInv

\* No mail is sent: r has to mean what it meant.
LEMMA MailCalm ==
  ASSUME TypeInv, MailInv, NEW r \in Requests, Others(r), faults' \in Nat, faults <= faults',
         mail' = mail, landed \subseteq landed', unsure \subseteq unsure',
         outdated \ {r} \subseteq outdated',
         Exists => row'.stage # NoStage, Meant(r) => Meant(r)'
  PROVE  MailInv'
BY MailStep

LEMMA FaultsTyped == TypeInv => faults \in Nat
BY Halves DEF TypeInv, OthersTyped

LEMMA FaultsTyped2 == TypeInv' => faults' \in Nat
BY DEF TypeInv, TypeOK

LEMMA MailStarts ==
  ASSUME TypeInv, TypeInv', MailInv, NEW r \in Requests, Starts(r)
  PROVE  MailInv'
<1>1. ~Meant(r)
  BY DEF Starts, Meant
<1> QED BY <1>1, MailCalm, FaultsTyped, FaultsTyped2 DEF Starts, RowStays, Exists

LEMMA MailTakes ==
  ASSUME TypeInv, TypeInv', MailInv, NEW r \in Requests, Takes(r)
  PROVE  MailInv'
<1>1. ~Meant(r)
  BY DEF Takes, Meant
<1> QED BY <1>1, MailCalm, FaultsTyped, FaultsTyped2 DEF Takes, GoesOn, RowStays, Exists

LEMMA MailSettles ==
  ASSUME TypeInv, TypeInv', MailInv, NEW r \in Requests, Settles(r)
  PROVE  MailInv'
<1>1. Meant(r) => Meant(r)'
  BY DEF Settles, GoesOn, Held, Meant
<1> QED BY <1>1, MailCalm, FaultsTyped, FaultsTyped2 DEF Settles, GoesOn, RowStays, Exists

\* A decision whose write does not match has been overtaken.
LEMMA MailDrops ==
  ASSUME TypeInv, TypeInv', HistInv, MailInv, NEW r \in Requests, Drops(r)
  PROVE  MailInv'
<1>1. /\ req[r].step = "write" /\ req'[r].step \in {"release", "done"}
      /\ req'[r].kind = req[r].kind /\ outdated' = outdated /\ row' = row
  BY DEF Drops, Leaves, RowStays
<1>2. \/ faults' > 0 \/ req[r].kind = "restamp" \/ (req[r].kind = "submit" /\ Exists)
      \/ req[r].kind = "link" /\ r \in outdated
  BY <1>1 DEF Drops, HistInv, Tells, InDecision, Working
<1>3. Meant(r) => Meant(r)'
  BY <1>1, <1>2 DEF Meant, Exists
<1> QED BY <1>3, MailCalm, FaultsTyped, FaultsTyped2 DEF Drops, Leaves, RowStays, Exists

LEMMA MailOver ==
  ASSUME TypeInv, TypeInv', HistInv, MailInv, NEW r \in Requests, Over(r)
  PROVE  MailInv'
<1>1. /\ Leaves(r) /\ faults' \in Nat /\ faults \in Nat /\ faults <= faults'
      /\ req'[r].kind = req[r].kind /\ req'[r].step \in {"release", "done"}
      /\ RowStays /\ unsure \subseteq unsure'
  BY OverIs, FaultsTyped, FaultsTyped2 DEF Leaves
<1>2. CASE Misses(r) \/ Refused(r)
  <2>1. ~Meant(r)
    BY <1>2 DEF Misses, Refused, Meant
  <2> QED BY <1>1, <2>1, MailCalm DEF Leaves, RowStays, Exists
<1>3. CASE Drops(r)
  BY <1>3, MailDrops
<1>4. CASE Releases(r) \/ Crashes(r)
  <2>1. req[r].step = "release" \/ r \in unsure'
    BY <1>4 DEF Releases, Crashes
  <2>2. faults > 0 => faults' > 0
    BY <1>1
  <2>3. Meant(r) => Meant(r)'
    BY <1>1, <2>1, <2>2 DEF Meant, RowStays, Exists
  <2> QED BY <1>1, <2>3, MailCalm DEF Leaves, RowStays, Exists
<1> QED BY <1>2, <1>3, <1>4 DEF Over

LEMMA MailMails ==
  ASSUME TypeInv, TypeInv', MailInv, NEW r \in Requests, Mails(r)
  PROVE  MailInv'
<1>1. Meant(r)'
  BY Halves DEF TypeInv, Mails, Fine, Meant
<1>2. \A m \in Emails \X People : mail'[m] = mail[m] \/ (mail'[m].by = r /\ Meant(r)')
  BY <1>1 DEF Mails
<1>3. Others(r) /\ faults' \in Nat /\ faults <= faults'
  BY FaultsTyped2 DEF Mails
<1>4. /\ landed \subseteq landed' /\ unsure \subseteq unsure' /\ outdated \ {r} \subseteq outdated'
      /\ Exists => row'.stage # NoStage
  BY DEF Mails, Exists
<1> QED BY <1>1, <1>2, <1>3, <1>4, MailStep

LEMMA MailWrites ==
  ASSUME TypeInv, TypeInv', MailInv, NEW r \in Requests,
         Inserts(r) \/ Writes(r) \/ Restamps(r)
  PROVE  MailInv'
<1>1. /\ req[r].stage \in Stages \/ Restamps(r)
      /\ req'[r].step \in {"release", "done"}
  BY Halves DEF TypeInv, Inserts, Writes, Restamps, Ends, Fine, Working
<1>2. /\ Others(r) /\ mail' = mail /\ faults <= faults' /\ req'[r].kind = req[r].kind
      /\ landed \subseteq landed' /\ unsure \subseteq unsure' /\ outdated \ {r} \subseteq outdated'
  BY DEF Inserts, Writes, Restamps, Ends
<1>3. Exists => row'.stage # NoStage
  BY <1>1 DEF Inserts, Writes, Restamps, Exists
<1>4. Meant(r) => Meant(r)'
  <2>1. CASE Inserts(r)
    <3>1. req'[r].kind = "submit" /\ req'[r].step = "done" /\ row'.stage # NoStage
      BY <1>1, <2>1 DEF Inserts, Ends, Restamps
    <3> QED BY <3>1 DEF Meant, Exists
  <2>2. CASE Writes(r)
    BY <1>1, <2>2 DEF Writes, Ends, Meant
  <2>3. CASE Restamps(r)
    BY <2>3 DEF Restamps, Meant
  <2> QED BY <2>1, <2>2, <2>3
<1> QED BY <1>2, <1>3, <1>4, FaultsTyped2, MailCalm

LEMMA MailStill ==
  ASSUME MailInv, Edits \/ Ticks
  PROVE  MailInv'
<1>1. /\ mail' = mail /\ req' = req /\ landed' = landed /\ unsure' = unsure
      /\ faults' = faults /\ outdated' = outdated /\ row'.stage = row.stage
  BY DEF Edits, Ticks, RowStays
<1> QED BY <1>1 DEF MailInv, Meant, Exists

LEMMA MailNext ==
  ASSUME TypeInv, HistInv, MailInv, [Next]_vars
  PROVE  MailInv'
<1>1. ASSUME NEW r \in Requests, Submits(r) \/ Decides(r) \/ Rereads(r) PROVE MailInv'
  BY <1>1, NextIs, MailStarts DEF Submits, Decides, Rereads
<1> QED BY <1>1, NextIs, MailOver, MailTakes, MailSettles, MailMails, MailWrites, MailStill DEF Moves

LEMMA MailIs ==
  ASSUME TypeInv, MailInv
  PROVE  MailIsForADecision
<1> SUFFICES ASSUME NEW m \in Emails \X People, mail[m] # NoMail
             PROVE  LET r == mail[m].by IN
                      \/ Active(r) \/ r \in landed \cup unsure \/ faults > 0
                      \/ req[r].kind = "link" /\ r \in outdated
                      \/ req[r].kind = "submit" /\ Exists
  BY DEF MailIsForADecision
<1>1. mail[m] \in Mail
  BY Halves DEF TypeInv, OthersTyped
<1>2. mail[m].by \in Requests
  BY <1>1 DEF Mail
<1>3. Meant(mail[m].by)
  BY <1>2 DEF MailInv
<1> QED BY <1>3 DEF Meant, Active

-----------------------------------------------------------------------------
\* Where a cascade may stop: a request counts the email stages it has walked,
\* and its history ends in as many of them.

EndsInMail(h, n) ==
  n <= Len(h) /\ \A i \in (Len(h) - n + 1)..Len(h) : h[i].step # NoStage

Walks(q, n) ==
  Working(q) /\ q.kind # "restamp" =>
    /\ EndsInMail(q.history, q.hops)
    /\ q.step = "write" /\ q.stage \in Emails => q.hops = MaxCascadeDepth \/ n > 0

DepthInv == EmailRestIsExcused /\ \A r \in Requests : Walks(req[r], faults)

LEMMA MailEndGrows ==
  ASSUME NEW h \in Seq(Entry), NEW x \in Entry, NEW n \in Nat, EndsInMail(h, n), x.step # NoStage
  PROVE  EndsInMail(Append(h, x), n + 1)
<1> DEFINE g == Append(h, x)
<1>1. /\ DOMAIN h = 1..Len(h) /\ Len(h) \in Nat /\ Len(g) = Len(h) + 1
      /\ \A i \in DOMAIN h : g[i] = h[i]
      /\ g[Len(h) + 1] = x
  BY Appended
<1> HIDE DEF g
<1>2. n <= Len(h) /\ \A i \in (Len(h) - n + 1)..Len(h) : h[i].step # NoStage
  BY DEF EndsInMail
<1>3. ASSUME NEW i \in (Len(g) - (n + 1) + 1)..Len(g) PROVE g[i].step # NoStage
  <2>1. CASE i = Len(h) + 1
    BY <1>1, <2>1
  <2>2. CASE i # Len(h) + 1
    <3>1. i \in (Len(h) - n + 1)..Len(h) /\ i \in DOMAIN h
      BY <1>1, <1>2, <1>3, <2>2
    <3> QED BY <1>1, <1>2, <3>1
  <2> QED BY <2>1, <2>2
<1>4. n + 1 <= Len(g)
  BY <1>1, <1>2
<1> QED BY <1>3, <1>4 DEF EndsInMail, g

LEMMA DepthInit == Init => DepthInv
<1> SUFFICES ASSUME Init PROVE DepthInv
  OBVIOUS
<1>1. row.stage = NoStage /\ \A r \in Requests : req[r].step = "idle"
  BY IdleIs, PayloadIs, SeedIs DEF Init
<1>2. row.stage \notin Emails
  BY <1>1 DEF Stages
<1> QED BY <1>1, <1>2 DEF DepthInv, EmailRestIsExcused, Walks, Working

\* A step of r that leaves the row where it is.
LEMMA DepthStep ==
  ASSUME TypeInv, DepthInv, NEW r \in Requests, Others(r), faults' \in Nat, faults <= faults',
         EmailRestIsExcused', Walks(req'[r], faults')
  PROVE  DepthInv'
<1>1. faults > 0 => faults' > 0
  BY FaultsTyped
<1>2. ASSUME NEW s \in Requests PROVE Walks(req'[s], faults')
  BY <1>1 DEF DepthInv, Walks, Others
<1> QED BY <1>2 DEF DepthInv

LEMMA DepthCalm ==
  ASSUME TypeInv, DepthInv, NEW r \in Requests, Others(r), faults' \in Nat, faults <= faults',
         row'.stage = row.stage, row'.history = row.history, Walks(req'[r], faults')
  PROVE  DepthInv'
<1>1. faults > 0 => faults' > 0
  BY FaultsTyped
<1>2. EmailRestIsExcused'
  BY <1>1 DEF DepthInv, EmailRestIsExcused
<1> QED BY <1>2, DepthStep

LEMMA DepthStarts ==
  ASSUME TypeInv, TypeInv', DepthInv, NEW r \in Requests, Submits(r) \/ Decides(r) \/ Rereads(r)
  PROVE  DepthInv'
<1>1. Starts(r) /\ req'[r].history \in Seq(Entry) /\ (req'[r].step = "write" => Rereads(r))
  BY DEF Submits, Decides, Rereads, TypeInv, TypeOK, Request
<1>2. EndsInMail(req'[r].history, 0)
  BY <1>1 DEF EndsInMail
<1>3. Walks(req'[r], faults')
  BY <1>1, <1>2 DEF Walks, Starts, Rereads
<1> QED BY <1>1, <1>3, FaultsTyped, DepthCalm DEF Starts, RowStays

LEMMA DepthOver ==
  ASSUME TypeInv, TypeInv', DepthInv, NEW r \in Requests, Over(r)
  PROVE  DepthInv'
<1>1. Leaves(r) /\ Walks(req'[r], faults')
  BY OverIs DEF Leaves, Walks, Working
<1> QED BY <1>1, FaultsTyped2, DepthCalm DEF Leaves, RowStays

LEMMA DepthGoesOn ==
  ASSUME TypeInv, TypeInv', DepthInv, NEW r \in Requests, Takes(r) \/ Settles(r)
  PROVE  DepthInv'
<1>1. /\ GoesOn(r) /\ Walks(req[r], faults) /\ Working(req[r])
      /\ req[r].kind # "restamp"
  BY Halves DEF TypeInv, DepthInv, Takes, Settles, Working, Fine
<1>2. Walks(req'[r], faults')
  BY <1>1 DEF Takes, Settles, GoesOn, Held, Walks, CapReached
<1> QED BY <1>1, <1>2, FaultsTyped2, DepthCalm DEF GoesOn, RowStays

LEMMA DepthMails ==
  ASSUME TypeInv, TypeInv', DepthInv, NEW r \in Requests, Mails(r)
  PROVE  DepthInv'
<1>1. /\ EndsInMail(req[r].history, req[r].hops) /\ req[r].hops \in Nat
      /\ req[r].history \in Seq(Entry)
  BY Halves DEF TypeInv, DepthInv, Walks, Mails, Working, Fine, Request
<1>2. PICK x \in Entry :
        req'[r].history = Append(req[r].history, x) /\ x.step \in Emails
  BY DEF Mails
<1>3. x.step # NoStage
  BY <1>2 DEF Stages
<1>4. EndsInMail(req'[r].history, req'[r].hops)
  BY <1>1, <1>2, <1>3, MailEndGrows DEF Mails
<1>5. Walks(req'[r], faults')
  BY <1>4 DEF Walks, Mails
<1> QED BY <1>5, FaultsTyped2, DepthCalm DEF Mails

LEMMA DepthWrites ==
  ASSUME TypeInv, TypeInv', DepthInv, NEW r \in Requests, Inserts(r) \/ Writes(r)
  PROVE  DepthInv'
<1>1. /\ Ends(r) /\ Walks(req[r], faults) /\ req[r].kind # "restamp"
      /\ row'.stage = req[r].stage /\ row'.history = req[r].history
      /\ ~Working(req'[r])
  BY DEF DepthInv, Inserts, Writes, Working
<1>2. faults > 0 => faults' > 0
  BY <1>1, FaultsTyped, FaultsTyped2 DEF Ends
<1>3. row'.stage \in Emails => faults' > 0 \/ EndsInMail(row'.history, MaxCascadeDepth)
  BY <1>1, <1>2 DEF Walks, Ends, Working
<1>4. EmailRestIsExcused'
  BY <1>3 DEF EmailRestIsExcused, EndsInMail
<1>5. Walks(req'[r], faults')
  BY <1>1 DEF Walks
<1> QED BY <1>1, <1>4, <1>5, FaultsTyped2, DepthStep DEF Ends

LEMMA DepthRestamps ==
  ASSUME TypeInv, TypeInv', DepthInv, NEW r \in Requests, Restamps(r)
  PROVE  DepthInv'
<1>1. Walks(req'[r], faults')
  BY DEF Restamps, Ends, Walks
<1> QED BY <1>1, FaultsTyped2, DepthCalm DEF Restamps, Ends

LEMMA DepthNext ==
  ASSUME TypeInv, DepthInv, [Next]_vars
  PROVE  DepthInv'
<1>1. ASSUME Edits \/ Ticks PROVE DepthInv'
  <2>1. /\ req' = req /\ faults' = faults
        /\ row'.stage = row.stage /\ row'.history = row.history
    BY <1>1 DEF Edits, Ticks, RowStays
  <2> QED BY <2>1 DEF DepthInv, EmailRestIsExcused
<1> QED BY <1>1, NextIs, DepthStarts, DepthOver, DepthGoesOn, DepthMails, DepthWrites,
   DepthRestamps DEF Moves

-----------------------------------------------------------------------------
\* When a submission is closed: a decision under way has left no outcome, and
\* what it read closed is closed still, while nobody edits the status.

Closes(q, status, byHand) ==
  /\ InDecision(q) => /\ q.snap.stage \notin Outcomes
                      /\ byHand = 0 /\ q.snap.status = "closed" => status = "closed"
  /\ Working(q) /\ q.kind = "submit" => q.snap.status = "new"

CloseInv ==
  /\ AutoCloseAgrees
  /\ edits = 0 /\ landed = {} => row.status = "new"
  /\ \A r \in Requests : Closes(req[r], row.status, edits)

LEMMA CloseInit == Init => CloseInv
<1> SUFFICES ASSUME Init PROVE CloseInv
  OBVIOUS
<1>1. row.status = "new" /\ landed = {} /\ \A r \in Requests : req[r].step = "idle"
  BY IdleIs, PayloadIs, SeedIs DEF Init
<1> QED BY <1>1 DEF CloseInv, AutoCloseAgrees, Closes, InDecision, Working

\* A step of r that edits no status by hand.
LEMMA CloseStep ==
  ASSUME CloseInv, NEW r \in Requests, Others(r), edits' = edits,
         row.status = "closed" => row'.status = "closed",
         AutoCloseAgrees', edits = 0 /\ landed' = {} => row'.status = "new",
         Closes(req'[r], row'.status, edits)
  PROVE  CloseInv'
<1>1. ASSUME NEW s \in Requests PROVE Closes(req'[s], row'.status, edits')
  BY DEF CloseInv, Closes, Others
<1> QED BY <1>1 DEF CloseInv

LEMMA CloseCalm ==
  ASSUME CloseInv, NEW r \in Requests, Others(r), edits' = edits, landed' = landed,
         overwrote' = overwrote, row'.status = row.status, row'.stage = row.stage,
         Closes(req'[r], row.status, edits)
  PROVE  CloseInv'
<1>1. AutoCloseAgrees'
  BY DEF CloseInv, AutoCloseAgrees
<1> QED BY <1>1, CloseStep DEF CloseInv

LEMMA CloseStarts ==
  ASSUME TypeInv, CloseInv, NEW r \in Requests, Submits(r) \/ Decides(r) \/ Rereads(r)
  PROVE  CloseInv'
<1>1. Starts(r)
  BY DEF Submits, Decides, Rereads
<1>2. Submits(r) => req'[r].snap.status = "new" /\ req'[r].kind = "submit"
  BY SeedIs DEF Submits
<1>3. Decides(r) => /\ row.stage \notin Outcomes /\ req'[r].snap = row
                    /\ req'[r].kind \in {"dashboard", "link"}
  BY ValidatedAssumption DEF Decides
<1>4. Rereads(r) => req'[r].kind = "restamp"
  BY DEF Rereads
<1>5. Closes(req'[r], row.status, edits)
  BY <1>2, <1>3, <1>4 DEF Closes, InDecision
<1> QED BY <1>1, <1>5, CloseCalm DEF Starts, RowStays

LEMMA CloseGoesOn ==
  ASSUME CloseInv, NEW r \in Requests, Over(r) \/ Takes(r) \/ Settles(r) \/ Mails(r)
  PROVE  CloseInv'
<1>1. /\ Others(r) /\ edits' = edits /\ landed' = landed /\ overwrote' = overwrote /\ row' = row
      /\ \/ ~Working(req'[r])
         \/ Working(req[r]) /\ req'[r].kind = req[r].kind /\ req'[r].snap = req[r].snap
  BY OverIs DEF Leaves, Takes, Settles, Mails, GoesOn, Held, RowStays, Working
<1>2. Closes(req'[r], row.status, edits)
  BY <1>1 DEF CloseInv, Closes, InDecision
<1> QED BY <1>1, <1>2, CloseCalm

LEMMA CloseInserts ==
  ASSUME TypeInv, HistInv, CloseInv, NEW r \in Requests, Inserts(r)
  PROVE  CloseInv'
<1>1. /\ Others(r) /\ edits' = edits /\ landed' = {} /\ ~Working(req'[r])
      /\ row'.status = "new"
  BY DEF Inserts, Ends, HistInv, RowTells, Working, CloseInv, Closes
<1>2. AutoCloseAgrees'
  BY <1>1 DEF AutoCloseAgrees
<1>3. ASSUME NEW s \in Requests PROVE Closes(req'[s], row'.status, edits')
  <2>1. ~InDecision(req[s])
    BY DEF HistInv, Tells, Inserts
  <2> QED BY <1>1, <2>1 DEF CloseInv, Closes, Others, InDecision
<1> QED BY <1>1, <1>2, <1>3 DEF CloseInv

\* A decision that nothing has overtaken leaves the stage it has read.
LEMMA CloseWrites ==
  ASSUME TypeInv, HistInv, CloseInv, NEW r \in Requests, Writes(r)
  PROVE  CloseInv'
<1>1. /\ Others(r) /\ edits' = edits /\ ~Working(req'[r]) /\ r \in landed'
      /\ InDecision(req[r]) /\ Tells(r) /\ Closes(req[r], row.status, edits)
      /\ row'.stage = req[r].stage
      /\ row'.status = IF req[r].stage \in Outcomes /\ req[r].snap.status # "closed"
                       THEN "closed" ELSE row.status
  BY DEF Writes, Ends, HistInv, InDecision, Working, CloseInv
<1>2. ASSUME edits' = 0, overwrote' = {}
      PROVE  row'.status = "closed" <=> row'.stage \in Outcomes
  <2>1. r \notin outdated /\ overwrote = {}
    BY <1>2 DEF Writes
  <2>2. row.stage \notin Outcomes
    BY <1>1, <2>1 DEF Tells, Closes
  <2>3. CASE req[r].stage \in Outcomes
    BY <1>1, <1>2, <2>3 DEF Closes
  <2>4. CASE req[r].stage \notin Outcomes
    <3>1. row.status # "closed"
      BY <1>1, <1>2, <2>1, <2>2 DEF CloseInv, AutoCloseAgrees
    <3> QED BY <1>1, <2>4, <3>1
  <2> QED BY <2>3, <2>4
<1>3. AutoCloseAgrees'
  BY <1>2 DEF AutoCloseAgrees
<1>4. Closes(req'[r], row'.status, edits)
  BY <1>1 DEF Closes, InDecision
<1> QED BY <1>1, <1>3, <1>4, CloseStep

LEMMA CloseRestamps ==
  ASSUME CloseInv, NEW r \in Requests, Restamps(r)
  PROVE  CloseInv'
<1>1. Closes(req'[r], row.status, edits)
  BY DEF Restamps, Ends, Closes, InDecision, Working
<1> QED BY <1>1, CloseCalm DEF Restamps, Ends

LEMMA CloseStill ==
  ASSUME TypeInv, CloseInv, Edits \/ Ticks
  PROVE  CloseInv'
<1>1. CASE Edits
  <2>1. edits' # 0 /\ req' = req
    BY <1>1, Halves DEF TypeInv, OthersTyped, Edits
  <2>2. AutoCloseAgrees'
    BY <2>1 DEF AutoCloseAgrees
  <2>3. ASSUME NEW r \in Requests PROVE Closes(req'[r], row'.status, edits')
    BY <2>1 DEF CloseInv, Closes
  <2> QED BY <2>1, <2>2, <2>3 DEF CloseInv
<1>2. CASE Ticks
  BY <1>2 DEF Ticks, RowStays, CloseInv, AutoCloseAgrees
<1> QED BY <1>1, <1>2

LEMMA CloseNext ==
  ASSUME TypeInv, HistInv, CloseInv, [Next]_vars
  PROVE  CloseInv'
BY NextIs, CloseStarts, CloseGoesOn, CloseInserts, CloseWrites, CloseRestamps, CloseStill DEF Moves

-----------------------------------------------------------------------------
\* The invariant, and what it says.

IInv ==
  /\ TypeInv /\ NotedInv /\ StampInv /\ ClaimInv /\ HistInv /\ MailInv
  /\ DepthInv /\ CloseInv

LEMMA Invariance == Spec => []IInv
<1>1. Init => IInv
  BY TypeInit, NotedInit, StampInit, ClaimInit, HistInit, MailInit, DepthInit, CloseInit DEF IInv
<1>2. IInv /\ [Next]_vars => IInv'
  <2> SUFFICES ASSUME IInv, [Next]_vars PROVE IInv'
    OBVIOUS
  <2>1. TypeInv /\ NotedInv /\ StampInv /\ ClaimInv /\ HistInv /\ MailInv /\ DepthInv /\ CloseInv
    BY DEF IInv
  <2>2. TypeInv'
    BY <2>1, NextIs
  <2>3. NotedInv' /\ StampInv' /\ ClaimInv'
    BY <2>1, NotedNext, StampNext, ClaimNext
  <2>4. HistInv' /\ MailInv' /\ DepthInv' /\ CloseInv'
    BY <2>1, <2>2, HistNext, MailNext, DepthNext, CloseNext
  <2> QED BY <2>2, <2>3, <2>4 DEF IInv
<1> QED BY <1>1, <1>2, PTL DEF Spec

\* The history names every decision that took effect unless one was overwritten,
\* and never one that did not; and what is overwritten is by a decision from the
\* dashboard, or through a link to a stage the submission had come back to.
THEOREM DecisionsAreTold == Spec => []HistoryIsTheDecisions
<1>1. IInv => HistoryIsTheDecisions
  BY HistoryIs DEF IInv
<1> QED BY <1>1, Invariance, PTL

\* A spent link stands for a decision that landed or is under way, unless a call
\* was lost; two decisions land through one link only when one's answer was.
THEOREM SpentLinksDecide == Spec => []SpentLinkIsDecided
<1>1. IInv => SpentLinkIsDecided
  BY SpentIsDecided DEF IInv
<1> QED BY <1>1, Invariance, PTL

\* Whoever is stamped on the row may act at its stage, or was put there by a
\* re-stamp that had read another stage.
THEOREM StampsMatch == Spec => []StampMatchesStage
<1>1. IInv => StampMatchesStage
  BY DEF IInv, StampInv
<1> QED BY <1>1, Invariance, PTL

\* Every recipient the history says was enqueued has a row in the email queue.
THEOREM NotedIsQueued == Spec => []NotedMailIsQueued
<1>1. IInv => NotedMailIsQueued
  BY DEF IInv, NotedInv, Noted, NotedMailIsQueued
<1> QED BY <1>1, Invariance, PTL

\* Mail sent for a decision that did not land is excused by a failed call, an
\* overtaken link, or a submit posted again.
THEOREM MailIsMeant == Spec => []MailIsForADecision
<1>1. IInv => MailIsForADecision
  BY MailIs DEF IInv
<1> QED BY <1>1, Invariance, PTL

\* A submission rests at an email stage only after a failed call, or at the end
\* of MaxCascadeDepth email stages in a row.
THEOREM EmailRests == Spec => []EmailRestIsExcused
<1>1. IInv => EmailRestIsExcused
  BY DEF IInv, DepthInv
<1> QED BY <1>1, Invariance, PTL

\* While nobody edits the status or overwrites a decision, a decided submission
\* is closed exactly when it has reached an outcome.
THEOREM ClosesAtOutcomes == Spec => []AutoCloseAgrees
<1>1. IInv => AutoCloseAgrees
  BY DEF IInv, CloseInv
<1> QED BY <1>1, Invariance, PTL

\* A decision lands by the step that writes it.
LEMMA LandingIs ==
  ASSUME TypeInv, [Next]_vars, NEW r \in Requests, Landing(r)
  PROVE  Writes(r)
<1>1. PICK q \in Requests : Moves(q)
  BY NextIs DEF Landing, Edits, Ticks, RowStays
<1>2. Writes(q)
  BY <1>1 DEF Landing, Moves, Submits, Decides, Rereads, Starts, RowStays, Over, Misses, Refused,
     Drops, Releases, Crashes, Leaves, Takes, Settles, GoesOn, Mails, Inserts, Restamps
<1> QED BY <1>2 DEF Landing, Writes

\* A decision through a link takes effect only while the submission is at the
\* stage the link was minted for, in the hands of the holder of its claim.
THEOREM LinksWriteWhereMinted == Spec => LinkWritesWhereMinted
<1> DEFINE A == \A r \in Requests :
                  Landing(r) /\ req[r].kind = "link" =>
                    row.stage = LinkStage(req[r].link) /\ usedBy[req[r].link] = r
<1>1. ASSUME IInv, [Next]_vars, NEW r \in Requests, Landing(r), req[r].kind = "link"
      PROVE  row.stage = LinkStage(req[r].link) /\ usedBy[req[r].link] = r
  <2>1. Writes(r) /\ Claims(r, req[r], usedBy, landed, unsure)
    BY <1>1, LandingIs DEF IInv, ClaimInv
  <2> QED BY <1>1, <2>1 DEF Writes, Ends, Matches, Claims, Past
<1>2. IInv /\ [Next]_vars => [A]_vars
  BY <1>1
<1> QED BY <1>2, Invariance, PTL DEF Spec, LinkWritesWhereMinted

\* A decision is landed by an administrator or by an approver of the stage it
\* left, or by somebody a late re-stamp had put on the row.
THEOREM ApproversDecide == Spec => DecidersAreApprovers
<1> DEFINE A == \A r \in Requests :
                  Landing(r) => LET sub == req[r].snap IN
                    req[r].who \in Admins \cup EligibleAt(sub.payload, sub.stage) \cup lateStamped
<1>1. ASSUME IInv, [Next]_vars, NEW r \in Requests, Landing(r)
      PROVE  req[r].who \in Admins \cup EligibleAt(req[r].snap.payload, req[r].snap.stage)
                                   \cup lateStamped
  <2>1. Writes(r) /\ Stamps(req[r], row, lateStamped)
    BY <1>1, LandingIs DEF IInv, StampInv
  <2> QED BY <2>1 DEF Writes, Ends, Stamps, InDecision, Working, Eligible
<1>2. IInv /\ [Next]_vars => [A]_vars
  BY <1>1
<1> QED BY <1>2, Invariance, PTL DEF Spec, DecidersAreApprovers
=============================================================================
