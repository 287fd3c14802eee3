------------------------- MODULE FormPublishProofs --------------------------
(***************************************************************************)
(* Theorems about FormPublish, for every set of requests, either audience  *)
(* and every bound.                                                        *)
(***************************************************************************)
EXTENDS FormPublish, TLAPS

-----------------------------------------------------------------------------
\* What the calls of a request leave of the types.

\* The variables that every call touches.
Kept ==
  req' \in [Requests -> Request] /\ faults' \in 0..MaxFaults /\ cut' \subseteq 0..MaxVersions

VersionRow == [draft : BOOLEAN, schema : Schema, there : BOOLEAN]
Behinds == {"check", "copy", "turn"}

LEMMA Typical ==
  /\ Empty \in Schema /\ Idle \in Request /\ Absent \in VersionRow
  /\ \A schema \in Schema : Row(schema) \in VersionRow
BY BoundsAssumption DEF Empty, Schema, Idle, Request, Stages, Absent, Row, VersionRow

LEMMA BecomeTyped ==
  ASSUME TypeOK, NEW r \in Requests, NEW q \in Request, Become(r, q)
  PROVE  /\ req' \in [Requests -> Request]
         /\ req'[r] = q
         /\ \A s \in Requests \ {r} : req'[s] = req[s]
BY DEF TypeOK, Become

LEMMA FaultTyped == TypeOK /\ (Fault \/ UNCHANGED faults) => faults' \in 0..MaxFaults
BY BoundsAssumption DEF TypeOK, Fault

LEMMA FailedKept ==
  ASSUME TypeOK, NEW r \in Requests, Failed(r)
  PROVE  Kept
<1>1. Become(r, Idle) /\ Fault
  BY DEF Failed
<1>2. req[r].v \in 0..MaxVersions
  BY DEF TypeOK, Request
<1>3. cut' \in {cut, cut \cup {0}, cut \cup {req[r].v}}
  BY DEF Failed
<1> QED BY <1>1, <1>2, <1>3, BecomeTyped, FaultTyped, Typical, BoundsAssumption DEF Kept, TypeOK

LEMMA CallKept ==
  ASSUME TypeOK, NEW r \in Requests, NEW q \in Request,
         (Become(r, q) /\ UNCHANGED <<faults, cut>>) \/ Failed(r)
  PROVE  Kept
BY FailedKept, BecomeTyped DEF Kept, TypeOK

LEMMA GoesOn ==
  ASSUME TypeOK, NEW r \in Requests, NEW q \in Request,
         Become(r, q), UNCHANGED faults \/ Fault, UNCHANGED cut
  PROVE  Kept
BY BecomeTyped, FaultTyped DEF Kept, TypeOK

LEMMA BehindTyped ==
  ASSUME TypeOK, NEW r \in Requests, NEW what \in SUBSET Behinds, Behind(r, what)
  PROVE  missed' \in [Requests -> SUBSET Behinds]
BY DEF TypeOK, Behind, Behinds

\* A request stays one when it goes to another stage, or takes a version, a
\* schema or a key.
LEMMA Augmented ==
  ASSUME NEW q \in Request
  PROVE  /\ [q EXCEPT !.at = "find", !.schema.site = TRUE] \in Request
         /\ [q EXCEPT !.at = "find", !.schema.site = TRUE].at = "find"
BY DEF Request, Stages, Schema

LEMMA Staged ==
  ASSUME NEW q \in Request, NEW stage \in Stages
  PROVE  /\ [q EXCEPT !.at = stage] \in Request
         /\ [q EXCEPT !.at = stage].at = stage /\ [q EXCEPT !.at = stage].v = q.v
BY DEF Request

LEMMA Names ==
  {"insert", "find", "write", "scope", "read", "promote", "current", "spawn", "link",
   "stamp"} \subseteq Stages
BY DEF Stages

-----------------------------------------------------------------------------
\* The type invariant needs where a request may be with what.

\* What a request holds at each stage.
Fine(q) ==
  /\ q.at = "insert" => q.v = 0
  /\ q.at \in {"promote", "current", "spawn"} => q.v \in 1..(MaxVersions - 1)
  /\ q.at = "link" => q.v < MaxVersions

\* A request that looks the draft up again finds one.
Drafted == \A r \in Requests : req[r].at \in {"scope", "find", "write", "read"} => form.draft # 0

\* Until the first version is there, nobody but the request that inserts it is
\* at work; before the form is, nobody.
Alone ==
  /\ form.status = "none" =>
       form = NoForm /\ \A r \in Requests : req[r] = Idle /\ ~versions[1].there
  /\ \A r \in Requests : req[r].at = "insert" =>
       form.draft = 0 /\ ~versions[1].there /\ \A s \in Requests \ {r} : req[s] = Idle

TypeInv == TypeOK /\ (\A r \in Requests : Fine(req[r])) /\ Drafted /\ Alone

LEMMA InvInit == Init => TypeInv
<1> SUFFICES ASSUME Init PROVE TypeInv
  OBVIOUS
<1>1. TypeOK
  <2>1. versions \in [Versions -> VersionRow] /\ req \in [Requests -> Request]
    BY Typical DEF Init
  <2>2. form \in [status : {"none", "draft", "published", "archived"}, scope : BOOLEAN,
                  current : 0..MaxVersions, draft : 0..MaxVersions]
    BY BoundsAssumption DEF Init, NoForm
  <2>3. missed \in [Requests -> SUBSET Behinds] /\ flaws \in [Versions -> SUBSET {"check", "copy", "left"}]
    BY DEF Init
  <2>4. saves \in 0..MaxSaves /\ faults \in 0..MaxFaults
    BY BoundsAssumption DEF Init
  <2> QED BY <2>1, <2>2, <2>3, <2>4 DEF Init, TypeOK, VersionRow, Behinds
<1>2. Alone /\ Drafted /\ \A r \in Requests : Fine(req[r])
  BY BoundsAssumption DEF Init, Alone, Drafted, Fine, Idle, NoForm, Absent, Versions
<1> QED BY <1>1, <1>2 DEF TypeInv

\* Whoever is at work, or finds a draft, finds the form made and nobody else at
\* its first version.
LEMMA NobodyInserts ==
  ASSUME TypeInv, NEW r \in Requests, req[r] # Idle \/ form.draft # 0
  PROVE  /\ form.status # "none"
         /\ \A s \in Requests \ {r} : req[s].at # "insert"
BY DEF TypeInv, Alone, NoForm

\* A request moves on to q, whatever it does to the form meanwhile.
LEMMA Moves ==
  ASSUME TypeInv, NEW r \in Requests, NEW q \in Request, Become(r, q), Fine(q),
         q.at # "insert",
         q.at \in {"scope", "find", "write", "read"} => form.draft # 0,
         req[r] # Idle \/ form.draft # 0,
         form.draft # 0 => form'.draft # 0,
         form.status # "none" => form'.status # "none"
  PROVE  (\A s \in Requests : Fine(req[s])') /\ Drafted' /\ Alone'
<1>1. /\ req'[r] = q
      /\ \A s \in Requests \ {r} : req'[s] = req[s]
  BY BecomeTyped DEF TypeInv
<1>2. \A s \in Requests : Fine(req[s])'
  BY <1>1 DEF TypeInv, Fine
<1>3. Drafted'
  BY <1>1 DEF TypeInv, Drafted
<1>4. Alone'
  BY <1>1, NobodyInserts DEF Alone
<1> QED BY <1>2, <1>3, <1>4

LEMMA Fails ==
  ASSUME TypeInv, NEW r \in Requests, Failed(r),
         req[r] # Idle \/ form.draft # 0,
         form.draft # 0 => form'.draft # 0,
         form.status # "none" => form'.status # "none"
  PROVE  (\A s \in Requests : Fine(req[s])') /\ Drafted' /\ Alone'
<1>1. Become(r, Idle)
  BY DEF Failed
<1>2. Fine(Idle) /\ Idle.at = "idle"
  BY BoundsAssumption DEF Fine, Idle
<1> QED BY <1>1, <1>2, Moves, Typical

\* What is left when a request is at work and the form keeps to its type.
LEMMA Stays ==
  ASSUME TypeInv, NEW r \in Requests, NEW q \in Request,
         (Become(r, q) /\ UNCHANGED <<faults, cut>>) \/ Failed(r), Fine(q),
         q.at \notin {"insert", "scope", "find", "write", "read"}, req[r] # Idle,
         form.draft # 0 => form'.draft # 0,
         form.status # "none" => form'.status # "none"
  PROVE  Kept /\ (\A s \in Requests : Fine(req[s])') /\ Drafted' /\ Alone'
<1>1. Kept
  BY CallKept DEF TypeInv
<1>2. CASE Become(r, q)
  BY <1>1, <1>2, Moves
<1>3. CASE Failed(r)
  BY <1>1, <1>3, Fails
<1> QED BY <1>2, <1>3

-----------------------------------------------------------------------------
\* The type invariant, action by action.

FormRow == [status : {"none", "draft", "published", "archived"}, scope : BOOLEAN,
            current : 0..MaxVersions, draft : 0..MaxVersions]

\* TypeOK but for what every call touches.
OthersTyped ==
  /\ form \in FormRow /\ versions \in [Versions -> VersionRow]
  /\ saves \in 0..MaxSaves /\ fresh \subseteq Versions
  /\ missed \in [Requests -> SUBSET Behinds]
  /\ flaws \in [Versions -> SUBSET {"check", "copy", "left"}] /\ reverted \in BOOLEAN

LEMMA Halves ==
  /\ TypeOK => OthersTyped
  /\ OthersTyped' /\ Kept => TypeOK'
BY DEF TypeOK, OthersTyped, Kept, FormRow, VersionRow, Behinds

\* What a step that keeps to the types leaves to show.
LEMMA Whole ==
  OthersTyped' /\ Kept /\ (\A r \in Requests : Fine(req[r])') /\ Drafted' /\ Alone' => TypeInv'
BY Halves DEF TypeInv

LEMMA CreateInv == ASSUME TypeInv, NEW r \in Requests, Create(r) PROVE TypeInv'
<1> DEFINE q == [Idle EXCEPT !.op = "create", !.at = "insert"]
<1>1. q \in Request /\ q.at = "insert" /\ q.v = 0 /\ Fine(q)
  BY Typical, BoundsAssumption DEF Idle, Request, Stages, Fine
<1>2. form.status = "none" /\ form'.status = "draft" /\ form'.draft = 0 /\ form' \in FormRow
  <2>1. form = NoForm /\ form' = [NoForm EXCEPT !.status = "draft"]
    BY DEF Create
  <2>2. form' = [status |-> "draft", current |-> 0, draft |-> 0, scope |-> FALSE]
    BY <2>1 DEF NoForm
  <2>3. form' \in FormRow
    BY <2>2, BoundsAssumption DEF FormRow
  <2> QED BY <2>1, <2>2, <2>3 DEF NoForm
<1>3. \A s \in Requests : req[s] = Idle /\ ~versions[1].there
  BY <1>2 DEF TypeInv, Alone
<1>4. OthersTyped'
  BY <1>2, Halves DEF TypeInv, Create, OthersTyped
<1>5. CASE Become(r, q) /\ UNCHANGED <<faults, cut>>
  <2>1. req'[r] = q /\ \A s \in Requests \ {r} : req'[s] = Idle
    BY <1>1, <1>3, <1>5, BecomeTyped DEF TypeInv
  <2>2. \A s \in Requests : req'[s] \in {q, Idle}
    BY <2>1
  <2>3. (\A s \in Requests : Fine(req[s])') /\ Drafted'
    <3>1. Fine(Idle) /\ Idle.at = "idle"
      BY BoundsAssumption DEF Fine, Idle
    <3>2. \A s \in Requests : Fine(req'[s]) /\ req'[s].at \in {"insert", "idle"}
      BY <1>1, <2>2, <3>1
    <3> QED BY <3>2 DEF Drafted, Fine
  <2>4. UNCHANGED versions
    BY DEF Create
  <2>5. Alone'
    <3>1. \A s \in Requests : req'[s].at = "insert" => s = r
      BY <2>1 DEF Idle
    <3> QED BY <1>2, <1>3, <2>1, <2>4, <3>1 DEF Alone
  <2>6. Kept
    BY <1>1, <1>5, CallKept DEF TypeInv
  <2> QED BY <1>4, <2>3, <2>5, <2>6, Whole
<1>6. CASE Fault /\ UNCHANGED req /\ cut' = {0}
  <2>1. Kept
    BY <1>6, FaultTyped, BoundsAssumption DEF TypeInv, TypeOK, Kept
  <2>2. (\A s \in Requests : Fine(req[s])') /\ Drafted'
    BY <1>3, <1>6, BoundsAssumption DEF Fine, Drafted, Idle
  <2>3. Alone'
    BY <1>2, <1>3, <1>6 DEF Alone, Idle, Create
  <2> QED BY <1>4, <2>1, <2>2, <2>3, Whole
<1> QED BY <1>5, <1>6 DEF Create

LEMMA InsertFirstInv == ASSUME TypeInv, NEW r \in Requests, InsertFirst(r) PROVE TypeInv'
<1> DEFINE q == [req[r] EXCEPT !.at = "link"]
<1>1. q \in Request /\ Fine(q) /\ q.at = "link" /\ req[r] # Idle
  <2>1. req[r] \in Request /\ req[r].at = "insert" /\ req[r].v = 0
    BY DEF TypeInv, TypeOK, InsertFirst, Fine
  <2>2. "link" \in Stages
    BY Names
  <2>3. q \in Request /\ q.at = "link" /\ q.v = 0
    BY <2>1, <2>2, Staged
  <2> QED BY <2>1, <2>3, BoundsAssumption DEF Fine, Idle
<1>2. versions' \in [Versions -> VersionRow]
  BY Typical, Halves DEF TypeInv, OthersTyped, InsertFirst, Call
<1>3. (Become(r, q) /\ UNCHANGED <<faults, cut>>) \/ Failed(r)
  BY DEF InsertFirst, Call
<1>4. UNCHANGED form
  BY DEF InsertFirst
<1>5. Kept /\ (\A s \in Requests : Fine(req[s])') /\ Drafted' /\ Alone'
  BY <1>1, <1>3, <1>4, Stays
<1>6. OthersTyped'
  BY <1>2, Halves DEF TypeInv, OthersTyped, InsertFirst
<1> QED BY <1>5, <1>6, Whole

LEMMA SaveDraftInv ==
  ASSUME TypeInv, NEW r \in Requests, NEW schema \in Schema, SaveDraft(r, schema)
  PROVE  TypeInv'
<1> DEFINE q == [Idle EXCEPT !.op = "save", !.at = "write", !.v = form.draft, !.schema = schema]
<1>1. q \in Request /\ Fine(q) /\ q.at = "write" /\ Become(r, q) /\ form.draft # 0
  BY DEF SaveDraft, TypeInv, TypeOK, Request, Stages, Idle, Fine
<1>2. Kept
  BY <1>1, CallKept DEF TypeInv, SaveDraft
<1>3. UNCHANGED form
  BY DEF SaveDraft
<1>4. (\A s \in Requests : Fine(req[s])') /\ Drafted' /\ Alone'
  BY <1>1, <1>3, Moves
<1>5. OthersTyped'
  BY Halves, BoundsAssumption DEF TypeInv, OthersTyped, SaveDraft
<1> QED BY <1>2, <1>4, <1>5, Whole

LEMMA WrittenTyped ==
  ASSUME TypeOK, NEW v, NEW schema \in Schema
  PROVE  Written(v, schema) \in [Versions -> VersionRow]
BY Halves DEF OthersTyped, Written, VersionRow

LEMMA InjectedFine ==
  ASSUME NEW q \in Request, NEW done \in BOOLEAN
  PROVE  Injected(q, done) \in Request /\ Injected(q, done).at = "read" /\ Fine(Injected(q, done))
<1>1. "read" \in Stages
  BY DEF Stages
<1>2. /\ [q EXCEPT !.at = "read", !.key = done] \in Request
      /\ [q EXCEPT !.at = "read", !.key = done].at = "read"
  BY <1>1 DEF Request
<1> QED BY <1>2 DEF Injected, Fine

LEMMA WriteDraftInv == ASSUME TypeInv, NEW r \in Requests, WriteDraft(r) PROVE TypeInv'
<1> DEFINE After(done) == IF req[r].op = "save" THEN Idle ELSE Injected(req[r], done)
<1>1. PICK done \in BOOLEAN : Become(r, After(done)) /\ (UNCHANGED faults \/ Fault)
  BY DEF WriteDraft
<1>2. After(done) \in Request /\ Fine(After(done)) /\ After(done).at \in {"idle", "read"}
  <2>1. CASE req[r].op = "save"
    BY <2>1, Typical, BoundsAssumption DEF Fine, Idle
  <2>2. CASE req[r].op # "save"
    BY <2>2, InjectedFine DEF TypeInv, TypeOK
  <2> QED BY <2>1, <2>2
<1>3. req[r] # Idle /\ form.draft # 0 /\ UNCHANGED <<form, cut, saves, flaws, reverted>>
  BY DEF WriteDraft, Idle, TypeInv, Drafted
<1>4. (\A s \in Requests : Fine(req[s])') /\ Drafted' /\ Alone'
  BY <1>1, <1>2, <1>3, Moves
<1>5. Kept
  BY <1>1, <1>2, <1>3, GoesOn DEF TypeInv
<1>6. req[r].schema \in Schema
  BY DEF TypeInv, TypeOK, Request
<1>7. versions' \in [Versions -> VersionRow] /\ fresh' \subseteq Versions
  <2>1. versions' \in {versions, Written(req[r].v, req[r].schema)} /\ fresh' \in {fresh, fresh \ {req[r].v}}
    BY DEF WriteDraft
  <2> QED BY <1>6, <2>1, WrittenTyped, Halves DEF TypeInv, OthersTyped
<1>8. missed' \in [Requests -> SUBSET Behinds]
  <2>1. \/ Behind(r, IF versions[req[r].v].draft THEN {"check", "copy"} ELSE {})
        \/ UNCHANGED missed
    BY DEF WriteDraft
  <2> QED BY <2>1, BehindTyped, Halves DEF TypeInv, OthersTyped, Behinds
<1>9. OthersTyped'
  BY <1>3, <1>7, <1>8, Halves DEF TypeInv, OthersTyped
<1> QED BY <1>4, <1>5, <1>9, Whole

LEMMA StartPublishInv == ASSUME TypeInv, NEW r \in Requests, StartPublish(r) PROVE TypeInv'
<1> DEFINE q == [Idle EXCEPT !.op = "publish", !.at = "scope",
                             !.schema = versions[form.draft].schema]
<1>1. form.draft # 0 /\ form.draft \in Versions /\ Become(r, q)
  BY DEF StartPublish, TypeInv, TypeOK, Versions
<1>2. versions[form.draft].schema \in Schema
  BY <1>1 DEF TypeInv, TypeOK
<1>3. q \in Request /\ q.at = "scope" /\ Fine(q)
  <2>1. ASSUME NEW schema \in Schema
        PROVE  LET p == [Idle EXCEPT !.op = "publish", !.at = "scope", !.schema = schema]
               IN p \in Request /\ p.at = "scope"
    BY Typical, Names DEF Request
  <2>2. q \in Request /\ q.at = "scope"
    BY <1>2, <2>1
  <2> QED BY <2>2 DEF Fine
<1>4. UNCHANGED <<form, versions, saves, faults, fresh, flaws, reverted, cut>>
  BY DEF StartPublish
<1>5. (\A s \in Requests : Fine(req[s])') /\ Drafted' /\ Alone'
  BY <1>1, <1>3, <1>4, Moves
<1>6. Kept
  BY <1>1, <1>3, <1>4, CallKept DEF TypeInv
<1>7. OthersTyped'
  BY <1>4, Halves DEF TypeInv, OthersTyped, StartPublish
<1> QED BY <1>5, <1>6, <1>7, Whole

\* Reading the scope or the pointer changes nothing but the request.
LEMMA ReadingInv ==
  ASSUME TypeInv, NEW r \in Requests, NEW q \in Request, Become(r, q), Fine(q),
         q.at \in {"find", "write", "read"}, req[r] # Idle, form.draft # 0,
         UNCHANGED faults \/ Fault,
         UNCHANGED <<form, versions, saves, fresh, missed, flaws, reverted, cut>>
  PROVE  TypeInv'
<1>1. (\A s \in Requests : Fine(req[s])') /\ Drafted' /\ Alone'
  BY Moves
<1>2. Kept
  BY GoesOn DEF TypeInv
<1>3. OthersTyped'
  BY Halves DEF TypeInv, OthersTyped
<1> QED BY <1>1, <1>2, <1>3, Whole

LEMMA ReadScopeInv == ASSUME TypeInv, NEW r \in Requests, ReadScope(r) PROVE TypeInv'
<1> DEFINE At(q) == q \in Request /\ Fine(q) /\ q.at \in {"find", "write", "read"}
<1>1. req[r] \in Request /\ req[r].at = "scope" /\ req[r] # Idle /\ form.draft # 0
  BY DEF TypeInv, TypeOK, ReadScope, Drafted, Idle
<1>2. At([req[r] EXCEPT !.at = "read"])
  <2>1. "read" \in Stages
    BY Names
  <2> QED BY <1>1, <2>1, Staged DEF Fine
<1>3. At([req[r] EXCEPT !.at = "read", !.key = TRUE])
  BY <1>1, InjectedFine DEF Injected
<1>4. At([req[r] EXCEPT !.at = "find", !.schema.site = TRUE])
  BY <1>1, Augmented DEF Fine
<1>5. PICK q : At(q) /\ Become(r, q) /\ (UNCHANGED faults \/ Fault)
  BY <1>2, <1>3, <1>4 DEF ReadScope
<1>6. UNCHANGED <<form, versions, saves, fresh, missed, flaws, reverted, cut>>
  BY DEF ReadScope
<1> QED BY <1>1, <1>5, <1>6, ReadingInv

LEMMA FindDraftInv == ASSUME TypeInv, NEW r \in Requests, FindDraft(r) PROVE TypeInv'
<1> DEFINE q == [req[r] EXCEPT !.at = "write", !.v = form.draft]
<1>1. req[r] \in Request /\ req[r].at = "find" /\ req[r] # Idle /\ form.draft # 0
  BY DEF TypeInv, TypeOK, FindDraft, Drafted, Idle
<1>2. q \in Request /\ Fine(q) /\ q.at = "write"
  <2>1. "write" \in Stages /\ form.draft \in 0..MaxVersions
    BY Names DEF TypeInv, TypeOK
  <2>2. q \in Request /\ q.at = "write"
    BY <1>1, <2>1 DEF Request
  <2> QED BY <2>2 DEF Fine
<1>3. UNCHANGED <<form, versions, saves, fresh, missed, flaws, reverted, cut>>
  BY DEF FindDraft
<1>4. CASE Become(r, q) /\ UNCHANGED faults
  BY <1>1, <1>2, <1>3, <1>4, ReadingInv
<1>5. CASE Fault /\ Become(r, Injected(req[r], FALSE))
  BY <1>1, <1>3, <1>5, InjectedFine, ReadingInv
<1> QED BY <1>4, <1>5 DEF FindDraft

LEMMA ReadDraftInv == ASSUME TypeInv, NEW r \in Requests, ReadDraft(r) PROVE TypeInv'
<1> DEFINE q == [req[r] EXCEPT !.at = "promote", !.v = form.draft,
                               !.schema = versions[form.draft].schema]
<1>1. req[r] \in Request /\ req[r].at = "read"
  BY DEF TypeInv, TypeOK, ReadDraft
<1>2. req[r] # Idle /\ form.draft \in 1..MaxVersions
  <2>1. form.draft \in 0..MaxVersions /\ form.draft # 0
    BY <1>1 DEF TypeInv, TypeOK, Drafted
  <2> QED BY <1>1, <2>1, BoundsAssumption DEF Idle
<1>3. versions[form.draft].schema \in Schema
  BY <1>2 DEF TypeInv, TypeOK, Versions
<1>4. q \in Request /\ q.at = "promote" /\ q.v = form.draft
  <2>1. "promote" \in Stages /\ form.draft \in 0..MaxVersions
    BY <1>2, Names, BoundsAssumption
  <2> QED BY <1>1, <1>3, <2>1 DEF Request
<1>5. UNCHANGED <<form, versions, saves, faults, fresh, missed, flaws, reverted, cut>>
  BY DEF ReadDraft
<1>6. Kept /\ (\A s \in Requests : Fine(req[s])') /\ Drafted' /\ Alone'
  <2>1. CASE Become(r, Idle)
    <3>1. Fine(Idle) /\ Idle.at = "idle"
      BY BoundsAssumption DEF Fine, Idle
    <3> QED BY <1>2, <1>5, <2>1, <3>1, Typical, Stays
  <2>2. CASE form.draft < MaxVersions /\ Become(r, q)
    <3>1. Fine(q)
      BY <1>2, <1>4, <2>2, BoundsAssumption DEF Fine
    <3> QED BY <1>2, <1>4, <1>5, <2>2, <3>1, Stays
  <2> QED BY <2>1, <2>2 DEF ReadDraft
<1>7. OthersTyped'
  BY <1>5, Halves DEF TypeInv, OthersTyped
<1> QED BY <1>6, <1>7, Whole

\* A request that is about to promote, and where it goes from there.
LEMMA NextStage ==
  ASSUME TypeInv, NEW r \in Requests, req[r].at \in {"promote", "current", "spawn"}
  PROVE  /\ req[r] \in Request /\ req[r] # Idle /\ req[r].v \in 1..(MaxVersions - 1)
         /\ \A stage \in {"current", "spawn", "link"} :
              /\ [req[r] EXCEPT !.at = stage] \in Request
              /\ [req[r] EXCEPT !.at = stage].at = stage
              /\ Fine([req[r] EXCEPT !.at = stage])
<1>1. req[r] \in Request /\ req[r].v \in 1..(MaxVersions - 1)
  BY DEF TypeInv, TypeOK, Fine
<1>2. req[r] # Idle
  BY DEF Idle
<1>3. ASSUME NEW stage \in {"current", "spawn", "link"}
      PROVE  /\ [req[r] EXCEPT !.at = stage] \in Request
             /\ [req[r] EXCEPT !.at = stage].at = stage
             /\ Fine([req[r] EXCEPT !.at = stage])
  <2>1. stage \in Stages
    BY Names
  <2>2. /\ [req[r] EXCEPT !.at = stage] \in Request
        /\ [req[r] EXCEPT !.at = stage].at = stage
        /\ [req[r] EXCEPT !.at = stage].v = req[r].v
    BY <1>1, <2>1, Staged
  <2> QED BY <1>1, <2>2, BoundsAssumption DEF Fine
<1> QED BY <1>1, <1>2, <1>3

LEMMA PromoteInv == ASSUME TypeInv, NEW r \in Requests, Promote(r) PROVE TypeInv'
<1> DEFINE v == req[r].v  q == [req[r] EXCEPT !.at = "current"]
<1>0. req[r].at = "promote"
  BY DEF Promote
<1>1. req[r] # Idle /\ v \in 1..(MaxVersions - 1) /\ q \in Request /\ q.at = "current" /\ Fine(q)
  BY <1>0, NextStage
<1>2. form' = form /\ saves' = saves /\ fresh' = fresh /\ reverted' = reverted
  BY DEF Promote
<1>6. Kept /\ (\A s \in Requests : Fine(req[s])') /\ Drafted' /\ Alone'
  <2>1. CASE (Become(r, q) /\ UNCHANGED <<faults, cut>>) \/ Failed(r)
    BY <1>1, <1>2, <2>1, Stays
  <2>2. CASE Fault /\ Become(r, Idle) /\ cut' = cut \cup {v}
    <3>1. Fine(Idle) /\ Idle.at = "idle"
      BY BoundsAssumption DEF Fine, Idle
    <3>2. (\A s \in Requests : Fine(req[s])') /\ Drafted' /\ Alone'
      BY <1>1, <1>2, <2>2, <3>1, Moves, Typical
    <3>3. v \in 0..MaxVersions
      BY <1>1, BoundsAssumption
    <3>4. Kept
      BY <2>2, <3>3, BecomeTyped, FaultTyped, Typical DEF Kept, TypeInv, TypeOK
    <3> QED BY <3>2, <3>4
  <2> QED BY <2>1, <2>2 DEF Promote, Go
<1>7. versions' \in [Versions -> VersionRow]
  <2>1. versions' \in {versions, [versions EXCEPT ![v].draft = FALSE]}
    BY DEF Promote
  <2> QED BY <2>1, Halves DEF TypeInv, OthersTyped, VersionRow
<1>8. flaws' \in [Versions -> SUBSET {"check", "copy", "left"}]
  <2>1. PICK left \in SUBSET {"left"} :
          flaws' \in {flaws, [flaws EXCEPT ![v] = @ \cup (missed[r] \ {"turn"}) \cup left]}
    <3>1. CASE UNCHANGED flaws
      BY <3>1
    <3>2. CASE flaws' = [flaws EXCEPT ![v] = @ \cup (missed[r] \ {"turn"})
                                              \cup IF req[r].key THEN {} ELSE {"left"}]
      BY <3>2
    <3> QED BY <3>1, <3>2 DEF Promote
  <2>2. missed[r] \ {"turn"} \subseteq {"check", "copy"}
    BY DEF TypeInv, TypeOK
  <2>3. flaws \in [Versions -> SUBSET {"check", "copy", "left"}]
    BY DEF TypeInv, TypeOK
  <2>4. \A w \in Versions : flaws[w] \cup (missed[r] \ {"turn"}) \cup left
                             \in SUBSET {"check", "copy", "left"}
    BY <2>2, <2>3
  <2> HIDE DEF v
  <2> QED BY <2>1, <2>3, <2>4
<1>9. missed' \in [Requests -> SUBSET Behinds]
  <2>1. Behind(r, {"check"}) \/ UNCHANGED missed
    BY DEF Promote
  <2> QED BY <2>1, BehindTyped, Halves DEF TypeInv, OthersTyped, Behinds
<1>10. OthersTyped'
  BY <1>2, <1>7, <1>8, <1>9, Halves DEF TypeInv, OthersTyped
<1> QED BY <1>6, <1>10, Whole

LEMMA SetCurrentInv == ASSUME TypeInv, NEW r \in Requests, SetCurrent(r) PROVE TypeInv'
<1> DEFINE v == req[r].v  q == [req[r] EXCEPT !.at = "spawn"]
<1>0. req[r].at = "current"
  BY DEF SetCurrent
<1>1. req[r] # Idle /\ v \in 1..(MaxVersions - 1) /\ q \in Request /\ q.at = "spawn" /\ Fine(q)
  BY <1>0, NextStage
<1>2. UNCHANGED <<versions, saves, fresh, missed, flaws>> /\ reverted' \in BOOLEAN
  <2>1. reverted' = reverted \/ reverted' = ("turn" \in missed[r])
    BY DEF SetCurrent, Call
  <2>2. reverted \in BOOLEAN /\ ("turn" \in missed[r]) \in BOOLEAN
    BY DEF TypeInv, TypeOK
  <2>3. reverted' \in BOOLEAN
    BY <2>1, <2>2
  <2> QED BY <2>3 DEF SetCurrent
<1>3. form' \in {form, [form EXCEPT !.current = v, !.status = "published"]}
  BY DEF SetCurrent, Call
<1>4. v \in 0..MaxVersions
  BY <1>1, BoundsAssumption
<1>5. form' \in FormRow /\ form'.draft = form.draft /\ form'.status \in {form.status, "published"}
  BY <1>3, <1>4, Halves DEF TypeInv, OthersTyped, FormRow
<1>6. (Become(r, q) /\ UNCHANGED <<faults, cut>>) \/ Failed(r)
  BY DEF SetCurrent, Call
<1>7. Kept /\ (\A s \in Requests : Fine(req[s])') /\ Drafted' /\ Alone'
  BY <1>1, <1>5, <1>6, Stays
<1>8. OthersTyped'
  BY <1>2, <1>5, Halves DEF TypeInv, OthersTyped
<1> QED BY <1>7, <1>8, Whole

LEMMA SpawnInv == ASSUME TypeInv, NEW r \in Requests, Spawn(r) PROVE TypeInv'
<1> DEFINE v == req[r].v + 1  q == [req[r] EXCEPT !.at = "link"]
<1>0. req[r].at = "spawn"
  BY DEF Spawn
<1>1. req[r] \in Request /\ req[r] # Idle /\ q \in Request /\ q.at = "link" /\ Fine(q)
  BY <1>0, NextStage
<1>2. UNCHANGED <<form, saves, fresh, missed, flaws, reverted>>
  BY DEF Spawn
<1>3. versions' \in [Versions -> VersionRow]
  <2>1. versions' \in {versions, [versions EXCEPT ![v] = Row(Copy(req[r]))]}
    BY DEF Spawn, Call
  <2>2. Row(Copy(req[r])) \in VersionRow
    BY <1>1, Typical DEF Copy, Request
  <2> QED BY <2>1, <2>2, Halves DEF TypeInv, OthersTyped
<1>4. Fine(Idle) /\ Idle.at = "idle"
  BY BoundsAssumption DEF Fine, Idle
<1>5. \/ (Become(r, Idle) /\ UNCHANGED <<faults, cut>>)
      \/ (Become(r, q) /\ UNCHANGED <<faults, cut>>) \/ Failed(r)
  BY DEF Spawn, Call
<1>6. Kept /\ (\A s \in Requests : Fine(req[s])') /\ Drafted' /\ Alone'
  BY <1>1, <1>2, <1>4, <1>5, Stays, Typical
<1>7. OthersTyped'
  BY <1>2, <1>3, Halves DEF TypeInv, OthersTyped
<1> QED BY <1>6, <1>7, Whole

LEMMA LinkInv == ASSUME TypeInv, NEW r \in Requests, Link(r) PROVE TypeInv'
<1> DEFINE q == IF req[r].key THEN [req[r] EXCEPT !.at = "stamp"] ELSE Idle
<1>1. req[r] \in Request /\ req[r].at = "link" /\ req[r] # Idle /\ req[r].v < MaxVersions
  BY DEF Link, TypeInv, TypeOK, Fine, Idle
<1>2. q \in Request /\ q.at \in {"stamp", "idle"} /\ Fine(q)
  <2>1. "stamp" \in Stages /\ Idle.at = "idle" /\ Fine(Idle)
    BY Names, BoundsAssumption DEF Idle, Fine
  <2> QED BY <1>1, <2>1, Staged, Typical DEF Fine
<1>3. UNCHANGED <<versions, saves, fresh, flaws, reverted>>
  BY DEF Link
<1>4. NewDraft(req[r]) \in 1..MaxVersions
  BY <1>1, BoundsAssumption DEF NewDraft, Request
<1>5. form' \in {form, [form EXCEPT !.draft = NewDraft(req[r])]}
  BY DEF Link, Call
<1>6. form' \in FormRow /\ form'.status = form.status /\ (form.draft # 0 => form'.draft # 0)
  BY <1>4, <1>5, BoundsAssumption, Halves DEF TypeInv, OthersTyped, FormRow
<1>7. (Become(r, q) /\ UNCHANGED <<faults, cut>>) \/ Failed(r)
  BY DEF Link, Call
<1>8. Kept /\ (\A s \in Requests : Fine(req[s])') /\ Drafted' /\ Alone'
  BY <1>1, <1>2, <1>6, <1>7, Stays
<1>9. missed' \in [Requests -> SUBSET Behinds]
  <2>1. Behind(r, {"check", "turn"}) \/ UNCHANGED missed
    BY DEF Link, Call
  <2> QED BY <2>1, BehindTyped, Halves DEF TypeInv, OthersTyped, Behinds
<1>10. OthersTyped'
  BY <1>3, <1>6, <1>9, Halves DEF TypeInv, OthersTyped
<1> QED BY <1>8, <1>10, Whole

LEMMA StampScopeInv == ASSUME TypeInv, NEW r \in Requests, StampScope(r) PROVE TypeInv'
<1>1. req[r] # Idle /\ Fine(Idle) /\ Idle.at = "idle"
  BY BoundsAssumption DEF StampScope, Idle, Fine
<1>2. form' \in {form, [form EXCEPT !.scope = TRUE]}
  BY DEF StampScope, Call
<1>3. form' \in FormRow /\ form'.draft = form.draft /\ form'.status = form.status
  BY <1>2, Halves DEF TypeInv, OthersTyped, FormRow
<1>4. (Become(r, Idle) /\ UNCHANGED <<faults, cut>>) \/ Failed(r)
  BY DEF StampScope, Call
<1>5. Kept /\ (\A s \in Requests : Fine(req[s])') /\ Drafted' /\ Alone'
  BY <1>1, <1>3, <1>4, Stays, Typical
<1>6. OthersTyped'
  BY <1>3, Halves DEF TypeInv, OthersTyped, StampScope
<1> QED BY <1>5, <1>6, Whole

LEMMA SetStatusInv ==
  ASSUME TypeInv, NEW status \in {"published", "archived"}, SetStatus(status)
  PROVE  TypeInv'
<1>1. UNCHANGED <<versions, req, saves, faults, fresh, missed, flaws, reverted, cut>>
  BY DEF SetStatus
<1>2. form' = [form EXCEPT !.status = status]
  BY DEF SetStatus
<1>3. form' \in FormRow /\ form'.draft = form.draft /\ form'.status # "none"
  BY <1>2, Halves DEF TypeInv, OthersTyped, FormRow
<1>4. (\A s \in Requests : Fine(req[s])') /\ Drafted' /\ Alone'
  BY <1>1, <1>3 DEF TypeInv, Drafted, Fine, Alone
<1>5. Kept /\ OthersTyped'
  BY <1>1, <1>3, Halves DEF TypeInv, OthersTyped, Kept, TypeOK
<1> QED BY <1>4, <1>5, Whole

LEMMA EvictInv == ASSUME TypeInv, NEW r \in Requests, Evict(r) PROVE TypeInv'
<1>1. req[r] # Idle /\ Failed(r)
      /\ UNCHANGED <<form, versions, saves, fresh, missed, flaws, reverted>>
  BY DEF Evict
<1>2. (\A s \in Requests : Fine(req[s])') /\ Drafted' /\ Alone'
  BY <1>1, Fails
<1>3. Kept
  BY <1>1, FailedKept DEF TypeInv
<1>4. OthersTyped'
  BY <1>1, Halves DEF TypeInv, OthersTyped
<1> QED BY <1>2, <1>3, <1>4, Whole

LEMMA InvStep == TypeInv /\ [Next]_vars => TypeInv'
<1> SUFFICES ASSUME TypeInv, [Next]_vars PROVE TypeInv'
  OBVIOUS
<1>1. CASE UNCHANGED vars
  BY <1>1 DEF vars, TypeInv, TypeOK, Fine, Drafted, Alone
<1>2. ASSUME NEW status \in {"published", "archived"}, SetStatus(status) PROVE TypeInv'
  BY <1>2, SetStatusInv
<1>3. ASSUME NEW r \in Requests,
             \/ Create(r) \/ InsertFirst(r) \/ \E schema \in Schema : SaveDraft(r, schema)
             \/ WriteDraft(r) \/ StartPublish(r) \/ ReadScope(r) \/ FindDraft(r)
      PROVE  TypeInv'
  BY <1>3, CreateInv, InsertFirstInv, SaveDraftInv, WriteDraftInv, StartPublishInv,
     ReadScopeInv, FindDraftInv
<1>4. ASSUME NEW r \in Requests,
             \/ ReadDraft(r) \/ Promote(r) \/ SetCurrent(r) \/ Spawn(r) \/ Link(r)
             \/ StampScope(r) \/ Evict(r)
      PROVE  TypeInv'
  BY <1>4, ReadDraftInv, PromoteInv, SetCurrentInv, SpawnInv, LinkInv, StampScopeInv, EvictInv
<1> QED BY <1>1, <1>2, <1>3, <1>4 DEF Next

\* Every variable of FormPublish keeps to its type, and a request to what its
\* stage may hold.
THEOREM TypeCorrect == Spec => []TypeInv
BY InvInit, InvStep, PTL DEF Spec

-----------------------------------------------------------------------------
\* What is promoted stays what it was.

LEMMA Immutable ==
  ASSUME TypeInv, [Next]_vars, NEW v \in Versions, versions[v].there, ~versions[v].draft
  PROVE  versions'[v] = versions[v]
<1>0. versions \in [Versions -> VersionRow]
  BY Halves DEF TypeInv, OthersTyped
<1>1. CASE UNCHANGED versions
  BY <1>1
<1>2. ASSUME NEW r \in Requests, InsertFirst(r)
      PROVE  versions'[v] = versions[v]
  <2>1. ~versions[1].there /\ versions' \in {versions, [versions EXCEPT ![1] = Row(Empty)]}
    BY <1>2 DEF InsertFirst, Call, TypeInv, Alone
  <2> QED BY <1>0, <2>1
<1>3. ASSUME NEW r \in Requests, WriteDraft(r)
      PROVE  versions'[v] = versions[v]
  <2>1. versions' \in {versions, Written(req[r].v, req[r].schema)}
    BY <1>3 DEF WriteDraft
  <2> QED BY <1>0, <2>1 DEF Written
<1>4. ASSUME NEW r \in Requests, Promote(r)
      PROVE  versions'[v] = versions[v]
  <2>1. versions' \in {versions, [versions EXCEPT ![req[r].v].draft = FALSE]}
    BY <1>4 DEF Promote
  <2>2. [versions[v] EXCEPT !.draft = FALSE] = versions[v]
    BY <1>0 DEF VersionRow
  <2>3. CASE versions' = versions
    BY <2>3
  <2>4. CASE versions' = [versions EXCEPT ![req[r].v].draft = FALSE]
    <3>1. CASE req[r].v = v
      BY <1>0, <2>2, <2>4, <3>1
    <3>2. CASE req[r].v # v
      BY <1>0, <2>4, <3>2
    <3> QED BY <3>1, <3>2
  <2> QED BY <2>1, <2>3, <2>4
<1>5. ASSUME NEW r \in Requests, Spawn(r)
      PROVE  versions'[v] = versions[v]
  <2>1. \/ UNCHANGED versions
        \/ ~versions[req[r].v + 1].there
           /\ versions' = [versions EXCEPT ![req[r].v + 1] = Row(Copy(req[r]))]
    BY <1>5 DEF Spawn, Call
  <2> QED BY <1>0, <2>1
<1>6. ASSUME NEW r \in Requests,
             \/ Create(r) \/ \E schema \in Schema : SaveDraft(r, schema)
             \/ StartPublish(r) \/ ReadScope(r) \/ FindDraft(r) \/ ReadDraft(r)
             \/ SetCurrent(r) \/ Link(r) \/ StampScope(r) \/ Evict(r)
      PROVE  UNCHANGED versions
  BY <1>6 DEF Create, SaveDraft, StartPublish, ReadScope, FindDraft, ReadDraft, SetCurrent,
     Link, StampScope, Evict
<1>7. ASSUME NEW status \in {"published", "archived"}, SetStatus(status)
      PROVE  UNCHANGED versions
  BY <1>7 DEF SetStatus
<1> QED BY <1>1, <1>2, <1>3, <1>4, <1>5, <1>6, <1>7 DEF Next, vars

\* A version is a snapshot from its promotion on, though saves that found it a
\* draft are still under way.
THEOREM SnapshotsStay == Spec => PublishedIsImmutable
<1>1. TypeInv /\ [Next]_vars =>
        [\A v \in Versions :
           versions[v].there /\ ~versions[v].draft => versions'[v] = versions[v]]_vars
  BY Immutable
<1> QED BY <1>1, TypeCorrect, PTL DEF Spec, PublishedIsImmutable

-----------------------------------------------------------------------------
\* What is public was checked.

\* What a request at work relies on in the versions vs.
Held(q, vs) ==
  /\ q.at \in {"scope", "find", "read", "promote", "current", "spawn"} => q.op = "publish"
  /\ q.at = "write" => q.op \in {"save", "publish"}
  /\ q.at \in {"promote", "current", "spawn"} => vs[q.v].there
  /\ q.at = "current" => ~vs[q.v].draft
  /\ q.at = "link" => vs[q.v + 1].there

\* What the check still says, d being the draft: from the check to the reading
\* of the row it is about the draft, then about the row that was read.  The key
\* is given only to a version with its field; a row that is no draft any more is
\* not written to, but not promoted either.
Checked(q, d, vs) ==
  /\ q.at = "scope" => vs[d].schema = q.schema /\ q.schema.strict /\ ~q.key
  /\ q.at = "find" => vs[d].schema.strict /\ q.schema.strict /\ q.schema.site
  /\ q.at = "write" /\ q.op = "publish" =>
       q.v = d /\ vs[d].schema.strict /\ q.schema.strict /\ q.schema.site
  /\ q.at = "read" =>
       vs[d].schema.strict /\ (q.key /\ vs[d].draft => vs[d].schema.site)
  /\ q.at = "promote" => vs[q.v].schema.strict /\ (q.key => vs[q.v].schema.site)

\* What a promoted version has, or why it has not.
Accounted(row, why) ==
  row.there /\ ~row.draft =>
    /\ row.schema.strict \/ "check" \in why
    /\ row.schema.site \/ why \cap {"check", "left"} # {}

RequestInv == \A r \in Requests : Held(req[r], versions)
CheckInv == \A r \in Requests : "check" \notin missed[r] => Checked(req[r], form.draft, versions)
VersionInv == \A v \in Versions : Accounted(versions[v], flaws[v])
FormInv ==
  /\ form.draft # 0 => versions[form.draft].there
  /\ form.status \in {"published", "archived"} =>
       form.current # 0 /\ versions[form.current].there /\ ~versions[form.current].draft

SoundInv == TypeInv /\ RequestInv /\ CheckInv /\ VersionInv /\ FormInv

LEMMA SoundInit == Init => SoundInv
<1> SUFFICES ASSUME Init PROVE SoundInv
  OBVIOUS
<1>1. RequestInv /\ CheckInv
  BY DEF Init, RequestInv, CheckInv, Held, Checked, Idle
<1>2. VersionInv /\ FormInv
  BY DEF Init, VersionInv, Accounted, Absent, FormInv, NoForm
<1> QED BY <1>1, <1>2, InvInit DEF SoundInv

LEMMA Sounds == SoundInv => PublicIsSound
<1> SUFFICES ASSUME SoundInv, form.status = "published" PROVE PublicIsSound
  BY DEF PublicIsSound
<1>1. form.current \in Versions /\ versions[form.current].there /\ ~versions[form.current].draft
  BY BoundsAssumption DEF SoundInv, FormInv, TypeInv, TypeOK, Versions
<1>2. Accounted(versions[form.current], flaws[form.current]) /\ form.current # 0
  BY <1>1, BoundsAssumption DEF SoundInv, VersionInv, FormInv
<1> QED BY <1>1, <1>2 DEF Accounted, PublicIsSound

\* A request that has ended relies on nothing.
LEMMA IdleRelies == \A d, vs : Held(Idle, vs) /\ Checked(Idle, d, vs)
BY DEF Idle, Held, Checked

\* A step of r: it relies on what is so afterwards, and so does everybody else.
LEMMA Relies ==
  ASSUME SoundInv, TypeInv', NEW r \in Requests,
         \A s \in Requests \ {r} : req'[s] = req[s],
         Held(req'[r], versions'),
         "check" \notin missed'[r] => Checked(req'[r], form'.draft, versions'),
         \A s \in Requests \ {r} :
           Held(req[s], versions') /\ ("check" \notin missed'[s] =>
                                         Checked(req[s], form'.draft, versions')),
         VersionInv', FormInv'
  PROVE  SoundInv'
<1>1. \A s \in Requests : Held(req'[s], versions')
  OBVIOUS
<1>2. \A s \in Requests : "check" \notin missed'[s] => Checked(req'[s], form'.draft, versions')
  OBVIOUS
<1> QED BY <1>1, <1>2 DEF SoundInv, RequestInv, CheckInv

\* A step of r that leaves the versions and the draft alone.
LEMMA Quiet ==
  ASSUME SoundInv, TypeInv', NEW r \in Requests, NEW q, Become(r, q),
         versions' = versions, flaws' = flaws, form'.draft = form.draft,
         \A s \in Requests \ {r} : missed[s] \subseteq missed'[s],
         Held(q, versions),
         "check" \notin missed'[r] => Checked(q, form.draft, versions),
         FormInv'
  PROVE  SoundInv'
<1>1. req'[r] = q /\ \A s \in Requests \ {r} : req'[s] = req[s]
  BY DEF SoundInv, TypeInv, TypeOK, Become
<1>2. \A s \in Requests \ {r} :
        Held(req[s], versions') /\ ("check" \notin missed'[s] =>
                                      Checked(req[s], form'.draft, versions'))
  BY DEF SoundInv, RequestInv, CheckInv
<1>3. VersionInv'
  BY DEF SoundInv, VersionInv
<1> QED BY <1>1, <1>2, <1>3, Relies

\* So is one that ends r, or does not get to do anything.
LEMMA QuietEnd ==
  ASSUME SoundInv, TypeInv', NEW r \in Requests, Become(r, Idle),
         versions' = versions, flaws' = flaws, missed' = missed, form'.draft = form.draft, FormInv'
  PROVE  SoundInv'
BY IdleRelies, Quiet

\* Where the versions and what the form points at stay, so does what they are.
LEMMA FormKeeps ==
  ASSUME SoundInv, versions' = versions, form' = form
  PROVE  FormInv'
BY DEF SoundInv, FormInv

\* What a request relies on is there still when rows only come to be, or stop
\* being drafts.
LEMMA HeldStays ==
  ASSUME SoundInv, NEW s \in Requests,
         \A v \in Versions : versions[v].there =>
            versions'[v].there /\ (~versions[v].draft => ~versions'[v].draft)
  PROVE  Held(req[s], versions')
<1>1. Held(req[s], versions) /\ Fine(req[s]) /\ req[s].v \in 0..MaxVersions
  BY DEF SoundInv, RequestInv, TypeInv, TypeOK, Request
<1>2. req[s].at \in {"promote", "current", "spawn"} => req[s].v \in Versions
  BY <1>1, BoundsAssumption DEF Fine, Versions
<1>3. req[s].at = "link" => req[s].v + 1 \in Versions
  BY <1>1, BoundsAssumption DEF Fine, Versions
<1> QED BY <1>1, <1>2, <1>3 DEF Held

\* A publish that had checked knows it of none of those who changed something.
LEMMA Unchecked ==
  ASSUME SoundInv, NEW r \in Requests, NEW s \in Requests \ {r}, NEW what,
         Behind(r, what), "check" \in what, "check" \notin missed'[s]
  PROVE  \A d, vs : Checked(req[s], d, vs)
<1>1. Held(req[s], versions)
  BY DEF SoundInv, RequestInv
<1>2. ~(req[s].op = "publish" /\ req[s].at \in {"scope", "find", "write", "read", "promote"})
  BY DEF Behind
<1> QED BY <1>1, <1>2 DEF Held, Checked

\* The soundness invariant, action by action.

LEMMA CreateSound == ASSUME SoundInv, TypeInv', NEW r \in Requests, Create(r) PROVE SoundInv'
<1> DEFINE q == [Idle EXCEPT !.op = "create", !.at = "insert"]
<1>1. /\ versions' = versions /\ flaws' = flaws /\ missed' = missed
      /\ form = NoForm /\ form' = [NoForm EXCEPT !.status = "draft"]
  BY DEF Create
<1>2. form'.draft = form.draft /\ form'.draft = 0 /\ form'.status = "draft"
  BY <1>1 DEF NoForm
<1>3. FormInv'
  BY <1>2 DEF FormInv
<1>4. q.at = "insert"
  BY DEF Idle
<1>5. \A d, vs : Held(q, vs) /\ Checked(q, d, vs)
  BY <1>4 DEF Held, Checked
<1>6. Become(r, q) \/ req' = req
  BY DEF Create
<1>7. CASE Become(r, q)
  BY <1>1, <1>2, <1>3, <1>5, <1>7, Quiet
<1>8. CASE req' = req
  BY <1>1, <1>2, <1>3, <1>8 DEF SoundInv, RequestInv, CheckInv, VersionInv
<1> QED BY <1>6, <1>7, <1>8

LEMMA InsertFirstSound ==
  ASSUME SoundInv, TypeInv', NEW r \in Requests, InsertFirst(r) PROVE SoundInv'
<1> DEFINE q == [req[r] EXCEPT !.at = "link"]
<1>1. /\ req[r].at = "insert" /\ form.draft = 0 /\ ~versions[1].there
      /\ \A s \in Requests \ {r} : req[s] = Idle
  BY DEF InsertFirst, SoundInv, TypeInv, Alone
<1>2. form' = form /\ flaws' = flaws /\ missed' = missed
  BY DEF InsertFirst
<1>3. CASE versions' = versions /\ Become(r, Idle)
  BY <1>2, <1>3, FormKeeps, QuietEnd
<1>4. CASE versions' = [versions EXCEPT ![1] = Row(Empty)]
  <2>1. versions'[1].there /\ versions'[1].draft /\ \A v \in Versions \ {1} : versions'[v] = versions[v]
    BY <1>4, BoundsAssumption DEF SoundInv, TypeInv, TypeOK, Versions, Row
  <2>2. VersionInv'
    BY <1>2, <2>1 DEF SoundInv, VersionInv, Accounted
  <2>3. FormInv'
    BY <1>1, <1>2, <2>1, BoundsAssumption DEF SoundInv, FormInv, TypeInv, TypeOK, Versions
  <2>4. req[r] \in Request /\ req[r].v = 0
    BY <1>1 DEF SoundInv, TypeInv, TypeOK, Fine
  <2>5. q.at = "link" /\ q.v = 0
    BY <2>4, Names, Staged
  <2>6. Held(q, versions') /\ Checked(q, form'.draft, versions')
    BY <2>1, <2>5 DEF Held, Checked
  <2>7. Become(r, q) \/ Become(r, Idle)
    BY DEF InsertFirst, Call, Failed
  <2>8. req'[r] \in {q, Idle} /\ \A s \in Requests \ {r} : req'[s] = req[s]
    BY <2>7 DEF SoundInv, TypeInv, TypeOK, Become
  <2>9. Held(req'[r], versions') /\ Checked(req'[r], form'.draft, versions')
    BY <2>6, <2>8, IdleRelies
  <2> QED BY <1>1, <2>2, <2>3, <2>8, <2>9, IdleRelies, Relies
<1> QED BY <1>3, <1>4 DEF InsertFirst, Call, Failed

LEMMA SaveDraftSound ==
  ASSUME SoundInv, TypeInv', NEW r \in Requests, NEW schema \in Schema, SaveDraft(r, schema)
  PROVE  SoundInv'
<1> DEFINE q == [Idle EXCEPT !.op = "save", !.at = "write", !.v = form.draft, !.schema = schema]
<1>1. /\ versions' = versions /\ flaws' = flaws /\ missed' = missed /\ form' = form
      /\ Become(r, q)
  BY DEF SaveDraft
<1>2. q.at = "write" /\ q.op = "save"
  BY DEF Idle
<1>3. Held(q, versions) /\ Checked(q, form.draft, versions)
  BY <1>2 DEF Held, Checked
<1> QED BY <1>1, <1>3, FormKeeps, Quiet

LEMMA StartPublishSound ==
  ASSUME SoundInv, TypeInv', NEW r \in Requests, StartPublish(r) PROVE SoundInv'
<1> DEFINE q == [Idle EXCEPT !.op = "publish", !.at = "scope",
                             !.schema = versions[form.draft].schema]
<1>1. /\ versions' = versions /\ flaws' = flaws /\ form' = form
      /\ missed' = [missed EXCEPT ![r] = {}]
      /\ Become(r, q)
      /\ versions[form.draft].schema.strict
  BY DEF StartPublish, Accepts
<1>2. q.at = "scope" /\ q.op = "publish" /\ ~q.key /\ q.schema = versions[form.draft].schema
  BY DEF Idle
<1>3. Held(q, versions) /\ Checked(q, form.draft, versions)
  BY <1>1, <1>2 DEF Held, Checked
<1>4. \A s \in Requests \ {r} : missed'[s] = missed[s]
  BY <1>1 DEF SoundInv, TypeInv, TypeOK
<1> QED BY <1>1, <1>3, <1>4, FormKeeps, Quiet

LEMMA ReadScopeSound ==
  ASSUME SoundInv, TypeInv', NEW r \in Requests, ReadScope(r) PROVE SoundInv'
<1> DEFINE found == [req[r] EXCEPT !.at = "find", !.schema.site = TRUE]
           keyed == [req[r] EXCEPT !.at = "read", !.key = TRUE]
           plain == [req[r] EXCEPT !.at = "read"]
<1>1. /\ versions' = versions /\ flaws' = flaws /\ missed' = missed /\ form' = form
      /\ req[r].at = "scope" /\ req[r] \in Request
  BY DEF ReadScope, SoundInv, TypeInv, TypeOK
<1>2. Become(r, plain) \/ (Become(r, keyed) /\ req[r].schema.site) \/ Become(r, found)
  BY DEF ReadScope
<1>3. req[r].op = "publish" /\ ("check" \notin missed[r] => Checked(req[r], form.draft, versions))
  BY <1>1 DEF SoundInv, RequestInv, CheckInv, Held
<1>4. /\ found.at = "find" /\ found.op = req[r].op
      /\ found.schema.site /\ found.schema.strict = req[r].schema.strict
  BY <1>1 DEF Request, Schema
<1>5. /\ keyed.at = "read" /\ keyed.op = req[r].op /\ keyed.key
      /\ plain.at = "read" /\ plain.op = req[r].op /\ plain.key = req[r].key
  BY <1>1 DEF Request
<1>6. /\ Held(found, versions)
      /\ Checked(req[r], form.draft, versions) => Checked(found, form.draft, versions)
  BY <1>1, <1>3, <1>4 DEF Held, Checked
<1>7. /\ Held(keyed, versions)
      /\ req[r].schema.site /\ Checked(req[r], form.draft, versions)
           => Checked(keyed, form.draft, versions)
  BY <1>1, <1>3, <1>5 DEF Held, Checked
<1>8. /\ Held(plain, versions)
      /\ Checked(req[r], form.draft, versions) => Checked(plain, form.draft, versions)
  BY <1>1, <1>3, <1>5 DEF Held, Checked
<1>9. FormInv'
  BY <1>1, FormKeeps
<1>10. CASE Become(r, found)
  BY <1>1, <1>3, <1>6, <1>9, <1>10, Quiet
<1>11. CASE Become(r, keyed) /\ req[r].schema.site
  BY <1>1, <1>3, <1>7, <1>9, <1>11, Quiet
<1>12. CASE Become(r, plain)
  BY <1>1, <1>3, <1>8, <1>9, <1>12, Quiet
<1> QED BY <1>2, <1>10, <1>11, <1>12

LEMMA FindDraftSound ==
  ASSUME SoundInv, TypeInv', NEW r \in Requests, FindDraft(r) PROVE SoundInv'
<1> DEFINE found == [req[r] EXCEPT !.at = "write", !.v = form.draft]
           plain == Injected(req[r], FALSE)
<1>1. /\ versions' = versions /\ flaws' = flaws /\ missed' = missed /\ form' = form
      /\ req[r].at = "find" /\ req[r] \in Request
      /\ Become(r, found) \/ Become(r, plain)
  BY DEF FindDraft, SoundInv, TypeInv, TypeOK
<1>2. req[r].op = "publish" /\ ("check" \notin missed[r] => Checked(req[r], form.draft, versions))
  BY <1>1 DEF SoundInv, RequestInv, CheckInv, Held
<1>3. /\ found.at = "write" /\ found.op = req[r].op /\ found.v = form.draft
      /\ found.schema = req[r].schema
  BY <1>1 DEF Request
<1>4. plain.at = "read" /\ plain.op = req[r].op /\ ~plain.key
  BY <1>1 DEF Request, Injected
<1>5. /\ Held(found, versions)
      /\ Checked(req[r], form.draft, versions) => Checked(found, form.draft, versions)
  BY <1>1, <1>2, <1>3 DEF Held, Checked
<1>6. /\ Held(plain, versions)
      /\ Checked(req[r], form.draft, versions) => Checked(plain, form.draft, versions)
  BY <1>1, <1>2, <1>4 DEF Held, Checked
<1>7. FormInv'
  BY <1>1, FormKeeps
<1>8. CASE Become(r, found)
  BY <1>1, <1>2, <1>5, <1>7, <1>8, Quiet
<1>9. CASE Become(r, plain)
  BY <1>1, <1>2, <1>6, <1>7, <1>9, Quiet
<1> QED BY <1>1, <1>8, <1>9

LEMMA ReadDraftSound ==
  ASSUME SoundInv, TypeInv', NEW r \in Requests, ReadDraft(r) PROVE SoundInv'
<1> DEFINE v == form.draft
           q == [req[r] EXCEPT !.at = "promote", !.v = v, !.schema = versions[v].schema]
<1>1. /\ versions' = versions /\ flaws' = flaws /\ missed' = missed /\ form' = form
      /\ req[r].at = "read" /\ req[r] \in Request
      /\ (versions[v].draft /\ Become(r, q)) \/ Become(r, Idle)
  BY DEF ReadDraft, SoundInv, TypeInv, TypeOK
<1>2. req[r].op = "publish" /\ ("check" \notin missed[r] => Checked(req[r], v, versions))
  BY <1>1 DEF SoundInv, RequestInv, CheckInv, Held
<1>3. versions[v].there
  BY <1>1 DEF SoundInv, TypeInv, Drafted, FormInv
<1>4. q.at = "promote" /\ q.op = req[r].op /\ q.v = v /\ q.key = req[r].key
  BY <1>1 DEF Request
<1>5. /\ Held(q, versions)
      /\ versions[v].draft /\ Checked(req[r], v, versions) => Checked(q, v, versions)
  BY <1>1, <1>2, <1>3, <1>4 DEF Held, Checked
<1>6. FormInv'
  BY <1>1, FormKeeps
<1>7. CASE versions[v].draft /\ Become(r, q)
  BY <1>1, <1>2, <1>5, <1>6, <1>7, Quiet
<1>8. CASE Become(r, Idle)
  BY <1>1, <1>6, <1>8, QuietEnd
<1> QED BY <1>1, <1>7, <1>8

LEMMA SetCurrentSound ==
  ASSUME SoundInv, TypeInv', NEW r \in Requests, SetCurrent(r) PROVE SoundInv'
<1> DEFINE q == [req[r] EXCEPT !.at = "spawn"]
<1>1. /\ versions' = versions /\ flaws' = flaws /\ missed' = missed
      /\ req[r].at = "current" /\ req[r] \in Request
      /\ Become(r, q) \/ Become(r, Idle)
      /\ form' = form \/ form' = [form EXCEPT !.current = req[r].v, !.status = "published"]
  BY DEF SetCurrent, Call, Failed, SoundInv, TypeInv, TypeOK
<1>2. /\ req[r].op = "publish" /\ versions[req[r].v].there /\ ~versions[req[r].v].draft
      /\ req[r].v # 0
  BY <1>1 DEF SoundInv, RequestInv, Held, TypeInv, Fine
<1>3. form'.draft = form.draft /\ FormInv'
  <2>1. CASE form' = form
    BY <1>1, <2>1, FormKeeps
  <2>2. CASE form' = [form EXCEPT !.current = req[r].v, !.status = "published"]
    <3>1. form'.draft = form.draft /\ form'.current = req[r].v
      BY <2>2 DEF SoundInv, TypeInv, TypeOK
    <3> QED BY <1>1, <1>2, <3>1 DEF SoundInv, FormInv
  <2> QED BY <1>1, <2>1, <2>2
<1>4. q.at = "spawn" /\ q.op = req[r].op /\ q.v = req[r].v
  BY <1>1 DEF Request
<1>5. Held(q, versions) /\ Checked(q, form.draft, versions)
  BY <1>2, <1>4 DEF Held, Checked
<1>6. CASE Become(r, q)
  BY <1>1, <1>3, <1>5, <1>6, Quiet
<1>7. CASE Become(r, Idle)
  BY <1>1, <1>3, <1>7, QuietEnd
<1> QED BY <1>1, <1>6, <1>7

LEMMA StampScopeSound ==
  ASSUME SoundInv, TypeInv', NEW r \in Requests, StampScope(r) PROVE SoundInv'
<1>1. /\ versions' = versions /\ flaws' = flaws /\ missed' = missed /\ Become(r, Idle)
      /\ form' = form \/ form' = [form EXCEPT !.scope = TRUE]
  BY DEF StampScope, Call, Failed
<1>2. form'.draft = form.draft /\ form'.status = form.status /\ form'.current = form.current
  BY <1>1 DEF SoundInv, TypeInv, TypeOK
<1>3. FormInv'
  BY <1>1, <1>2 DEF SoundInv, FormInv
<1> QED BY <1>1, <1>2, <1>3, QuietEnd

LEMMA EvictSound ==
  ASSUME SoundInv, TypeInv', NEW r \in Requests, Evict(r) PROVE SoundInv'
BY FormKeeps, QuietEnd DEF Evict, Failed

LEMMA SetStatusSound ==
  ASSUME SoundInv, TypeInv', NEW status \in {"published", "archived"}, SetStatus(status)
  PROVE  SoundInv'
<1>1. /\ versions' = versions /\ flaws' = flaws /\ missed' = missed /\ req' = req
      /\ form' = [form EXCEPT !.status = status] /\ form.status \in {"published", "archived"}
  BY DEF SetStatus, SoundInv, TypeInv, TypeOK
<1>2. form'.draft = form.draft /\ form'.current = form.current
  BY <1>1 DEF SoundInv, TypeInv, TypeOK
<1>3. FormInv' /\ RequestInv' /\ CheckInv' /\ VersionInv'
  BY <1>1, <1>2 DEF SoundInv, FormInv, RequestInv, CheckInv, VersionInv
<1> QED BY <1>3 DEF SoundInv

LEMMA LinkSound ==
  ASSUME SoundInv, TypeInv', NEW r \in Requests, Link(r) PROVE SoundInv'
<1> DEFINE q == IF req[r].key THEN [req[r] EXCEPT !.at = "stamp"] ELSE Idle
<1>1. /\ versions' = versions /\ flaws' = flaws
      /\ req[r].at = "link" /\ req[r] \in Request
      /\ Become(r, q) \/ Become(r, Idle)
      /\ \/ form' = [form EXCEPT !.draft = req[r].v + 1] /\ Behind(r, {"check", "turn"})
         \/ form' = form /\ missed' = missed /\ Become(r, Idle)
  BY DEF Link, Call, Failed, NewDraft, SoundInv, TypeInv, TypeOK
<1>2. CASE form' = form /\ missed' = missed /\ Become(r, Idle)
  BY <1>1, <1>2, FormKeeps, QuietEnd
<1>3. CASE form' = [form EXCEPT !.draft = req[r].v + 1] /\ Behind(r, {"check", "turn"})
  <2>1. versions[req[r].v + 1].there
    BY <1>1 DEF SoundInv, RequestInv, Held
  <2>2. form'.draft = req[r].v + 1 /\ form'.status = form.status /\ form'.current = form.current
    BY <1>3 DEF SoundInv, TypeInv, TypeOK
  <2>3. FormInv' /\ VersionInv'
    BY <1>1, <2>1, <2>2 DEF SoundInv, FormInv, VersionInv
  <2>4. \A d, vs : Held(q, vs) /\ Checked(q, d, vs)
    <3>1. req[r].key => q.at = "stamp"
      BY <1>1 DEF Request
    <3>2. CASE req[r].key
      BY <3>1, <3>2 DEF Held, Checked
    <3>3. CASE ~req[r].key
      BY <3>3, IdleRelies
    <3> QED BY <3>2, <3>3
  <2>5. req'[r] \in {q, Idle} /\ \A s \in Requests \ {r} : req'[s] = req[s]
    BY <1>1 DEF SoundInv, TypeInv, TypeOK, Become
  <2>6. Held(req'[r], versions') /\ Checked(req'[r], form'.draft, versions')
    BY <2>4, <2>5, IdleRelies
  <2>7. \A s \in Requests \ {r} :
          Held(req[s], versions') /\ ("check" \notin missed'[s] =>
                                        Checked(req[s], form'.draft, versions'))
    BY <1>1, <1>3, Unchecked DEF SoundInv, RequestInv
  <2> QED BY <2>3, <2>5, <2>6, <2>7, Relies
<1> QED BY <1>1, <1>2, <1>3

LEMMA SpawnSound ==
  ASSUME SoundInv, TypeInv', NEW r \in Requests, Spawn(r) PROVE SoundInv'
<1> DEFINE q == [req[r] EXCEPT !.at = "link"]
           v == req[r].v + 1
<1>1. /\ form' = form /\ flaws' = flaws /\ missed' = missed
      /\ req[r].at = "spawn" /\ req[r] \in Request
      /\ Become(r, q) \/ Become(r, Idle)
      /\ \/ versions' = versions /\ Become(r, Idle)
         \/ ~versions[v].there /\ versions' = [versions EXCEPT ![v] = Row(Copy(req[r]))]
  BY DEF Spawn, Call, Failed, SoundInv, TypeInv, TypeOK
<1>2. CASE versions' = versions /\ Become(r, Idle)
  BY <1>1, <1>2, FormKeeps, QuietEnd
<1>3. CASE ~versions[v].there /\ versions' = [versions EXCEPT ![v] = Row(Copy(req[r]))]
  <2>1. v \in Versions
    BY <1>1, BoundsAssumption DEF SoundInv, TypeInv, Fine, Versions
  <2>2. versions'[v].there /\ versions'[v].draft /\ \A w \in Versions \ {v} : versions'[w] = versions[w]
    BY <1>3, <2>1 DEF SoundInv, TypeInv, TypeOK, Row
  <2>3. \A w \in Versions : versions[w].there => versions'[w] = versions[w]
    BY <1>3, <2>2
  <2>4. VersionInv'
    BY <1>1, <2>2 DEF SoundInv, VersionInv, Accounted
  <2>5. form.draft # 0 => form.draft \in Versions /\ versions[form.draft].there
    BY BoundsAssumption DEF SoundInv, FormInv, TypeInv, TypeOK, Versions
  <2>6. FormInv'
    <3>1. form.current # 0 => form.current \in Versions
      BY BoundsAssumption DEF SoundInv, TypeInv, TypeOK, Versions
    <3> QED BY <1>1, <2>3, <2>5, <3>1 DEF SoundInv, FormInv
  <2>7. q.at = "link" /\ q.v = req[r].v
    BY <1>1 DEF Request
  <2>8. Held(q, versions') /\ Checked(q, form'.draft, versions')
    BY <2>2, <2>7 DEF Held, Checked
  <2>9. req'[r] \in {q, Idle} /\ \A s \in Requests \ {r} : req'[s] = req[s]
    BY <1>1 DEF SoundInv, TypeInv, TypeOK, Become
  <2>10. Held(req'[r], versions') /\ Checked(req'[r], form'.draft, versions')
    BY <2>8, <2>9, IdleRelies
  <2>11. ASSUME NEW s \in Requests \ {r}
         PROVE  Held(req[s], versions') /\ ("check" \notin missed'[s] =>
                                              Checked(req[s], form'.draft, versions'))
    <3>1. Held(req[s], versions')
      BY <2>3, HeldStays
    <3>2. "check" \notin missed'[s] => Checked(req[s], form.draft, versions)
      BY <1>1 DEF SoundInv, CheckInv
    <3>3. req[s].at \in {"scope", "find", "write", "read"} =>
            versions'[form.draft] = versions[form.draft]
      BY <2>3, <2>5 DEF SoundInv, TypeInv, Drafted
    <3>4. req[s].at = "promote" => versions'[req[s].v] = versions[req[s].v]
      <4>1. Held(req[s], versions) /\ (req[s].at = "promote" => req[s].v \in Versions)
        BY BoundsAssumption DEF SoundInv, RequestInv, TypeInv, Fine, Versions
      <4> QED BY <2>3, <4>1 DEF Held
    <3> QED BY <1>1, <3>1, <3>2, <3>3, <3>4 DEF Checked
  <2> QED BY <2>4, <2>6, <2>9, <2>10, <2>11, Relies
<1> QED BY <1>1, <1>2, <1>3

LEMMA PromoteSound ==
  ASSUME SoundInv, TypeInv', NEW r \in Requests, Promote(r) PROVE SoundInv'
<1> DEFINE v == req[r].v
           q == [req[r] EXCEPT !.at = "current"]
<1>1. /\ form' = form /\ req[r].at = "promote" /\ req[r] \in Request
      /\ Become(r, q) \/ Become(r, Idle)
      /\ \/ /\ versions' = [versions EXCEPT ![v].draft = FALSE]
            /\ flaws' = [flaws EXCEPT ![v] =
                 @ \cup (missed[r] \ {"turn"}) \cup IF req[r].key THEN {} ELSE {"left"}]
            /\ Behind(r, {"check"})
         \/ versions' = versions /\ flaws' = flaws /\ missed' = missed /\ Become(r, Idle)
  BY DEF Promote, Go, Failed, SoundInv, TypeInv, TypeOK
<1>2. CASE versions' = versions /\ flaws' = flaws /\ missed' = missed /\ Become(r, Idle)
  BY <1>1, <1>2, FormKeeps, QuietEnd
<1>3. CASE /\ versions' = [versions EXCEPT ![v].draft = FALSE]
           /\ flaws' = [flaws EXCEPT ![v] =
                @ \cup (missed[r] \ {"turn"}) \cup IF req[r].key THEN {} ELSE {"left"}]
           /\ Behind(r, {"check"})
  <2>1. /\ v \in Versions /\ req[r].op = "publish" /\ versions[v].there
        /\ "check" \notin missed[r] =>
             versions[v].schema.strict /\ (req[r].key => versions[v].schema.site)
    <3>1. v \in Versions
      BY <1>1, BoundsAssumption DEF SoundInv, TypeInv, Fine, Versions
    <3> QED BY <1>1, <3>1 DEF SoundInv, RequestInv, CheckInv, Held, Checked
  <2>2. /\ versions'[v] = [versions[v] EXCEPT !.draft = FALSE]
        /\ \A w \in Versions \ {v} : versions'[w] = versions[w] /\ flaws'[w] = flaws[w]
        /\ missed[r] \ {"turn"} \subseteq flaws'[v]
        /\ req[r].key \/ "left" \in flaws'[v]
    BY <1>3, <2>1 DEF SoundInv, TypeInv, TypeOK
  <2>3. versions'[v].there /\ ~versions'[v].draft /\ versions'[v].schema = versions[v].schema
    <3>1. versions[v] \in VersionRow
      BY <2>1, Halves DEF SoundInv, TypeInv, OthersTyped
    <3> QED BY <2>1, <2>2, <3>1 DEF VersionRow
  <2>4. \A w \in Versions : versions[w].there =>
           versions'[w].there /\ (~versions[w].draft => ~versions'[w].draft)
    BY <2>2, <2>3
  <2>5. VersionInv'
    <3>1. Accounted(versions'[v], flaws'[v])
      BY <2>1, <2>2, <2>3 DEF Accounted
    <3>2. \A w \in Versions \ {v} : Accounted(versions'[w], flaws'[w])
      BY <2>2 DEF SoundInv, VersionInv
    <3> QED BY <3>1, <3>2 DEF VersionInv
  <2>6. FormInv'
    <3>1. form.draft \in 0..MaxVersions /\ form.current \in 0..MaxVersions
      BY DEF SoundInv, TypeInv, TypeOK
    <3>2. \A w \in 0..MaxVersions : w # 0 => w \in Versions
      BY BoundsAssumption DEF Versions
    <3> QED BY <1>1, <2>4, <3>1, <3>2 DEF SoundInv, FormInv
  <2>7. q.at = "current" /\ q.op = "publish" /\ q.v = v
    BY <1>1, <2>1 DEF Request
  <2>8. Held(q, versions') /\ Checked(q, form'.draft, versions')
    BY <2>3, <2>7 DEF Held, Checked
  <2>9. req'[r] \in {q, Idle} /\ \A s \in Requests \ {r} : req'[s] = req[s]
    BY <1>1 DEF SoundInv, TypeInv, TypeOK, Become
  <2>10. Held(req'[r], versions') /\ Checked(req'[r], form'.draft, versions')
    BY <2>8, <2>9, IdleRelies
  <2>11. \A s \in Requests \ {r} :
           Held(req[s], versions') /\ ("check" \notin missed'[s] =>
                                         Checked(req[s], form'.draft, versions'))
    BY <1>3, <2>4, HeldStays, Unchecked
  <2> QED BY <2>5, <2>6, <2>9, <2>10, <2>11, Relies
<1> QED BY <1>1, <1>2, <1>3

LEMMA BehindGrows ==
  ASSUME NEW r \in Requests, NEW what, Behind(r, what), missed \in [Requests -> SUBSET Behinds]
  PROVE  missed'[r] = missed[r] /\ \A s \in Requests : missed[s] \subseteq missed'[s]
BY DEF Behind

LEMMA WriteDraftSound ==
  ASSUME SoundInv, TypeInv', NEW r \in Requests, WriteDraft(r) PROVE SoundInv'
<1> DEFINE v == req[r].v
           d == form.draft
           After(done) == IF req[r].op = "save" THEN Idle ELSE Injected(req[r], done)
           Wrote == versions' = Written(v, req[r].schema)
                    /\ Behind(r, IF versions[v].draft THEN {"check", "copy"} ELSE {})
<1>1. /\ form' = form /\ flaws' = flaws /\ req[r].at = "write" /\ req[r] \in Request
      /\ \/ Wrote /\ \E done \in BOOLEAN : Become(r, After(done))
         \/ versions' = versions /\ missed' = missed /\ Become(r, After(FALSE))
  <2>1. form' = form /\ flaws' = flaws /\ req[r].at = "write" /\ req[r] \in Request
    BY DEF WriteDraft, SoundInv, TypeInv, TypeOK
  <2>2. \/ Wrote /\ (Become(r, After(TRUE)) \/ Become(r, After(FALSE)))
        \/ versions' = versions /\ missed' = missed /\ Become(r, After(FALSE))
    BY DEF WriteDraft
  <2> QED BY <2>1, <2>2
<1>0. versions \in [Versions -> VersionRow]
  BY Halves DEF SoundInv, TypeInv, OthersTyped
<1>2. d \in Versions
  BY <1>1, BoundsAssumption DEF SoundInv, TypeInv, TypeOK, Drafted, Versions
<1>3. /\ req[r].op \in {"save", "publish"}
      /\ "check" \notin missed[r] => Checked(req[r], d, versions)
  BY <1>1 DEF SoundInv, RequestInv, CheckInv, Held
\* The rows stay what they are, but for the schema of a draft.
<1>4. \A w \in Versions :
        /\ versions'[w].there = versions[w].there /\ versions'[w].draft = versions[w].draft
        /\ ~versions[w].draft \/ w # v => versions'[w] = versions[w]
  <2>1. versions' \in {versions, [versions EXCEPT ![v].schema = req[r].schema]}
        /\ (~versions[v].draft => versions' = versions)
    BY <1>1 DEF Written
  <2>2. CASE versions' = versions
    BY <2>2
  <2>3. CASE versions' = [versions EXCEPT ![v].schema = req[r].schema] /\ versions[v].draft
    BY <1>0, <2>3 DEF VersionRow
  <2> QED BY <2>1, <2>2, <2>3
<1>5. Wrote /\ versions[v].draft /\ v \in Versions => versions'[v].schema = req[r].schema
  BY <1>1, <1>0 DEF Written, VersionRow
<1>6. VersionInv'
  BY <1>1, <1>4 DEF SoundInv, VersionInv, Accounted
<1>7. FormInv'
  <2>1. form.current # 0 => form.current \in Versions
    BY BoundsAssumption DEF SoundInv, TypeInv, TypeOK, Versions
  <2> QED BY <1>1, <1>2, <1>4, <2>1 DEF SoundInv, FormInv
<1>8. PICK done \in BOOLEAN : Become(r, After(done)) /\ (Wrote \/ (versions' = versions /\ ~done))
  BY <1>1
<1>9. req'[r] = After(done) /\ \A s \in Requests \ {r} : req'[s] = req[s]
  BY <1>8 DEF SoundInv, TypeInv, TypeOK, Become
<1>10. missed'[r] = missed[r] /\ \A s \in Requests : missed[s] \subseteq missed'[s]
  BY <1>1, BehindGrows, Halves DEF SoundInv, TypeInv, OthersTyped
<1>11. Held(After(done), versions')
       /\ ("check" \notin missed[r] => Checked(After(done), d, versions'))
  <2>1. CASE req[r].op = "save"
    BY <2>1, IdleRelies
  <2>2. CASE req[r].op = "publish"
    <3>1. After(done).at = "read" /\ After(done).op = "publish" /\ After(done).key = done
      BY <1>1, <2>2 DEF Injected, Request
    <3>2. "check" \notin missed[r] =>
            v = d /\ versions[d].schema.strict /\ req[r].schema.strict /\ req[r].schema.site
      BY <1>1, <1>3, <2>2 DEF Checked
    <3>3. "check" \notin missed[r] =>
            versions'[d].schema.strict /\ (done /\ versions'[d].draft => versions'[d].schema.site)
      <4>1. CASE versions' = versions /\ ~done
        BY <3>2, <4>1
      <4>2. CASE Wrote
        BY <1>2, <1>4, <1>5, <3>2, <4>2
      <4> QED BY <1>8, <4>1, <4>2
    <3> QED BY <3>1, <3>3 DEF Held, Checked
  <2> QED BY <1>3, <2>1, <2>2
<1>12. ASSUME NEW s \in Requests \ {r}
       PROVE  Held(req[s], versions') /\ ("check" \notin missed'[s] =>
                                            Checked(req[s], form'.draft, versions'))
  <2>1. Held(req[s], versions')
    BY <1>4, HeldStays
  <2>2. CASE Wrote /\ versions[v].draft
    BY <2>1, <2>2, Unchecked
  <2>3. CASE ~(Wrote /\ versions[v].draft)
    <3>1. versions' = versions
      BY <1>1, <2>3 DEF Written
    <3> QED BY <1>1, <1>10, <2>1, <3>1 DEF SoundInv, CheckInv
  <2> QED BY <2>2, <2>3
<1> QED BY <1>1, <1>6, <1>7, <1>9, <1>10, <1>11, <1>12, Relies

LEMMA SoundStep == SoundInv /\ [Next]_vars => SoundInv'
<1> SUFFICES ASSUME SoundInv, [Next]_vars PROVE SoundInv'
  OBVIOUS
<1>1. TypeInv'
  BY InvStep DEF SoundInv
<1>2. CASE UNCHANGED vars
  BY <1>1, <1>2 DEF vars, SoundInv, RequestInv, CheckInv, VersionInv, FormInv
<1>3. ASSUME NEW status \in {"published", "archived"}, SetStatus(status) PROVE SoundInv'
  BY <1>1, <1>3, SetStatusSound
<1>4. ASSUME NEW r \in Requests,
             \/ Create(r) \/ InsertFirst(r) \/ \E schema \in Schema : SaveDraft(r, schema)
             \/ WriteDraft(r) \/ StartPublish(r) \/ ReadScope(r) \/ FindDraft(r)
      PROVE  SoundInv'
  BY <1>1, <1>4, CreateSound, InsertFirstSound, SaveDraftSound, WriteDraftSound,
     StartPublishSound, ReadScopeSound, FindDraftSound
<1>5. ASSUME NEW r \in Requests,
             \/ ReadDraft(r) \/ Promote(r) \/ SetCurrent(r) \/ Spawn(r) \/ Link(r)
             \/ StampScope(r) \/ Evict(r)
      PROVE  SoundInv'
  BY <1>1, <1>5, ReadDraftSound, PromoteSound, SetCurrentSound, SpawnSound, LinkSound,
     StampScopeSound, EvictSound
<1> QED BY <1>2, <1>3, <1>4, <1>5 DEF Next

\* Whatever administrators save and publish at once, and wherever calls fail,
\* what the public form shows was promoted, was checked and has the field that
\* scopes it, but for the excuses PublicIsSound names.
THEOREM PublicSound == Spec => []PublicIsSound
BY SoundInit, SoundStep, Sounds, PTL DEF Spec


-----------------------------------------------------------------------------
\* The chain of the versions, and what each call does to it.

\* Where the rows are, d being the draft: those before it are promoted, and at
\* most one is after it, a draft whose predecessor is promoted.
Ordered(d, vs) ==
  \A v \in Versions :
    /\ vs[v].there => v <= d + 1
    /\ v < d => vs[v].there /\ ~vs[v].draft
    /\ v = d => vs[v].there
    /\ v = d + 1 /\ vs[v].there => vs[v].draft /\ (d # 0 => ~vs[d].draft)

\* Where a request is, d being the draft.
Placed(q, d, vs) ==
  /\ q.at = "insert" => q.op = "create" /\ d = 0
  /\ q.at \in {"promote", "current", "spawn"} => q.op = "publish" /\ q.v \in 1..d
  /\ q.at \in {"current", "spawn"} => vs[q.v].there /\ ~vs[q.v].draft
  /\ q.at = "link" =>
       /\ q.v = d /\ vs[d + 1].there /\ q.op \in {"create", "publish"}
       /\ q.op = "create" => d = 0

OneLinks == \A r, s \in Requests : req[r].at = "link" /\ req[s].at = "link" => r = s

ChainInv ==
  /\ Ordered(form.draft, versions)
  /\ \A r \in Requests : Placed(req[r], form.draft, versions)
  /\ OneLinks

\* What a publish holds of the row it read, or knows to have changed.
Copied(q, vs, what, why) ==
  /\ q.at = "promote" => q.schema = vs[q.v].schema \/ "copy" \in what
  /\ q.at \in {"current", "spawn"} => q.schema = vs[q.v].schema \/ "copy" \in why[q.v]

CopyInv == \A r \in Requests : Copied(req[r], versions, missed[r], flaws)

CloneInv == CopyInv /\ NextDraftIsAClone

\* A request that has the draft's successor to make.
Carries(q, d) == q.at \in {"insert", "link"} \/ (q.at \in {"current", "spawn"} /\ q.v = d)

Successor ==
  form.draft + 1 \in Versions /\ versions[form.draft + 1].there =>
    form.draft \in cut \/ \E r \in Requests : req[r].at = "link"
DraftInv ==
  form.status # "none" =>
    \/ form.draft \in cut \/ (form.draft # 0 /\ versions[form.draft].draft)
    \/ \E r \in Requests : Carries(req[r], form.draft)
TurnInv ==
  \A r \in Requests :
    req[r].at \in {"promote", "current"} /\ req[r].v < form.draft => "turn" \in missed[r]
CurrentInv ==
  \A m \in Promotions : (\A v \in Promotions : v <= m) =>
    \/ form.current = m \/ reverted \/ m \in cut
    \/ \E r \in Requests : req[r].at = "current" /\ req[r].v = m
EndInv == Successor /\ DraftInv /\ TurnInv /\ CurrentInv

-----------------------------------------------------------------------------
\* What the calls do, as far as those invariants tell.

Others(r) == \A s \in Requests \ {r} : req'[s] = req[s]
MissedGrows == \A s \in Requests : missed[s] \subseteq missed'[s]

\* r ends before the work that is its to do, and the draft is known to be cut.
Excused(r) ==
  /\ req[r].at \in {"insert", "link"} => form.draft \in cut'
  /\ req[r].at \in {"current", "spawn"} => req[r].v \in cut'

\* Only r is elsewhere, at no stage that matters.
Calm(r) ==
  /\ versions' = versions /\ flaws' = flaws /\ fresh' = fresh /\ reverted' = reverted
  /\ form'.draft = form.draft /\ form'.current = form.current /\ form.status # "none"
  /\ cut \subseteq cut' /\ Others(r) /\ \A s \in Requests \ {r} : missed'[s] = missed[s]
  /\ req'[r].at \notin {"insert", "promote", "current", "spawn", "link"}

\* The next number was taken.
Refused(r) == req[r].at = "spawn" /\ versions[req[r].v + 1].there /\ cut' = cut

\* r is at the next stage with what it held, or has ended with v cut.
GoesTo(r, stage, v) ==
  \/ /\ req'[r].at = stage /\ cut' = cut
     /\ req'[r].v = req[r].v /\ req'[r].op = req[r].op /\ req'[r].schema = req[r].schema
  \/ req'[r] = Idle /\ cut \subseteq cut' /\ v \in cut'

Created(r) ==
  /\ versions' = versions /\ flaws' = flaws /\ fresh' = fresh /\ reverted' = reverted
  /\ missed' = missed /\ form'.draft = 0 /\ form.draft = 0 /\ ~versions[1].there
  /\ \A s \in Requests : req[s] = Idle
  /\ Others(r)
  /\ \/ req'[r].at = "insert" /\ req'[r].op = "create"
     \/ req'[r] = Idle /\ 0 \in cut'

Inserted(r) ==
  /\ flaws' = flaws /\ fresh' = fresh /\ reverted' = reverted /\ missed' = missed /\ form' = form
  /\ req[r].at = "insert" /\ req[r].v = 0 /\ form.draft = 0 /\ form.status # "none"
  /\ \A s \in Requests \ {r} : req[s] = Idle
  /\ Others(r) /\ GoesTo(r, "link", 0)
  /\ ~versions[1].there /\ versions'[1] = Row(Empty)
  /\ \A w \in Versions \ {1} : versions'[w] = versions[w]

Wrote(r) ==
  /\ flaws' = flaws /\ reverted' = reverted /\ form' = form /\ cut' = cut
  /\ form.status # "none" /\ fresh' = fresh \ {req[r].v} /\ req[r].at = "write"
  /\ Others(r) /\ req'[r].at \in {"idle", "read"} /\ MissedGrows
  /\ \A w \in Versions :
       /\ versions'[w].there = versions[w].there /\ versions'[w].draft = versions[w].draft
       /\ ~versions[w].draft \/ w # req[r].v => versions'[w] = versions[w]
  /\ \/ versions' = versions
     \/ \A s \in Requests \ {r} : req[s].at = "promote" => "copy" \in missed'[s]

Reads(r) ==
  /\ versions' = versions /\ flaws' = flaws /\ fresh' = fresh /\ reverted' = reverted
  /\ missed' = missed /\ form' = form /\ cut' = cut /\ req[r].at = "read" /\ form.status # "none"
  /\ form.draft \in Versions /\ Others(r)
  /\ req'[r].at = "promote" /\ req'[r].op = "publish" /\ req'[r].v = form.draft
  /\ req'[r].schema = versions[form.draft].schema

Promoted(r) ==
  /\ form' = form /\ fresh' = fresh /\ reverted' = reverted /\ form.status # "none"
  /\ MissedGrows /\ missed'[r] = missed[r] /\ req[r].at = "promote"
  /\ \A w \in Versions : flaws[w] \subseteq flaws'[w]
  /\ missed[r] \ {"turn"} \subseteq flaws'[req[r].v]
  /\ Others(r) /\ GoesTo(r, "current", req[r].v)
  /\ req[r].v \in Versions
  /\ versions[req[r].v].there /\ versions'[req[r].v].there /\ ~versions'[req[r].v].draft
  /\ versions'[req[r].v].schema = versions[req[r].v].schema
  /\ \A w \in Versions \ {req[r].v} : versions'[w] = versions[w]

Sets(r) ==
  /\ versions' = versions /\ flaws' = flaws /\ fresh' = fresh /\ missed' = missed
  /\ form'.draft = form.draft /\ form'.current = req[r].v /\ form.status # "none"
  /\ reverted' = ("turn" \in missed[r]) /\ req[r].at = "current"
  /\ Others(r) /\ GoesTo(r, "spawn", req[r].v)

Spawned(r) ==
  /\ flaws' = flaws /\ fresh' = fresh /\ reverted' = reverted /\ missed' = missed /\ form' = form
  /\ req[r].at = "spawn" /\ form.status # "none" /\ req[r].v \in Versions
  /\ Others(r) /\ GoesTo(r, "link", req[r].v)
  /\ req[r].v + 1 \in Versions /\ ~versions[req[r].v + 1].there
  /\ versions'[req[r].v + 1] = Row(req[r].schema)
  /\ \A w \in Versions \ {req[r].v + 1} : versions'[w] = versions[w]

Linked(r) ==
  /\ versions' = versions /\ flaws' = flaws /\ fresh' = fresh /\ reverted' = reverted
  /\ form'.draft = req[r].v + 1 /\ form'.current = form.current /\ form.status # "none"
  /\ cut \subseteq cut' /\ req[r].at = "link" /\ Others(r) /\ MissedGrows
  /\ \A s \in Requests \ {r} : req[s].at \in {"promote", "current"} => "turn" \in missed'[s]
  /\ req'[r].at \in {"idle", "stamp"}

Restatus ==
  /\ versions' = versions /\ flaws' = flaws /\ fresh' = fresh /\ reverted' = reverted
  /\ missed' = missed /\ req' = req /\ cut' = cut /\ form.status # "none"
  /\ form'.draft = form.draft /\ form'.current = form.current

LEMMA Becomes ==
  ASSUME SoundInv, NEW r \in Requests, NEW q, Become(r, q)
  PROVE  req'[r] = q /\ Others(r)
BY DEF SoundInv, TypeInv, TypeOK, Become, Others

\* A row lost before its successor was linked is cut.
LEMMA FailedExcuses ==
  ASSUME SoundInv, ChainInv, NEW r \in Requests, Failed(r)
  PROVE  req'[r] = Idle /\ Others(r) /\ cut \subseteq cut' /\ Excused(r)
<1>1. req'[r] = Idle /\ Others(r)
  BY Becomes DEF Failed
<1>2. cut \subseteq cut' /\ Excused(r)
  BY DEF Failed, Excused, ChainInv, Placed
<1> QED BY <1>1, <1>2

LEMMA AtWork ==
  ASSUME SoundInv, NEW r \in Requests, req[r] # Idle \/ form.draft # 0
  PROVE  form.status # "none"
BY NobodyInserts DEF SoundInv

\* A failed call that did nothing, and an eviction.
LEMMA FailedCalm ==
  ASSUME SoundInv, ChainInv, NEW r \in Requests, Failed(r), req[r] # Idle,
         UNCHANGED <<form, versions, fresh, missed, flaws, reverted>>
  PROVE  Calm(r) /\ Excused(r)
<1>1. req'[r].at = "idle"
  BY FailedExcuses DEF Idle
<1> QED BY <1>1, FailedExcuses, AtWork DEF Calm

\* Every action is one of them.

LEMMA ReadingCalm ==
  ASSUME SoundInv, NEW r \in Requests, NEW q, Become(r, q),
         req[r].at \notin {"insert", "link", "current", "spawn"},
         q.at \notin {"insert", "promote", "current", "spawn", "link"},
         form.status # "none", form'.draft = form.draft, form'.current = form.current,
         UNCHANGED <<versions, fresh, flaws, reverted>>, cut \subseteq cut',
         \A s \in Requests \ {r} : missed'[s] = missed[s]
  PROVE  Calm(r) /\ Excused(r)
<1>1. req'[r] = q /\ Others(r)
  BY Becomes
<1> QED BY <1>1 DEF Calm, Excused

LEMMA CreateIs == ASSUME SoundInv, NEW r \in Requests, Create(r) PROVE Created(r)
<1> DEFINE q == [Idle EXCEPT !.op = "create", !.at = "insert"]
<1>1. /\ UNCHANGED <<versions, fresh, missed, flaws, reverted>>
      /\ form = NoForm /\ form' = [NoForm EXCEPT !.status = "draft"]
      /\ (Become(r, q)) \/ (req' = req /\ cut' = {0})
  BY DEF Create
<1>2. form.draft = 0 /\ form'.draft = 0 /\ form.status = "none"
  BY <1>1 DEF NoForm
<1>3. ~versions[1].there /\ \A s \in Requests : req[s] = Idle
  BY <1>2 DEF SoundInv, TypeInv, Alone
<1>4. q.at = "insert" /\ q.op = "create"
  BY DEF Idle
<1>5. Others(r) /\ ((req'[r] = q) \/ (req'[r] = Idle /\ 0 \in cut'))
  <2>1. CASE Become(r, q)
    BY <2>1, Becomes
  <2>2. CASE req' = req /\ cut' = {0}
    BY <1>3, <2>2 DEF Others
  <2> QED BY <1>1, <2>1, <2>2
<1> QED BY <1>1, <1>2, <1>3, <1>4, <1>5 DEF Created

LEMMA SaveDraftIs ==
  ASSUME SoundInv, NEW r \in Requests, NEW schema \in Schema, SaveDraft(r, schema)
  PROVE  Calm(r) /\ Excused(r)
<1> DEFINE q == [Idle EXCEPT !.op = "save", !.at = "write", !.v = form.draft, !.schema = schema]
<1>1. q.at = "write" /\ Idle.at = "idle"
  BY DEF Idle
<1>2. req[r] = Idle /\ form.draft # 0 /\ Become(r, q)
      /\ UNCHANGED <<form, versions, fresh, missed, flaws, reverted, cut>>
  BY DEF SaveDraft
<1>3. form.status # "none"
  BY <1>2, AtWork
<1> QED BY <1>1, <1>2, <1>3, ReadingCalm

LEMMA StartPublishIs ==
  ASSUME SoundInv, NEW r \in Requests, StartPublish(r) PROVE Calm(r) /\ Excused(r)
<1> DEFINE q == [Idle EXCEPT !.op = "publish", !.at = "scope",
                             !.schema = versions[form.draft].schema]
<1>1. q.at = "scope" /\ Idle.at = "idle"
  BY DEF Idle
<1>2. req[r] = Idle /\ form.draft # 0 /\ Become(r, q) /\ missed' = [missed EXCEPT ![r] = {}]
      /\ UNCHANGED <<form, versions, fresh, flaws, reverted, cut>>
  BY DEF StartPublish
<1>3. form.status # "none" /\ \A s \in Requests \ {r} : missed'[s] = missed[s]
  BY <1>2, AtWork DEF SoundInv, TypeInv, TypeOK
<1> QED BY <1>1, <1>2, <1>3, ReadingCalm

LEMMA ReadScopeIs ==
  ASSUME SoundInv, NEW r \in Requests, ReadScope(r) PROVE Calm(r) /\ Excused(r)
<1>1. /\ UNCHANGED <<form, versions, fresh, missed, flaws, reverted, cut>>
      /\ req[r].at = "scope" /\ req[r] \in Request
  BY DEF ReadScope, SoundInv, TypeInv, TypeOK
<1>2. form.status # "none"
  BY <1>1, AtWork DEF Idle
<1>3. /\ [req[r] EXCEPT !.at = "read"].at = "read"
      /\ [req[r] EXCEPT !.at = "read", !.key = TRUE].at = "read"
      /\ [req[r] EXCEPT !.at = "find", !.schema.site = TRUE].at = "find"
  BY <1>1 DEF Request
<1>4. PICK q : Become(r, q) /\ q.at \in {"read", "find"}
  BY <1>3 DEF ReadScope
<1> QED BY <1>1, <1>2, <1>4, ReadingCalm

LEMMA FindDraftIs ==
  ASSUME SoundInv, NEW r \in Requests, FindDraft(r) PROVE Calm(r) /\ Excused(r)
<1>1. /\ UNCHANGED <<form, versions, fresh, missed, flaws, reverted, cut>>
      /\ req[r].at = "find" /\ req[r] \in Request
  BY DEF FindDraft, SoundInv, TypeInv, TypeOK
<1>2. form.status # "none"
  BY <1>1, AtWork DEF Idle
<1>3. [req[r] EXCEPT !.at = "write", !.v = form.draft].at = "write" /\ Injected(req[r], FALSE).at = "read"
  BY <1>1 DEF Request, Injected
<1>4. PICK q : Become(r, q) /\ q.at \in {"read", "write"}
  BY <1>3 DEF FindDraft
<1> QED BY <1>1, <1>2, <1>4, ReadingCalm

LEMMA ReadDraftIs ==
  ASSUME SoundInv, NEW r \in Requests, ReadDraft(r)
  PROVE  (Calm(r) /\ Excused(r)) \/ Reads(r)
<1> DEFINE v == form.draft
           q == [req[r] EXCEPT !.at = "promote", !.v = v, !.schema = versions[v].schema]
<1>1. /\ UNCHANGED <<form, versions, fresh, missed, flaws, reverted, cut>>
      /\ req[r].at = "read" /\ req[r] \in Request
      /\ Become(r, q) \/ Become(r, Idle)
  BY DEF ReadDraft, SoundInv, TypeInv, TypeOK
<1>2. form.status # "none" /\ v \in Versions
  BY <1>1, AtWork, BoundsAssumption DEF Idle, SoundInv, TypeInv, TypeOK, Drafted, Versions
<1>3. CASE Become(r, Idle)
  <2>1. Idle.at = "idle"
    BY DEF Idle
  <2> QED BY <1>1, <1>2, <1>3, <2>1, ReadingCalm
<1>4. CASE Become(r, q)
  <2>1. req[r].op = "publish"
    BY <1>1 DEF SoundInv, RequestInv, Held
  <2>2. q.at = "promote" /\ q.op = "publish" /\ q.v = v /\ q.schema = versions[v].schema
    BY <1>1, <2>1 DEF Request
  <2>3. req'[r] = q /\ Others(r)
    BY <1>4, Becomes
  <2> QED BY <1>1, <1>2, <2>2, <2>3 DEF Reads
<1> QED BY <1>1, <1>3, <1>4

LEMMA StampScopeIs ==
  ASSUME SoundInv, ChainInv, NEW r \in Requests, StampScope(r) PROVE Calm(r) /\ Excused(r)
<1>1. /\ UNCHANGED <<versions, fresh, missed, flaws, reverted>>
      /\ form' = form \/ form' = [form EXCEPT !.scope = TRUE]
      /\ req[r].at = "stamp"
      /\ (Become(r, Idle) /\ cut' = cut) \/ Failed(r)
  BY DEF StampScope, Call
<1>2. form'.draft = form.draft /\ form'.current = form.current /\ form.status # "none"
  BY <1>1, AtWork DEF Idle, SoundInv, TypeInv, TypeOK
<1>3. Become(r, Idle) /\ cut \subseteq cut' /\ Idle.at = "idle"
  BY <1>1, FailedExcuses DEF Failed, Idle
<1> QED BY <1>1, <1>2, <1>3, ReadingCalm

LEMMA EvictIs ==
  ASSUME SoundInv, ChainInv, NEW r \in Requests, Evict(r) PROVE Calm(r) /\ Excused(r)
BY FailedCalm DEF Evict

LEMMA SetStatusIs ==
  ASSUME SoundInv, NEW status \in {"published", "archived"}, SetStatus(status)
  PROVE  Restatus
<1>1. /\ UNCHANGED <<versions, req, fresh, missed, flaws, reverted, cut>>
      /\ form' = [form EXCEPT !.status = status] /\ form.status # "none"
  BY DEF SetStatus
<1> QED BY <1>1 DEF Restatus, SoundInv, TypeInv, TypeOK

LEMMA InsertFirstIs ==
  ASSUME SoundInv, ChainInv, NEW r \in Requests, InsertFirst(r)
  PROVE  (Calm(r) /\ Excused(r)) \/ Inserted(r)
<1> DEFINE q == [req[r] EXCEPT !.at = "link"]
<1>1. /\ UNCHANGED <<form, fresh, missed, flaws, reverted>>
      /\ req[r].at = "insert" /\ req[r] \in Request
      /\ \/ /\ versions' = [versions EXCEPT ![1] = Row(Empty)]
            /\ (Become(r, q) /\ cut' = cut) \/ Failed(r)
         \/ versions' = versions /\ Failed(r)
  BY DEF InsertFirst, Call, SoundInv, TypeInv, TypeOK
<1>2. form.status # "none" /\ req[r] # Idle
  BY <1>1, AtWork DEF Idle
<1>3. CASE versions' = versions /\ Failed(r)
  BY <1>1, <1>2, <1>3, FailedCalm
<1>4. CASE /\ versions' = [versions EXCEPT ![1] = Row(Empty)]
           /\ (Become(r, q) /\ cut' = cut) \/ Failed(r)
  <2>1. /\ req[r].v = 0 /\ form.draft = 0 /\ ~versions[1].there
        /\ \A s \in Requests \ {r} : req[s] = Idle
    BY <1>1 DEF SoundInv, TypeInv, Fine, Alone
  <2>2. versions'[1] = Row(Empty) /\ \A w \in Versions \ {1} : versions'[w] = versions[w]
    BY <1>4, BoundsAssumption DEF SoundInv, TypeInv, TypeOK, Versions
  <2>3. q.at = "link" /\ q.v = req[r].v /\ q.op = req[r].op /\ q.schema = req[r].schema
    BY <1>1 DEF Request
  <2>4. Others(r) /\ GoesTo(r, "link", 0)
    <3>1. CASE Become(r, q) /\ cut' = cut
      BY <2>3, <3>1, Becomes DEF GoesTo
    <3>2. CASE Failed(r)
      BY <1>1, <2>1, <3>2, FailedExcuses DEF GoesTo, Excused
    <3> QED BY <1>4, <3>1, <3>2
  <2> QED BY <1>1, <1>2, <2>1, <2>2, <2>4 DEF Inserted
<1> QED BY <1>1, <1>3, <1>4

LEMMA WriteDraftIs ==
  ASSUME SoundInv, ChainInv, NEW r \in Requests, WriteDraft(r)
  PROVE  (Calm(r) /\ Excused(r)) \/ Wrote(r)
<1> DEFINE v == req[r].v
           After(done) == IF req[r].op = "save" THEN Idle ELSE Injected(req[r], done)
<1>1. /\ UNCHANGED <<form, flaws, reverted, cut>>
      /\ req[r].at = "write" /\ req[r] \in Request
      /\ Become(r, After(TRUE)) \/ Become(r, After(FALSE))
  BY DEF WriteDraft, SoundInv, TypeInv, TypeOK
<1>2. \/ /\ versions' = Written(v, req[r].schema) /\ fresh' = fresh \ {v}
         /\ Behind(r, IF versions[v].draft THEN {"check", "copy"} ELSE {})
      \/ UNCHANGED <<versions, fresh, missed>>
  BY DEF WriteDraft
<1>3. PICK q : Become(r, q) /\ q.at \in {"idle", "read"}
  <2>1. Idle.at = "idle" /\ \A done \in BOOLEAN : Injected(req[r], done).at = "read"
    BY <1>1 DEF Idle, Injected, Request
  <2> QED BY <1>1, <2>1
<1>4. form.status # "none"
  BY <1>1, AtWork DEF Idle
<1>5. CASE UNCHANGED <<versions, fresh, missed>>
  BY <1>1, <1>3, <1>4, <1>5, ReadingCalm
<1>6. CASE /\ versions' = Written(v, req[r].schema) /\ fresh' = fresh \ {v}
           /\ Behind(r, IF versions[v].draft THEN {"check", "copy"} ELSE {})
  <2>1. Others(r) /\ req'[r].at \in {"idle", "read"}
    BY <1>3, Becomes
  <2>2. MissedGrows
    BY <1>6, BehindGrows, Halves DEF SoundInv, TypeInv, OthersTyped, MissedGrows
  <2>3. versions \in [Versions -> VersionRow]
    BY Halves DEF SoundInv, TypeInv, OthersTyped
  <2>4. \A w \in Versions :
          /\ versions'[w].there = versions[w].there /\ versions'[w].draft = versions[w].draft
          /\ ~versions[w].draft \/ w # v => versions'[w] = versions[w]
    <3>1. CASE versions[v].draft
      BY <1>6, <2>3, <3>1 DEF Written, VersionRow
    <3>2. CASE ~versions[v].draft
      BY <1>6, <3>2 DEF Written
    <3> QED BY <3>1, <3>2
  <2>5. versions' = versions \/
          \A s \in Requests \ {r} : req[s].at = "promote" => "copy" \in missed'[s]
    <3>1. CASE versions[v].draft
      <4>1. \A s \in Requests : req[s].at = "promote" => req[s].op = "publish"
        BY DEF SoundInv, RequestInv, Held
      <4> QED BY <1>6, <3>1, <4>1 DEF Behind
    <3>2. CASE ~versions[v].draft
      BY <1>6, <3>2 DEF Written
    <3> QED BY <3>1, <3>2
  <2> QED BY <1>1, <1>4, <1>6, <2>1, <2>2, <2>4, <2>5 DEF Wrote
<1> QED BY <1>2, <1>5, <1>6

\* r has read its row.
LEMMA Holding ==
  ASSUME SoundInv, ChainInv, NEW r \in Requests, req[r].at \in {"promote", "current", "spawn"}
  PROVE  /\ req[r] \in Request /\ req[r] # Idle /\ form.status # "none"
         /\ req[r].v \in Versions /\ req[r].v + 1 \in Versions /\ versions[req[r].v].there
         /\ req[r].op = "publish"
         /\ \A stage \in Stages :
              LET q == [req[r] EXCEPT !.at = stage]
              IN q.at = stage /\ q.v = req[r].v /\ q.op = req[r].op /\ q.schema = req[r].schema
<1>1. req[r] # Idle /\ req[r] \in Request /\ req[r].v \in 1..(MaxVersions - 1)
  BY NextStage DEF SoundInv
<1>2. form.status # "none"
  BY <1>1, AtWork
<1>3. req[r].v \in Versions /\ req[r].v + 1 \in Versions
  BY <1>1, BoundsAssumption DEF Versions
<1>4. req[r].op = "publish" /\ versions[req[r].v].there
  BY DEF SoundInv, RequestInv, Held
<1>5. ASSUME NEW stage \in Stages
      PROVE  LET q == [req[r] EXCEPT !.at = stage]
             IN q.at = stage /\ q.v = req[r].v /\ q.op = req[r].op /\ q.schema = req[r].schema
  BY <1>1 DEF Request
<1> QED BY <1>1, <1>2, <1>3, <1>4, <1>5

LEMMA PromoteIs ==
  ASSUME SoundInv, ChainInv, NEW r \in Requests, Promote(r)
  PROVE  (Calm(r) /\ Excused(r)) \/ Promoted(r)
<1> DEFINE v == req[r].v
           q == [req[r] EXCEPT !.at = "current"]
<1>1. /\ UNCHANGED <<form, fresh, reverted>> /\ req[r].at = "promote"
      /\ \/ /\ versions' = [versions EXCEPT ![v].draft = FALSE]
            /\ flaws' = [flaws EXCEPT ![v] =
                 @ \cup (missed[r] \ {"turn"}) \cup IF req[r].key THEN {} ELSE {"left"}]
            /\ Behind(r, {"check"})
            /\ (Become(r, q) /\ cut' = cut) \/ (Become(r, Idle) /\ cut' = cut \cup {v})
         \/ Failed(r) /\ UNCHANGED <<versions, flaws, missed>>
  BY DEF Promote, Go
<1>2. CASE Failed(r) /\ UNCHANGED <<versions, flaws, missed>>
  BY <1>1, <1>2, Holding, FailedCalm
<1>3. CASE /\ versions' = [versions EXCEPT ![v].draft = FALSE]
           /\ flaws' = [flaws EXCEPT ![v] =
                @ \cup (missed[r] \ {"turn"}) \cup IF req[r].key THEN {} ELSE {"left"}]
           /\ Behind(r, {"check"})
           /\ (Become(r, q) /\ cut' = cut) \/ (Become(r, Idle) /\ cut' = cut \cup {v})
  <2>1. /\ v \in Versions /\ versions[v].there /\ form.status # "none"
        /\ q.at = "current" /\ q.v = v /\ q.op = req[r].op /\ q.schema = req[r].schema
    BY <1>1, Holding, Names
  <2>2. /\ versions'[v].there /\ ~versions'[v].draft
        /\ versions'[v].schema = versions[v].schema
        /\ \A w \in Versions \ {v} : versions'[w] = versions[w]
    <3>1. versions \in [Versions -> VersionRow]
      BY Halves DEF SoundInv, TypeInv, OthersTyped
    <3> QED BY <1>3, <2>1, <3>1 DEF VersionRow
  <2>3. (\A w \in Versions : flaws[w] \subseteq flaws'[w]) /\ missed[r] \ {"turn"} \subseteq flaws'[v]
    BY <1>3, <2>1 DEF SoundInv, TypeInv, TypeOK
  <2>4. MissedGrows /\ missed'[r] = missed[r]
    BY <1>3, BehindGrows, Halves DEF SoundInv, TypeInv, OthersTyped, MissedGrows
  <2>5. Others(r) /\ GoesTo(r, "current", v)
    <3>1. CASE Become(r, q) /\ cut' = cut
      BY <2>1, <3>1, Becomes DEF GoesTo
    <3>2. CASE Become(r, Idle) /\ cut' = cut \cup {v}
      BY <3>2, Becomes DEF GoesTo
    <3> QED BY <1>3, <3>1, <3>2
  <2> QED BY <1>1, <2>1, <2>2, <2>3, <2>4, <2>5 DEF Promoted
<1> QED BY <1>1, <1>2, <1>3

LEMMA SetCurrentIs ==
  ASSUME SoundInv, ChainInv, NEW r \in Requests, SetCurrent(r)
  PROVE  (Calm(r) /\ Excused(r)) \/ Sets(r)
<1> DEFINE v == req[r].v
           q == [req[r] EXCEPT !.at = "spawn"]
           Done == form' = [form EXCEPT !.current = v, !.status = "published"]
                   /\ reverted' = ("turn" \in missed[r])
<1>1. /\ UNCHANGED <<versions, fresh, missed, flaws>> /\ req[r].at = "current"
      /\ \/ Done /\ ((Become(r, q) /\ cut' = cut) \/ Failed(r))
         \/ Failed(r) /\ UNCHANGED <<form, reverted>>
  BY DEF SetCurrent, Call
<1>2. CASE Failed(r) /\ UNCHANGED <<form, reverted>>
  BY <1>1, <1>2, Holding, FailedCalm
<1>3. CASE Done /\ ((Become(r, q) /\ cut' = cut) \/ Failed(r))
  <2>1. form.status # "none"
        /\ q.at = "spawn" /\ q.v = v /\ q.op = req[r].op /\ q.schema = req[r].schema
    BY <1>1, Holding, Names
  <2>2. form'.draft = form.draft /\ form'.current = v
    BY <1>3 DEF SoundInv, TypeInv, TypeOK
  <2>3. Others(r) /\ GoesTo(r, "spawn", v)
    <3>1. CASE Become(r, q) /\ cut' = cut
      BY <2>1, <3>1, Becomes DEF GoesTo
    <3>2. CASE Failed(r)
      BY <1>1, <3>2, FailedExcuses DEF GoesTo, Excused
    <3> QED BY <1>3, <3>1, <3>2
  <2> QED BY <1>1, <1>3, <2>1, <2>2, <2>3 DEF Sets
<1> QED BY <1>1, <1>2, <1>3

LEMMA SpawnIs ==
  ASSUME SoundInv, ChainInv, NEW r \in Requests, Spawn(r)
  PROVE  (Calm(r) /\ (Excused(r) \/ Refused(r))) \/ Spawned(r)
<1> DEFINE v == req[r].v + 1
           q == [req[r] EXCEPT !.at = "link"]
<1>1. /\ UNCHANGED <<form, fresh, missed, flaws, reverted>> /\ req[r].at = "spawn"
      /\ \/ versions[v].there /\ Become(r, Idle) /\ UNCHANGED <<versions, cut>>
         \/ /\ ~versions[v].there /\ versions' = [versions EXCEPT ![v] = Row(req[r].schema)]
            /\ (Become(r, q) /\ cut' = cut) \/ Failed(r)
         \/ UNCHANGED versions /\ Failed(r)
  BY DEF Spawn, Call, Copy
<1>2. /\ form.status # "none" /\ req[r] # Idle /\ req[r].v \in Versions /\ v \in Versions
      /\ q.at = "link" /\ q.v = req[r].v /\ q.op = req[r].op /\ q.schema = req[r].schema
  BY <1>1, Holding, Names
<1>3. CASE versions[v].there /\ Become(r, Idle) /\ UNCHANGED <<versions, cut>>
  <2>1. req'[r].at = "idle" /\ Others(r)
    BY <1>3, Becomes DEF Idle
  <2> QED BY <1>1, <1>2, <1>3, <2>1 DEF Calm, Refused
<1>4. CASE UNCHANGED versions /\ Failed(r)
  BY <1>1, <1>2, <1>4, FailedCalm
<1>5. CASE /\ ~versions[v].there /\ versions' = [versions EXCEPT ![v] = Row(req[r].schema)]
           /\ (Become(r, q) /\ cut' = cut) \/ Failed(r)
  <2>1. versions'[v] = Row(req[r].schema) /\ \A w \in Versions \ {v} : versions'[w] = versions[w]
    BY <1>2, <1>5 DEF SoundInv, TypeInv, TypeOK
  <2>2. Others(r) /\ GoesTo(r, "link", req[r].v)
    <3>1. CASE Become(r, q) /\ cut' = cut
      BY <1>2, <3>1, Becomes DEF GoesTo
    <3>2. CASE Failed(r)
      BY <1>1, <3>2, FailedExcuses DEF GoesTo, Excused
    <3> QED BY <1>5, <3>1, <3>2
  <2> QED BY <1>1, <1>2, <1>5, <2>1, <2>2 DEF Spawned
<1> QED BY <1>1, <1>3, <1>4, <1>5

LEMMA LinkIs ==
  ASSUME SoundInv, ChainInv, NEW r \in Requests, Link(r)
  PROVE  (Calm(r) /\ Excused(r)) \/ Linked(r)
<1> DEFINE q == IF req[r].key THEN [req[r] EXCEPT !.at = "stamp"] ELSE Idle
<1>1. /\ UNCHANGED <<versions, fresh, flaws, reverted>> /\ req[r].at = "link" /\ req[r] \in Request
      /\ \/ /\ form' = [form EXCEPT !.draft = req[r].v + 1] /\ Behind(r, {"check", "turn"})
            /\ (Become(r, q) /\ cut' = cut) \/ Failed(r)
         \/ UNCHANGED <<form, missed>> /\ Failed(r)
  BY DEF Link, Call, NewDraft, SoundInv, TypeInv, TypeOK
<1>2. form.status # "none" /\ req[r] # Idle
  BY <1>1, AtWork DEF Idle
<1>3. CASE UNCHANGED <<form, missed>> /\ Failed(r)
  BY <1>1, <1>2, <1>3, FailedCalm
<1>4. CASE /\ form' = [form EXCEPT !.draft = req[r].v + 1] /\ Behind(r, {"check", "turn"})
           /\ (Become(r, q) /\ cut' = cut) \/ Failed(r)
  <2>1. form'.draft = req[r].v + 1 /\ form'.current = form.current
    BY <1>4 DEF SoundInv, TypeInv, TypeOK
  <2>2. /\ MissedGrows
        /\ \A s \in Requests \ {r} : req[s].at \in {"promote", "current"} => "turn" \in missed'[s]
    <3>1. \A s \in Requests : req[s].at \in {"promote", "current"} => req[s].op = "publish"
      BY DEF SoundInv, RequestInv, Held
    <3>2. \A s \in Requests \ {r} : req[s].at \in {"promote", "current"} => "turn" \in missed'[s]
      BY <1>4, <3>1 DEF Behind
    <3>3. MissedGrows
      BY <1>4, BehindGrows, Halves DEF SoundInv, TypeInv, OthersTyped, MissedGrows
    <3> QED BY <3>2, <3>3
  <2>3. Others(r) /\ cut \subseteq cut' /\ req'[r].at \in {"idle", "stamp"}
    <3>1. q.at \in {"idle", "stamp"} /\ Idle.at = "idle"
      BY <1>1 DEF Request, Idle
    <3>2. CASE Become(r, q) /\ cut' = cut
      BY <3>1, <3>2, Becomes
    <3>3. CASE Failed(r)
      BY <3>1, <3>3, FailedExcuses
    <3> QED BY <1>4, <3>2, <3>3
  <2> QED BY <1>1, <1>2, <2>1, <2>2, <2>3 DEF Linked
<1> QED BY <1>1, <1>3, <1>4

\* What a step of r is.
Effect(r) ==
  \/ Calm(r) /\ (Excused(r) \/ Refused(r))
  \/ Created(r) \/ Inserted(r) \/ Wrote(r) \/ Reads(r)
  \/ Promoted(r) \/ Sets(r) \/ Spawned(r) \/ Linked(r)

LEMMA Effects ==
  ASSUME SoundInv, ChainInv, Next
  PROVE  Restatus \/ \E r \in Requests : Effect(r)
<1>1. ASSUME NEW status \in {"published", "archived"}, SetStatus(status) PROVE Restatus
  BY <1>1, SetStatusIs
<1>2. ASSUME NEW r \in Requests,
             \/ Create(r) \/ InsertFirst(r) \/ \E schema \in Schema : SaveDraft(r, schema)
             \/ WriteDraft(r) \/ StartPublish(r) \/ ReadScope(r) \/ FindDraft(r)
      PROVE  Effect(r)
  BY <1>2, CreateIs, InsertFirstIs, SaveDraftIs, WriteDraftIs, StartPublishIs, ReadScopeIs,
     FindDraftIs DEF Effect
<1>3. ASSUME NEW r \in Requests,
             \/ ReadDraft(r) \/ Promote(r) \/ SetCurrent(r) \/ Spawn(r) \/ Link(r)
             \/ StampScope(r) \/ Evict(r)
      PROVE  Effect(r)
  BY <1>3, ReadDraftIs, PromoteIs, SetCurrentIs, SpawnIs, LinkIs, StampScopeIs, EvictIs DEF Effect
<1> QED BY <1>1, <1>2, <1>3 DEF Next

-----------------------------------------------------------------------------
\* The chain is kept.

LEMMA ChainInit == Init => ChainInv
<1> SUFFICES ASSUME Init PROVE ChainInv
  OBVIOUS
<1>1. Ordered(form.draft, versions)
  BY BoundsAssumption DEF Init, Ordered, NoForm, Absent, Versions
<1>2. (\A r \in Requests : Placed(req[r], form.draft, versions)) /\ OneLinks
  BY DEF Init, Placed, OneLinks, Idle
<1> QED BY <1>1, <1>2 DEF ChainInv

LEMMA Chained ==
  ASSUME ChainInv, NEW r \in Requests, Others(r),
         Ordered(form'.draft, versions'),
         Placed(req'[r], form'.draft, versions'),
         \A s \in Requests \ {r} : Placed(req[s], form'.draft, versions'),
         req'[r].at = "link" => \A s \in Requests \ {r} : req[s].at # "link"
  PROVE  ChainInv'
<1>1. \A s \in Requests : Placed(req'[s], form'.draft, versions')
  BY DEF Others
<1>2. OneLinks'
  BY DEF Others, ChainInv, OneLinks
<1> QED BY <1>1, <1>2 DEF ChainInv

\* A request at none of the stages is nowhere.
LEMMA Nowhere ==
  ASSUME NEW q, q.at \notin {"insert", "promote", "current", "spawn", "link"}, NEW d, NEW vs
  PROVE  Placed(q, d, vs)
BY DEF Placed

LEMMA CalmChain == ASSUME SoundInv, ChainInv, NEW r \in Requests, Calm(r) PROVE ChainInv'
BY Chained, Nowhere DEF Calm, ChainInv

LEMMA CreatedChain == ASSUME SoundInv, ChainInv, NEW r \in Requests, Created(r) PROVE ChainInv'
<1>1. Ordered(form'.draft, versions')
  BY DEF ChainInv, Created
<1>2. \A d, vs : Placed(Idle, d, vs)
  BY Nowhere DEF Idle
<1>3. Placed(req'[r], form'.draft, versions') /\ req'[r].at # "link"
  BY <1>2 DEF Created, Placed, Idle
<1> QED BY <1>1, <1>2, <1>3, Chained DEF Created

LEMMA InsertedChain ==
  ASSUME SoundInv, ChainInv, NEW r \in Requests, Inserted(r) PROVE ChainInv'
<1>1. versions'[1].there /\ versions'[1].draft
  BY DEF Inserted, Row
<1>2. Ordered(0, versions')
  BY <1>1 DEF ChainInv, Ordered, Inserted, Versions
<1>3. \A d, vs : Placed(Idle, d, vs)
  BY Nowhere DEF Idle
<1>4. Placed(req'[r], 0, versions')
  <2>1. req[r].op = "create"
    BY DEF Inserted, ChainInv, Placed
  <2>2. CASE req'[r] = Idle
    BY <1>3, <2>2
  <2>3. CASE req'[r].at = "link" /\ req'[r].v = 0 /\ req'[r].op = "create"
    BY <1>1, <2>3 DEF Placed
  <2> QED BY <2>1, <2>2, <2>3 DEF Inserted, GoesTo
<1>5. \A s \in Requests \ {r} : req[s].at # "link"
  BY DEF Inserted, Idle
<1> QED BY <1>2, <1>3, <1>4, <1>5, Chained DEF Inserted

LEMMA DraftIs ==
  ASSUME SoundInv
  PROVE  form.draft \in 0..MaxVersions /\ form.draft \in Nat /\ MaxVersions \in Nat
         /\ versions \in [Versions -> VersionRow]
BY BoundsAssumption, Halves DEF SoundInv, TypeInv, TypeOK, OthersTyped

\* Where rows keep what they are but for their schema, so do the requests.
LEMMA PlacedStays ==
  ASSUME SoundInv, ChainInv, NEW s \in Requests,
         form'.draft = form.draft,
         \A w \in Versions :
           versions[w].there =>
             versions'[w].there /\ (~versions[w].draft => ~versions'[w].draft)
  PROVE  Placed(req[s], form'.draft, versions')
<1>1. Placed(req[s], form.draft, versions)
  BY DEF ChainInv
<1>2. req[s].at \in {"current", "spawn"} => req[s].v \in Versions
  BY Holding
<1>3. req[s].at = "link" => form.draft + 1 \in Versions
  BY <1>1, BoundsAssumption, DraftIs DEF SoundInv, TypeInv, Fine, Placed, Versions
<1> QED BY <1>1, <1>2, <1>3 DEF Placed

LEMMA WroteChain == ASSUME SoundInv, ChainInv, NEW r \in Requests, Wrote(r) PROVE ChainInv'
<1>1. form' = form /\ \A w \in Versions :
        versions'[w].there = versions[w].there /\ versions'[w].draft = versions[w].draft
  BY DEF Wrote
<1>2. Ordered(form'.draft, versions')
  <2>1. form.draft # 0 => form.draft \in Versions
    BY DraftIs DEF Versions
  <2> QED BY <1>1, <2>1 DEF ChainInv, Ordered
<1>3. \A s \in Requests : Placed(req[s], form'.draft, versions')
  BY <1>1, PlacedStays
<1>4. Placed(req'[r], form'.draft, versions') /\ req'[r].at # "link"
  BY Nowhere DEF Wrote
<1> QED BY <1>2, <1>3, <1>4, Chained DEF Wrote

LEMMA ReadsChain == ASSUME SoundInv, ChainInv, NEW r \in Requests, Reads(r) PROVE ChainInv'
<1>1. form.draft \in 1..form.draft
  BY DraftIs DEF Reads, Versions
<1>2. Placed(req'[r], form.draft, versions) /\ req'[r].at # "link"
  BY <1>1 DEF Reads, Placed
<1> QED BY <1>2, Chained DEF Reads, ChainInv

LEMMA PromotedChain ==
  ASSUME SoundInv, ChainInv, NEW r \in Requests, Promoted(r) PROVE ChainInv'
<1> DEFINE v == req[r].v  d == form.draft
<1>1. v \in 1..d /\ req[r].op = "publish"
  BY DEF Promoted, ChainInv, Placed
<1>2. \A w \in Versions :
        versions[w].there => versions'[w].there /\ (~versions[w].draft => ~versions'[w].draft)
  BY DEF Promoted
<1>3. Ordered(d, versions')
  <2>1. \A w \in Versions : versions'[w].there = versions[w].there
    BY DraftIs DEF Promoted, VersionRow
  <2>2. \A w \in Versions : w = d + 1 => versions'[w] = versions[w]
    BY <1>1, DraftIs DEF Promoted
  <2>3. d # 0 => d \in Versions
    BY DraftIs DEF Versions
  <2>4. d # 0 /\ ~versions[d].draft => ~versions'[d].draft
    BY <2>3 DEF Promoted
  <2> QED BY <1>1, <1>2, <2>1, <2>2, <2>3, <2>4 DEF ChainInv, Ordered
<1>4. \A s \in Requests : Placed(req[s], d, versions')
  BY <1>2, PlacedStays DEF Promoted
<1>5. Placed(req'[r], d, versions') /\ req'[r].at # "link"
  <2>1. CASE req'[r] = Idle
    BY <2>1, Nowhere DEF Idle
  <2>2. CASE req'[r].at = "current" /\ req'[r].v = v /\ req'[r].op = req[r].op
    BY <1>1, <2>2 DEF Promoted, Placed
  <2> QED BY <2>1, <2>2 DEF Promoted, GoesTo
<1> QED BY <1>3, <1>4, <1>5, Chained DEF Promoted

LEMMA SetsChain == ASSUME SoundInv, ChainInv, NEW r \in Requests, Sets(r) PROVE ChainInv'
<1>1. Placed(req'[r], form.draft, versions) /\ req'[r].at # "link"
  <2>1. CASE req'[r] = Idle
    BY <2>1, Nowhere DEF Idle
  <2>2. CASE req'[r].at = "spawn" /\ req'[r].v = req[r].v /\ req'[r].op = req[r].op
    BY <2>2 DEF Sets, Placed, ChainInv
  <2> QED BY <2>1, <2>2 DEF Sets, GoesTo
<1> QED BY <1>1, Chained DEF Sets, ChainInv

\* Only the draft has no successor yet.
LEMMA SpawnsNext ==
  ASSUME SoundInv, ChainInv, NEW r \in Requests, Spawned(r)
  PROVE  req[r].v = form.draft /\ form.draft # 0 /\ req[r].op = "publish"
         /\ \A s \in Requests : req[s].at # "link"
<1>1. req[r].v \in 1..form.draft /\ req[r].op = "publish"
  BY DEF Spawned, ChainInv, Placed
<1>2. ~(req[r].v < form.draft)
  <2> SUFFICES ASSUME req[r].v < form.draft PROVE FALSE
    OBVIOUS
  <2>1. versions[req[r].v + 1].there
    BY <1>1, DraftIs DEF Spawned, ChainInv, Ordered
  <2> QED BY <2>1 DEF Spawned
<1>3. req[r].v = form.draft /\ form.draft # 0
  BY <1>1, <1>2, DraftIs
<1>4. \A s \in Requests : req[s].at # "link"
  BY <1>3 DEF Spawned, ChainInv, Placed
<1> QED BY <1>1, <1>3, <1>4

LEMMA SpawnedChain ==
  ASSUME SoundInv, ChainInv, NEW r \in Requests, Spawned(r) PROVE ChainInv'
<1> DEFINE d == form.draft
<1>1. req[r].v = d /\ d # 0 /\ req[r].op = "publish" /\ \A s \in Requests : req[s].at # "link"
  BY SpawnsNext
<1>2. versions'[d + 1].there /\ versions'[d + 1].draft /\ ~versions[d + 1].there
      /\ d \in Versions /\ d + 1 \in Versions
      /\ \A w \in Versions \ {d + 1} : versions'[w] = versions[w]
  BY <1>1 DEF Spawned, Row
<1>3. ~versions[d].draft
  BY <1>1 DEF Spawned, ChainInv, Placed
<1>4. Ordered(d, versions')
  BY <1>2, <1>3, DraftIs DEF ChainInv, Ordered, Versions
<1>5. \A s \in Requests : Placed(req[s], d, versions')
  <2>1. \A w \in Versions :
          versions[w].there => versions'[w].there /\ (~versions[w].draft => ~versions'[w].draft)
    BY <1>2
  <2> QED BY <2>1, PlacedStays DEF Spawned
<1>6. Placed(req'[r], d, versions')
  <2>1. CASE req'[r] = Idle
    BY <2>1, Nowhere DEF Idle
  <2>2. CASE req'[r].at = "link" /\ req'[r].v = req[r].v /\ req'[r].op = req[r].op
    BY <1>1, <1>2, <2>2 DEF Placed
  <2> QED BY <2>1, <2>2 DEF Spawned, GoesTo
<1> QED BY <1>1, <1>4, <1>5, <1>6, Chained DEF Spawned

LEMMA LinkedChain == ASSUME SoundInv, ChainInv, NEW r \in Requests, Linked(r) PROVE ChainInv'
<1> DEFINE d == form.draft
<1>1. req[r].v = d /\ versions[d + 1].there /\ form'.draft = d + 1 /\ versions' = versions
      /\ \A s \in Requests \ {r} : req[s].at # "link"
  BY DEF Linked, ChainInv, Placed, OneLinks
<1>2. d + 1 \in Versions
  BY <1>1, DraftIs, BoundsAssumption DEF Linked, SoundInv, TypeInv, Fine, Versions
<1>3. d # 0 => d \in Versions /\ versions[d].there /\ ~versions[d].draft
  BY <1>1, <1>2, DraftIs DEF ChainInv, Ordered, Versions
<1>4. Ordered(d + 1, versions')
  <2> SUFFICES ASSUME NEW w \in Versions
               PROVE  /\ versions[w].there => w <= d + 1 + 1
                      /\ w < d + 1 => versions[w].there /\ ~versions[w].draft
                      /\ w = d + 1 => versions[w].there
                      /\ ~(w = d + 1 + 1 /\ versions[w].there)
    BY <1>1, Zenon DEF Ordered
  <2>1. w \in Nat \ {0}
    BY DEF Versions
  <2>2. versions[w].there => w <= d + 1
    BY DEF ChainInv, Ordered
  <2>3. w < d => versions[w].there /\ ~versions[w].draft
    BY DEF ChainInv, Ordered
  <2> QED BY <1>1, <1>3, <2>1, <2>2, <2>3, DraftIs
<1>5. \A s \in Requests \ {r} : Placed(req[s], d + 1, versions')
  <2> SUFFICES ASSUME NEW s \in Requests \ {r} PROVE Placed(req[s], d + 1, versions)
    BY <1>1
  <2>1. Placed(req[s], d, versions) /\ req[s].at # "link" /\ req[s].at # "insert"
    BY <1>1, NobodyInserts DEF ChainInv, SoundInv, Linked, Idle
  <2>2. \A v \in 1..d : v \in 1..(d + 1)
    BY DraftIs
  <2> QED BY <2>1, <2>2 DEF Placed
<1>6. Placed(req'[r], d + 1, versions') /\ req'[r].at # "link"
  BY Nowhere DEF Linked
<1> QED BY <1>1, <1>4, <1>5, <1>6, Chained DEF Linked

LEMMA RestatusChain == ASSUME ChainInv, Restatus PROVE ChainInv'
BY DEF ChainInv, OneLinks, Restatus

LEMMA ChainStep == SoundInv /\ ChainInv /\ [Next]_vars => ChainInv'
<1> SUFFICES ASSUME SoundInv, ChainInv, [Next]_vars PROVE ChainInv'
  OBVIOUS
<1>1. CASE UNCHANGED vars
  BY <1>1 DEF vars, ChainInv, OneLinks
<1>2. CASE Restatus
  BY <1>2, RestatusChain
<1>3. ASSUME NEW r \in Requests, Effect(r) PROVE ChainInv'
  BY <1>3, CalmChain, CreatedChain, InsertedChain, WroteChain, ReadsChain, PromotedChain,
     SetsChain, SpawnedChain, LinkedChain DEF Effect
<1> QED BY <1>1, <1>2, <1>3, Effects

-----------------------------------------------------------------------------
\* Each version begins as its predecessor was published.

LEMMA CloneInit == Init => CloneInv
BY DEF Init, CloneInv, CopyInv, Copied, NextDraftIsAClone, Idle, Absent, Versions

\* A version that is there has a promoted predecessor.
LEMMA Precedes ==
  ASSUME SoundInv, ChainInv, NEW v \in Versions \ {1}, versions[v].there
  PROVE  v - 1 \in Versions /\ versions[v - 1].there /\ ~versions[v - 1].draft
<1>1. v <= form.draft + 1 /\ v \in Nat /\ v > 1 /\ v - 1 \in Versions
  BY DraftIs DEF ChainInv, Ordered, Versions
<1>2. CASE v - 1 < form.draft
  BY <1>1, <1>2 DEF ChainInv, Ordered
<1>3. CASE v - 1 = form.draft
  BY <1>1, <1>3, DraftIs DEF ChainInv, Ordered
<1> QED BY <1>1, <1>2, <1>3, DraftIs

\* A request at none of the stages holds nothing.
LEMMA HoldsNone ==
  ASSUME NEW q, q.at \notin {"promote", "current", "spawn"}, NEW vs, NEW what, NEW why
  PROVE  Copied(q, vs, what, why)
BY DEF Copied

LEMMA IdleHolds == \A vs, what, why : Copied(Idle, vs, what, why)
BY DEF Idle, Copied

LEMMA Clones ==
  ASSUME CloneInv, NEW r \in Requests, Others(r), NextDraftIsAClone',
         Copied(req'[r], versions', missed'[r], flaws'),
         \A s \in Requests \ {r} : Copied(req[s], versions', missed'[s], flaws')
  PROVE  CloneInv'
BY DEF CloneInv, CopyInv, Others

\* The versions, what is known of them and what was missed of them stay.
LEMMA QuietClone ==
  ASSUME CloneInv, NEW r \in Requests, Others(r), versions' = versions, flaws' = flaws,
         fresh' = fresh, \A s \in Requests \ {r} : missed[s] \subseteq missed'[s],
         Copied(req'[r], versions, missed'[r], flaws)
  PROVE  CloneInv'
<1>1. \A s \in Requests \ {r} : Copied(req[s], versions, missed'[s], flaws)
  BY DEF CloneInv, CopyInv, Copied
<1>2. NextDraftIsAClone'
  BY DEF CloneInv, NextDraftIsAClone
<1> QED BY <1>1, <1>2, Clones

LEMMA CalmClone == ASSUME CloneInv, NEW r \in Requests, Calm(r) PROVE CloneInv'
BY HoldsNone, QuietClone DEF Calm

LEMMA CreatedClone == ASSUME CloneInv, NEW r \in Requests, Created(r) PROVE CloneInv'
BY HoldsNone, IdleHolds, QuietClone DEF Created

LEMMA ReadsClone == ASSUME CloneInv, NEW r \in Requests, Reads(r) PROVE CloneInv'
<1>1. Copied(req'[r], versions, missed'[r], flaws)
  BY DEF Reads, Copied
<1> QED BY <1>1, QuietClone DEF Reads

LEMMA SetsClone == ASSUME CloneInv, NEW r \in Requests, Sets(r) PROVE CloneInv'
<1>1. Copied(req[r], versions, missed[r], flaws)
  BY DEF CloneInv, CopyInv
<1>2. CASE req'[r] = Idle
  BY <1>2, IdleHolds, QuietClone DEF Sets
<1>3. CASE req'[r].at = "spawn" /\ req'[r].v = req[r].v /\ req'[r].schema = req[r].schema
  <2>1. Copied(req'[r], versions, missed'[r], flaws)
    BY <1>1, <1>3 DEF Copied, Sets
  <2> QED BY <2>1, QuietClone DEF Sets
<1> QED BY <1>2, <1>3 DEF Sets, GoesTo

LEMMA LinkedClone == ASSUME CloneInv, NEW r \in Requests, Linked(r) PROVE CloneInv'
BY HoldsNone, QuietClone DEF Linked, MissedGrows

LEMMA RestatusClone == ASSUME CloneInv, Restatus PROVE CloneInv'
BY DEF CloneInv, CopyInv, NextDraftIsAClone, Restatus

LEMMA InsertedClone ==
  ASSUME SoundInv, ChainInv, CloneInv, NEW r \in Requests, Inserted(r) PROVE CloneInv'
<1>1. \A v \in Versions \ {1} : ~versions'[v].there
  BY DEF Inserted, ChainInv, Ordered, Versions
<1>2. NextDraftIsAClone'
  BY <1>1 DEF NextDraftIsAClone
<1>3. Copied(req'[r], versions', missed'[r], flaws')
  BY HoldsNone, IdleHolds DEF Inserted, GoesTo
<1>4. \A s \in Requests \ {r} : Copied(req[s], versions', missed'[s], flaws')
  BY IdleHolds DEF Inserted
<1> QED BY <1>2, <1>3, <1>4, Clones DEF Inserted

\* What a save writes to is nobody's predecessor, and whoever has read it has
\* missed that.
LEMMA WroteClone ==
  ASSUME SoundInv, ChainInv, CloneInv, NEW r \in Requests, Wrote(r) PROVE CloneInv'
<1>1. NextDraftIsAClone'
  <2> SUFFICES ASSUME NEW v \in Versions \ {1}, versions'[v].there, v \in fresh'
               PROVE  versions'[v].schema = versions'[v - 1].schema \/ "copy" \in flaws'[v - 1]
    BY DEF NextDraftIsAClone
  <2>1. versions[v].there /\ v \in fresh /\ v # req[r].v
    BY DEF Wrote
  <2>2. versions'[v] = versions[v]
    BY <2>1 DEF Wrote
  <2>3. versions'[v - 1] = versions[v - 1]
    BY <2>1, Precedes DEF Wrote
  <2> QED BY <2>1, <2>2, <2>3 DEF Wrote, CloneInv, NextDraftIsAClone
<1>2. Copied(req'[r], versions', missed'[r], flaws')
  BY HoldsNone DEF Wrote
<1>3. ASSUME NEW s \in Requests \ {r}
      PROVE  Copied(req[s], versions', missed'[s], flaws')
  <2>1. Copied(req[s], versions, missed[s], flaws) /\ missed[s] \subseteq missed'[s]
    BY DEF CloneInv, CopyInv, Wrote, MissedGrows
  <2>2. CASE versions' = versions
    BY <2>1, <2>2 DEF Copied, Wrote
  <2>3. CASE req[s].at = "promote" => "copy" \in missed'[s]
    <3>1. req[s].at \in {"current", "spawn"} => req[s].v \in Versions /\ ~versions[req[s].v].draft
      BY Holding DEF ChainInv, Placed
    <3>2. req[s].at \in {"current", "spawn"} => versions'[req[s].v] = versions[req[s].v]
      BY <3>1 DEF Wrote
    <3> QED BY <2>1, <2>3, <3>2 DEF Copied, Wrote
  <2> QED BY <2>2, <2>3 DEF Wrote
<1> QED BY <1>1, <1>2, <1>3, Clones DEF Wrote

\* Rows keep their schemas and flaws only grow.
LEMMA PromotedClone ==
  ASSUME SoundInv, ChainInv, CloneInv, NEW r \in Requests, Promoted(r) PROVE CloneInv'
<1>1. \A w \in Versions : versions'[w].schema = versions[w].schema /\ flaws[w] \subseteq flaws'[w]
  BY DEF Promoted
<1>2. \A w \in Versions : versions'[w].there = versions[w].there
  BY DraftIs DEF Promoted, VersionRow
<1>3. NextDraftIsAClone'
  <2> SUFFICES ASSUME NEW v \in Versions \ {1}, versions[v].there, v \in fresh
               PROVE  versions'[v].schema = versions'[v - 1].schema \/ "copy" \in flaws'[v - 1]
    BY <1>2 DEF NextDraftIsAClone, Promoted
  <2>1. v - 1 \in Versions
    BY Precedes
  <2> QED BY <1>1, <2>1 DEF CloneInv, NextDraftIsAClone
<1>4. ASSUME NEW s \in Requests
      PROVE  Copied(req[s], versions', missed'[s], flaws')
  <2>1. Copied(req[s], versions, missed[s], flaws) /\ missed[s] \subseteq missed'[s]
    BY DEF CloneInv, CopyInv, Promoted, MissedGrows
  <2>2. req[s].at \in {"promote", "current", "spawn"} => req[s].v \in Versions
    BY Holding
  <2> QED BY <1>1, <2>1, <2>2 DEF Copied
<1>5. Copied(req'[r], versions', missed'[r], flaws')
  <2>1. CASE req'[r] = Idle
    BY <2>1, IdleHolds
  <2>2. CASE req'[r].at = "current" /\ req'[r].v = req[r].v /\ req'[r].schema = req[r].schema
    <3>1. req[r].schema = versions'[req[r].v].schema \/ "copy" \in missed[r]
      BY <1>4 DEF Copied, Promoted
    <3> QED BY <2>2, <3>1 DEF Copied, Promoted
  <2> QED BY <2>1, <2>2 DEF Promoted, GoesTo
<1> QED BY <1>3, <1>4, <1>5, Clones DEF Promoted

LEMMA SpawnedClone ==
  ASSUME SoundInv, ChainInv, CloneInv, NEW r \in Requests, Spawned(r) PROVE CloneInv'
<1> DEFINE n == req[r].v + 1
<1>1. n \in Versions /\ req[r].v \in Versions /\ req[r].v # n /\ n - 1 = req[r].v
  BY DEF Spawned, Versions
<1>2. ~versions[n].there /\ versions'[n].schema = req[r].schema
      /\ \A w \in Versions \ {n} : versions'[w] = versions[w]
  BY DEF Spawned, Row
<1>3. NextDraftIsAClone'
  <2> SUFFICES ASSUME NEW v \in Versions \ {1}, versions'[v].there, v \in fresh
               PROVE  versions'[v].schema = versions'[v - 1].schema \/ "copy" \in flaws[v - 1]
    BY DEF NextDraftIsAClone, Spawned
  <2>1. CASE v = n
    <3>1. Copied(req[r], versions, missed[r], flaws) /\ req[r].at = "spawn"
      BY DEF CloneInv, CopyInv, Spawned
    <3>2. req[r].schema = versions[req[r].v].schema \/ "copy" \in flaws[req[r].v]
      BY <3>1 DEF Copied
    <3> QED BY <1>1, <1>2, <2>1, <3>2
  <2>2. CASE v # n
    <3>1. versions[v].there /\ versions'[v] = versions[v]
      BY <1>2, <2>2
    <3>2. v - 1 \in Versions /\ v - 1 # n
      BY <1>2, <3>1, Precedes
    <3> QED BY <1>2, <3>1, <3>2 DEF CloneInv, NextDraftIsAClone
  <2> QED BY <2>1, <2>2
<1>4. ASSUME NEW s \in Requests \ {r}
      PROVE  Copied(req[s], versions', missed'[s], flaws')
  <2>1. Copied(req[s], versions, missed[s], flaws)
    BY DEF CloneInv, CopyInv
  <2>2. req[s].at \in {"promote", "current", "spawn"} => versions'[req[s].v] = versions[req[s].v]
    BY <1>2, Holding
  <2> QED BY <2>1, <2>2 DEF Copied, Spawned
<1>5. Copied(req'[r], versions', missed'[r], flaws')
  BY HoldsNone, IdleHolds DEF Spawned, GoesTo
<1> QED BY <1>3, <1>4, <1>5, Clones DEF Spawned

LEMMA CloneStep == SoundInv /\ ChainInv /\ CloneInv /\ [Next]_vars => CloneInv'
<1> SUFFICES ASSUME SoundInv, ChainInv, CloneInv, [Next]_vars PROVE CloneInv'
  OBVIOUS
<1>1. CASE UNCHANGED vars
  BY <1>1 DEF vars, CloneInv, CopyInv, NextDraftIsAClone
<1>2. CASE Restatus
  BY <1>2, RestatusClone
<1>3. ASSUME NEW r \in Requests, Effect(r) PROVE CloneInv'
  BY <1>3, CalmClone, CreatedClone, InsertedClone, WroteClone, ReadsClone, PromotedClone,
     SetsClone, SpawnedClone, LinkedClone DEF Effect
<1> QED BY <1>1, <1>2, <1>3, Effects

\* Nobody having written to it, a draft has what its predecessor was published
\* with: no two publishes interleave so that the next one would take back what
\* this one published, but for the save NextDraftIsAClone names.
THEOREM ClonesDraft == Spec => []NextDraftIsAClone
<1>1. CloneInv => NextDraftIsAClone
  BY DEF CloneInv
<1> QED BY <1>1, SoundInit, SoundStep, ChainInit, ChainStep, CloneInit, CloneStep, PTL DEF Spec

-----------------------------------------------------------------------------
\* The form ends with a draft, and with its newest version current.

\* m is the newest version.
Newest(m, vs) ==
  /\ m \in Versions /\ vs[m].there /\ ~vs[m].draft
  /\ \A v \in Versions : vs[v].there /\ ~vs[v].draft => v <= m

\* Who answers for the newest version.
Current(m) ==
  \/ form.current = m \/ reverted \/ m \in cut
  \/ \E r \in Requests : req[r].at = "current" /\ req[r].v = m

LEMMA CurrentIs == CurrentInv <=> \A m : Newest(m, versions) => Current(m)
BY DEF CurrentInv, Newest, Current, Promotions

LEMMA EndInit == Init => EndInv
<1> SUFFICES ASSUME Init PROVE EndInv
  OBVIOUS
<1>1. Successor
  BY BoundsAssumption DEF Init, Successor, NoForm, Absent, Versions
<1>2. DraftInv /\ TurnInv /\ CurrentInv
  BY DEF Init, DraftInv, TurnInv, CurrentInv, Promotions, NoForm, Absent, Idle
<1> QED BY <1>1, <1>2 DEF EndInv

\* What there is to make or to set is, or is excused, if r leaves what was its
\* to do excused and the others stay.

LEMMA CarriedOn ==
  ASSUME ChainInv, DraftInv, NEW r \in Requests, Others(r),
         Excused(r) \/ ~Carries(req[r], form.draft) \/ Carries(req'[r], form.draft),
         cut \subseteq cut', form.status # "none", form'.draft = form.draft,
         form.draft # 0 /\ versions[form.draft].draft => versions'[form.draft].draft
  PROVE  DraftInv'
<1>1. CASE form.draft \in cut \/ (form.draft # 0 /\ versions[form.draft].draft)
  BY <1>1 DEF DraftInv
<1>2. ASSUME NEW s \in Requests, Carries(req[s], form.draft) PROVE DraftInv'
  <2>1. CASE s # r
    BY <1>2, <2>1 DEF DraftInv, Others
  <2>2. CASE s = r /\ Excused(r)
    BY <1>2, <2>2 DEF DraftInv, Carries, Excused
  <2>3. CASE Carries(req'[r], form.draft)
    BY <2>3 DEF DraftInv
  <2> QED BY <1>2, <2>1, <2>2, <2>3
<1> QED BY <1>1, <1>2 DEF DraftInv

LEMMA SuccessorStays ==
  ASSUME ChainInv, Successor, NEW r \in Requests, Others(r),
         req[r].at = "link" => form.draft \in cut',
         cut \subseteq cut', form'.draft = form.draft,
         \A w \in Versions : versions'[w].there => versions[w].there
  PROVE  Successor'
BY DEF Successor, Others

LEMMA TurnsStay ==
  ASSUME TurnInv, NEW r \in Requests, Others(r), form'.draft = form.draft,
         \A s \in Requests \ {r} : missed[s] \subseteq missed'[s],
         req'[r].at \in {"promote", "current"} /\ req'[r].v < form.draft => "turn" \in missed'[r]
  PROVE  TurnInv'
BY DEF TurnInv, Others

LEMMA CurrentStays ==
  ASSUME CurrentInv, NEW r \in Requests, Others(r),
         req[r].at = "current" => req[r].v \in cut',
         cut \subseteq cut', form'.current = form.current, reverted' = reverted,
         \A w \in Versions : versions'[w].there /\ ~versions'[w].draft
                               <=> versions[w].there /\ ~versions[w].draft
  PROVE  CurrentInv'
<1> SUFFICES ASSUME NEW m, Newest(m, versions') PROVE Current(m)'
  BY DEF CurrentInv, Newest, Current, Promotions
<1>1. Newest(m, versions)
  BY DEF Newest
<1>2. Current(m)
  BY <1>1, CurrentIs
<1> QED BY <1>2 DEF Current, Others

LEMMA CalmEnd ==
  ASSUME SoundInv, ChainInv, EndInv, NEW r \in Requests, Calm(r), Excused(r) \/ Refused(r)
  PROVE  EndInv'
<1>1. Others(r) /\ cut \subseteq cut' /\ versions' = versions /\ form'.draft = form.draft
      /\ form'.current = form.current /\ reverted' = reverted /\ form.status # "none"
      /\ \A s \in Requests \ {r} : missed[s] \subseteq missed'[s]
  BY DEF Calm
<1>2. Successor'
  <2>1. req[r].at = "link" => form.draft \in cut'
    BY DEF Excused, Refused
  <2> QED BY <1>1, <2>1, SuccessorStays DEF EndInv
<1>3. TurnInv'
  BY <1>1, TurnsStay DEF EndInv, Calm
<1>4. CurrentInv'
  <2>1. req[r].at = "current" => req[r].v \in cut'
    BY DEF Excused, Refused
  <2> QED BY <1>1, <2>1, CurrentStays DEF EndInv
<1>5. DraftInv'
  <2>1. CASE Excused(r)
    BY <1>1, <2>1, CarriedOn DEF EndInv
  <2>2. CASE Refused(r) /\ req[r].v # form.draft
    <3>1. ~Carries(req[r], form.draft)
      BY <2>2 DEF Refused, Carries
    <3> QED BY <1>1, <3>1, CarriedOn DEF EndInv
  <2>3. CASE Refused(r) /\ req[r].v = form.draft
    <3>1. form.draft + 1 \in Versions /\ versions[form.draft + 1].there
      BY <2>3, Holding DEF Refused
    <3>2. form.draft \in cut \/ \E s \in Requests : req[s].at = "link"
      BY <3>1 DEF EndInv, Successor
    <3>3. \A s \in Requests : req[s].at = "link" => req'[s].at = "link"
      BY <1>1, <2>3 DEF Refused, Others
    <3> QED BY <1>1, <3>2, <3>3 DEF DraftInv, Carries
  <2> QED BY <2>1, <2>2, <2>3
<1> QED BY <1>2, <1>3, <1>4, <1>5 DEF EndInv

LEMMA CreatedEnd ==
  ASSUME SoundInv, ChainInv, NEW r \in Requests, Created(r) PROVE EndInv'
<1>1. \A v \in Versions : ~versions[v].there
  BY DEF Created, ChainInv, Ordered, Versions
<1>2. Successor' /\ CurrentInv'
  BY <1>1 DEF Created, Successor, CurrentInv, Promotions
<1>3. DraftInv'
  BY DEF Created, DraftInv, Carries
<1>4. TurnInv'
  BY DEF Created, TurnInv, Others, Idle
<1> QED BY <1>2, <1>3, <1>4 DEF EndInv

LEMMA InsertedEnd ==
  ASSUME SoundInv, ChainInv, EndInv, NEW r \in Requests, Inserted(r) PROVE EndInv'
<1>1. 0 \in cut' \/ req'[r].at = "link"
  BY DEF Inserted, GoesTo
<1>2. Successor' /\ DraftInv'
  BY <1>1 DEF Inserted, Successor, DraftInv, Carries
<1>3. \A v \in Versions : ~(versions'[v].there /\ ~versions'[v].draft)
  BY DEF Inserted, ChainInv, Ordered, Versions, Row
<1>4. CurrentInv'
  BY <1>3 DEF CurrentInv, Promotions
<1>5. TurnInv'
  <2>1. \A s \in Requests : req'[s].at \in {"idle", "link"}
    BY DEF Inserted, Others, GoesTo, Idle
  <2> QED BY <2>1 DEF TurnInv
<1> QED BY <1>2, <1>4, <1>5 DEF EndInv

LEMMA WroteEnd ==
  ASSUME SoundInv, ChainInv, EndInv, NEW r \in Requests, Wrote(r) PROVE EndInv'
<1>1. form' = form /\ reverted' = reverted /\ cut' = cut /\ Others(r) /\ MissedGrows
      /\ req[r].at = "write" /\ form.status # "none" /\ req'[r].at \in {"idle", "read"}
      /\ \A w \in Versions :
           versions'[w].there = versions[w].there /\ versions'[w].draft = versions[w].draft
  BY DEF Wrote
<1>2. Successor' /\ TurnInv' /\ CurrentInv'
  BY <1>1, SuccessorStays, TurnsStay, CurrentStays DEF EndInv, MissedGrows
<1>3. DraftInv'
  <2>1. Excused(r)
    BY <1>1 DEF Excused
  <2>2. form.draft # 0 => form.draft \in Versions
    BY DraftIs DEF Versions
  <2> QED BY <1>1, <2>1, <2>2, CarriedOn DEF EndInv
<1> QED BY <1>2, <1>3 DEF EndInv

LEMMA ReadsEnd ==
  ASSUME SoundInv, ChainInv, EndInv, NEW r \in Requests, Reads(r) PROVE EndInv'
<1>1. Excused(r) /\ ~(form.draft < form.draft)
  BY DraftIs DEF Reads, Excused
<1>2. Successor' /\ CurrentInv' /\ DraftInv'
  BY <1>1, SuccessorStays, CurrentStays, CarriedOn DEF Reads, EndInv
<1>3. TurnInv'
  BY <1>1, TurnsStay DEF Reads, EndInv
<1> QED BY <1>2, <1>3 DEF EndInv

LEMMA PromotedEnd ==
  ASSUME SoundInv, ChainInv, EndInv, NEW r \in Requests, Promoted(r) PROVE EndInv'
<1> DEFINE v == req[r].v  d == form.draft
<1>1. /\ form' = form /\ reverted' = reverted /\ Others(r) /\ cut \subseteq cut'
      /\ req[r].at = "promote" /\ form.status # "none" /\ v \in Versions
      /\ (req'[r].at = "current" /\ req'[r].v = v) \/ (req'[r] = Idle /\ v \in cut')
  BY DEF Promoted, GoesTo
<1>2. \A w \in Versions : versions'[w].there = versions[w].there
  BY DraftIs DEF Promoted, VersionRow
<1>3. Successor'
  BY <1>1, <1>2, SuccessorStays DEF EndInv
<1>4. TurnInv'
  <2>1. req'[r].at \in {"promote", "current"} /\ req'[r].v < d => "turn" \in missed'[r]
    BY <1>1 DEF EndInv, TurnInv, Promoted, Idle
  <2> QED BY <1>1, <2>1, TurnsStay DEF EndInv, Promoted, MissedGrows
<1>5. DraftInv'
  <2>1. CASE v = d
    BY <1>1, <2>1 DEF DraftInv, Carries
  <2>2. CASE v # d
    <3>1. d # 0 => versions'[d] = versions[d]
      BY <2>2, DraftIs DEF Promoted, Versions
    <3>2. Excused(r)
      BY <1>1 DEF Excused
    <3> QED BY <1>1, <3>1, <3>2, CarriedOn DEF EndInv
  <2> QED BY <2>1, <2>2
<1>6. CurrentInv'
  <2> SUFFICES ASSUME NEW m, Newest(m, versions') PROVE Current(m)'
    BY DEF CurrentInv, Newest, Current, Promotions
  <2>1. CASE m = v
    BY <1>1, <2>1 DEF Current
  <2>2. CASE m # v
    <3>1. Newest(m, versions)
      BY <2>2 DEF Newest, Promoted
    <3>2. Current(m)
      BY <3>1, CurrentIs DEF EndInv
    <3> QED BY <1>1, <3>2 DEF Current, Others
  <2> QED BY <2>1, <2>2
<1> QED BY <1>3, <1>4, <1>5, <1>6 DEF EndInv

\* Whoever sets an older version has been passed, and knows it.
LEMMA SetsEnd ==
  ASSUME SoundInv, ChainInv, EndInv, NEW r \in Requests, Sets(r) PROVE EndInv'
<1> DEFINE v == req[r].v  d == form.draft
<1>1. /\ versions' = versions /\ form'.draft = d /\ form'.current = v /\ Others(r)
      /\ cut \subseteq cut' /\ req[r].at = "current" /\ form.status # "none" /\ missed' = missed
      /\ (req'[r].at = "spawn" /\ req'[r].v = v) \/ (req'[r] = Idle /\ v \in cut')
  BY DEF Sets, GoesTo
<1>2. Successor'
  BY <1>1, SuccessorStays DEF EndInv
<1>3. TurnInv'
  BY <1>1, TurnsStay DEF EndInv, Idle
<1>4. DraftInv'
  <2>1. Excused(r) \/ ~Carries(req[r], d) \/ Carries(req'[r], d)
    BY <1>1 DEF Excused, Carries
  <2> QED BY <1>1, <2>1, CarriedOn DEF EndInv
<1>5. CurrentInv'
  <2> SUFFICES ASSUME NEW m, Newest(m, versions) PROVE Current(m)'
    BY <1>1 DEF CurrentInv, Newest, Current, Promotions
  <2>1. CASE m = v
    BY <1>1, <2>1 DEF Current
  <2>2. CASE m # v
    <3>1. v \in Versions /\ v <= m
      BY <1>1, Holding DEF ChainInv, Placed, Newest
    <3>2. m \in Versions /\ m <= d + 1 /\ m # d + 1
      BY DEF Newest, ChainInv, Ordered
    <3>3. v < d
      BY <2>2, <3>1, <3>2, DraftIs DEF Versions
    <3>4. reverted'
      BY <1>1, <3>3 DEF EndInv, TurnInv, Sets
    <3> QED BY <3>4 DEF Current
  <2> QED BY <2>1, <2>2
<1> QED BY <1>2, <1>3, <1>4, <1>5 DEF EndInv

LEMMA SpawnedEnd ==
  ASSUME SoundInv, ChainInv, EndInv, NEW r \in Requests, Spawned(r) PROVE EndInv'
<1> DEFINE d == form.draft
<1>1. /\ form' = form /\ reverted' = reverted /\ missed' = missed /\ Others(r) /\ cut \subseteq cut'
      /\ req[r].at = "spawn" /\ req[r].v = d
      /\ req'[r].at = "link" \/ (req'[r] = Idle /\ d \in cut')
  BY SpawnsNext DEF Spawned, GoesTo
<1>2. Successor' /\ DraftInv'
  BY <1>1 DEF Successor, DraftInv, Carries
<1>3. TurnInv'
  BY <1>1, TurnsStay DEF EndInv, Idle
<1>4. \A w \in Versions : versions'[w].there /\ ~versions'[w].draft
                            <=> versions[w].there /\ ~versions[w].draft
  BY DEF Spawned, Row
<1>5. CurrentInv'
  BY <1>1, <1>4, CurrentStays DEF EndInv
<1> QED BY <1>2, <1>3, <1>5 DEF EndInv

LEMMA LinkedEnd ==
  ASSUME SoundInv, ChainInv, EndInv, NEW r \in Requests, Linked(r) PROVE EndInv'
<1> DEFINE d == form.draft
<1>1. req[r].v = d /\ versions[d + 1].there /\ form'.draft = d + 1 /\ versions' = versions
  BY DEF Linked, ChainInv, Placed
<1>2. d + 1 \in Versions /\ d + 1 # 0
  BY <1>1, DraftIs, BoundsAssumption DEF Linked, SoundInv, TypeInv, Fine, Versions
<1>3. DraftInv'
  BY <1>1, <1>2 DEF ChainInv, Ordered, DraftInv
<1>4. Successor'
  <2>1. ASSUME d + 1 + 1 \in Versions PROVE ~versions[d + 1 + 1].there
    BY <2>1, DraftIs DEF ChainInv, Ordered
  <2> QED BY <1>1, <2>1 DEF Successor
<1>5. TurnInv'
  BY DEF Linked, TurnInv, Others
<1>6. CurrentInv'
  BY CurrentStays DEF Linked, EndInv
<1> QED BY <1>3, <1>4, <1>5, <1>6 DEF EndInv

LEMMA RestatusEnd == ASSUME EndInv, Restatus PROVE EndInv'
<1>1. Successor' /\ DraftInv' /\ TurnInv'
  BY DEF EndInv, Successor, DraftInv, TurnInv, Restatus
<1>2. CurrentInv'
  BY DEF EndInv, CurrentInv, Promotions, Restatus
<1> QED BY <1>1, <1>2 DEF EndInv

LEMMA EndStep == SoundInv /\ ChainInv /\ EndInv /\ [Next]_vars => EndInv'
<1> SUFFICES ASSUME SoundInv, ChainInv, EndInv, [Next]_vars PROVE EndInv'
  OBVIOUS
<1>1. CASE UNCHANGED vars
  BY <1>1 DEF vars, EndInv, Successor, DraftInv, TurnInv, CurrentInv, Promotions
<1>2. CASE Restatus
  BY <1>2, RestatusEnd
<1>3. ASSUME NEW r \in Requests, Effect(r) PROVE EndInv'
  BY <1>3, CalmEnd, CreatedEnd, InsertedEnd, WroteEnd, ReadsEnd, PromotedEnd,
     SetsEnd, SpawnedEnd, LinkedEnd DEF Effect
<1> QED BY <1>1, <1>2, <1>3, Effects

\* The newest version is the draft, once promoted, or the one before it.
LEMMA NewestIs ==
  ASSUME SoundInv, ChainInv, Promotions # {}
  PROVE  \E m : Newest(m, versions) /\ m = Max(Promotions)
<1>1. PICK p \in Versions : versions[p].there /\ ~versions[p].draft
  BY DEF Promotions
<1>2. ASSUME NEW v \in Versions, versions[v].there, ~versions[v].draft
      PROVE  v <= form.draft /\ form.draft \in Versions
  BY <1>2, DraftIs DEF ChainInv, Ordered, Versions
<1>3. \E m : Newest(m, versions)
  <2>1. form.draft \in Versions /\ versions[form.draft].there
    BY <1>1, <1>2 DEF ChainInv, Ordered
  <2>2. CASE ~versions[form.draft].draft
    BY <1>2, <2>1, <2>2 DEF Newest
  <2>3. CASE versions[form.draft].draft
    <3> DEFINE m == form.draft - 1
    <3>1. \A v \in Versions : versions[v].there /\ ~versions[v].draft => v <= m
      BY <1>2, <2>3, DraftIs DEF Versions
    <3>2. m \in Versions /\ m < form.draft
      BY <1>1, <2>1, <3>1, DraftIs DEF Versions
    <3>3. versions[m].there /\ ~versions[m].draft
      BY <3>2 DEF ChainInv, Ordered
    <3> QED BY <3>1, <3>2, <3>3 DEF Newest
  <2> QED BY <2>2, <2>3
<1>4. PICK m : Newest(m, versions)
  BY <1>3
<1>5. m \in Promotions /\ Promotions \subseteq Int /\ \A v \in Promotions : m >= v
  BY <1>4 DEF Newest, Promotions, Versions
<1>6. Max(Promotions) = m
  <2>1. Max(Promotions) \in Promotions /\ \A v \in Promotions : Max(Promotions) >= v
    BY <1>5 DEF Max
  <2>2. \A x, y \in Int : x >= y /\ y >= x => x = y
    OBVIOUS
  <2>3. Max(Promotions) \in Int /\ m \in Int /\ Max(Promotions) >= m /\ m >= Max(Promotions)
    BY <1>5, <2>1
  <2> QED BY <2>2, <2>3, Zenon
<1> QED BY <1>4, <1>6

\* With nobody creating or publishing, nobody answers for the draft or the
\* newest version but the form itself, or what it is excused by.
LEMMA EndsWell == SoundInv /\ ChainInv /\ EndInv => EndsWhole
<1> SUFFICES ASSUME SoundInv, ChainInv, EndInv, AtRest, form # NoForm PROVE EndsWhole
  BY DEF EndsWhole
<1>1. ASSUME NEW r \in Requests PROVE req[r].at \notin {"insert", "current", "spawn", "link"}
  BY DEF AtRest, ChainInv, Placed
<1>2. form.draft \in cut \/ (form.draft # 0 /\ versions[form.draft].draft)
  <2>1. form.status # "none"
    BY DEF SoundInv, TypeInv, Alone
  <2> QED BY <1>1, <2>1 DEF EndInv, DraftInv, Carries
<1>3. Promotions # {} =>
        form.current = Max(Promotions) \/ reverted \/ Max(Promotions) \in cut
  <2>1. ASSUME Promotions # {} PROVE Current(Max(Promotions))
    BY <2>1, NewestIs, CurrentIs DEF EndInv
  <2> QED BY <1>1, <2>1 DEF Current
<1> QED BY <1>2, <1>3 DEF EndsWhole

\* However many publish at once, the form ends with a draft to write to and with
\* its newest version current, but for a call that failed or a publish that was
\* passed.
THEOREM EndsComplete == Spec => []EndsWhole
BY SoundInit, SoundStep, ChainInit, ChainStep, EndInit, EndStep, EndsWell, PTL DEF Spec
=============================================================================
