---------------------------- MODULE FormPublish -----------------------------
(***************************************************************************)
(* One form of the builder and its versions: creating it, saving its draft *)
(* and publishing it (forms-worker's admin/forms.ts over db/admin-forms.ts).*)
(* Publishing is up to twelve calls in a row with no transaction and no    *)
(* condition but the is_draft filter of a save; several administrators may *)
(* save and publish at once.                                               *)
(*                                                                         *)
(* A version's id is its number, which is unique (forms-tables.sql).  Left *)
(* out: the form's other columns, requests that are refused before they    *)
(* write, and last_edited_at.                                              *)
(***************************************************************************)
EXTENDS Integers, FiniteSets, FiniteSetsExt

CONSTANTS
  Requests,     \* requests in progress
  Internal,     \* the form is internal or link-only: its submissions are scoped
  MaxVersions,  \* bound: versions of the form
  MaxSaves,     \* bound: drafts saved
  MaxFaults     \* bound: failed calls, lost answers, evictions

ASSUME InternalAssumption == Internal \in BOOLEAN
ASSUME BoundsAssumption == MaxVersions \in Nat \ {0} /\ {MaxSaves, MaxFaults} \subseteq Nat

VARIABLES
  form,       \* the row of forms: status, current and draft version, scope
  versions,   \* form_versions: for each number a row or Absent
  req,        \* [Requests -> a request between two calls]
  saves, faults,
  \* History variables:
  fresh,      \* versions nobody has written to
  missed,     \* [Requests -> what somebody did behind a publish's back]
  flaws,      \* [Versions -> what the publishes that promoted it had missed]
  reverted,   \* the current version was set by a publish that had been passed
  cut         \* drafts whose successor was never linked, as a call failed

vars == <<form, versions, req, saves, faults, fresh, missed, flaws, reverted, cut>>

-----------------------------------------------------------------------------
(* State. *)

Versions == 1..MaxVersions

\* What a schema is told apart by: the renderer accepts it (formSchemaSchema),
\* and it has the field that says which site a submission is about.
Schema == [strict : BOOLEAN, site : BOOLEAN]
Empty == [strict |-> TRUE, site |-> FALSE]

Absent == [draft |-> FALSE, schema |-> Empty, there |-> FALSE]
Row(schema) == [draft |-> TRUE, schema |-> schema, there |-> TRUE]

\* NoForm until it is created.  Version 0 is a null pointer.
NoForm == [status |-> "none", current |-> 0, draft |-> 0, scope |-> FALSE]

Idle == [op |-> "idle", at |-> "idle", v |-> 0, schema |-> Empty, key |-> FALSE]
Stages == {"idle", "insert", "find", "write", "scope", "read", "promote",
           "current", "spawn", "link", "stamp"}
Request == [op : {"idle", "create", "save", "publish"}, at : Stages,
            v : 0..MaxVersions, schema : Schema, key : BOOLEAN]

TypeOK ==
  /\ form \in [status : {"none", "draft", "published", "archived"}, scope : BOOLEAN,
               current : 0..MaxVersions, draft : 0..MaxVersions]
  /\ versions \in [Versions -> [draft : BOOLEAN, schema : Schema, there : BOOLEAN]]
  /\ req \in [Requests -> Request]
  /\ saves \in 0..MaxSaves /\ faults \in 0..MaxFaults
  /\ fresh \subseteq Versions
  /\ missed \in [Requests -> SUBSET {"check", "copy", "turn"}]
  /\ flaws \in [Versions -> SUBSET {"check", "copy", "left"}]
  /\ reverted \in BOOLEAN /\ cut \subseteq 0..MaxVersions

Init ==
  /\ form = NoForm
  /\ versions = [v \in Versions |-> Absent]
  /\ req = [r \in Requests |-> Idle]
  /\ saves = 0 /\ faults = 0
  /\ fresh = Versions
  /\ missed = [r \in Requests |-> {}]
  /\ flaws = [v \in Versions |-> {}]
  /\ reverted = FALSE /\ cut = {}

Fault == faults < MaxFaults /\ faults' = faults + 1
Become(r, request) == req' = [req EXCEPT ![r] = request]
Go(r, stage) == Become(r, [req[r] EXCEPT !.at = stage])

\* The draft stays without a successor when the request ends here.
Failed(r) ==
  /\ Fault /\ Become(r, Idle)
  /\ cut' = IF req[r].at \in {"insert", "link"} /\ req[r].op = "create" THEN cut \cup {0}
            ELSE IF req[r].at \in {"current", "spawn", "link"}
            THEN cut \cup {req[r].v} ELSE cut

\* A call of a request: it is done, done but not known to be, or not done.
Call(r, Effect, Skip, then) ==
  \/ Effect /\ Become(r, then) /\ UNCHANGED <<faults, cut>>
  \/ Effect /\ Failed(r)
  \/ Skip /\ Failed(r)

\* Somebody else's doing: whoever is about to publish has checked, and perhaps
\* read, what is no longer so, or holds a version that is not the draft any more.
Behind(r, what) ==
  LET Open == [check |-> {"scope", "find", "write", "read", "promote"},
                 copy |-> {"promote"}, turn |-> {"promote", "current"}]
  IN missed' = [s \in Requests |->
       missed[s] \cup {x \in what : s # r /\ req[s].op = "publish" /\ req[s].at \in Open[x]}]

-----------------------------------------------------------------------------
(* createForm: the form, its first version, the link. *)

Create(r) ==
  /\ req[r] = Idle /\ form = NoForm
  /\ form' = [NoForm EXCEPT !.status = "draft"]
  /\ \/ Become(r, [Idle EXCEPT !.op = "create", !.at = "insert"]) /\ UNCHANGED <<faults, cut>>
     \/ Fault /\ UNCHANGED req /\ cut' = {0}
  /\ UNCHANGED <<versions, saves, fresh, missed, flaws, reverted>>

InsertFirst(r) ==
  /\ req[r].at = "insert"
  /\ Call(r, versions' = [versions EXCEPT ![1] = Row(Empty)], UNCHANGED versions,
          [req[r] EXCEPT !.at = "link"])
  /\ UNCHANGED <<form, saves, fresh, missed, flaws, reverted>>

-----------------------------------------------------------------------------
(* updateDraft: handleUpdateDraft, and the publish that adds a site field. *)

SaveDraft(r, schema) ==
  /\ req[r] = Idle /\ form.draft # 0
  /\ saves < MaxSaves /\ saves' = saves + 1
  /\ Become(r, [Idle EXCEPT !.op = "save", !.at = "write", !.v = form.draft, !.schema = schema])
  /\ UNCHANGED <<form, versions, faults, fresh, missed, flaws, reverted, cut>>

\* Mutant of Written: without the filter.
WrittenAnyway(v, schema) == [versions EXCEPT ![v].schema = schema]

\* "is_draft=true filter on the update": no row is written if it was promoted,
\* and the answer is the same.
Written(v, schema) ==
  IF versions[v].draft THEN [versions EXCEPT ![v].schema = schema] ELSE versions

\* Mutant of Injected: the key is set whatever became of the field.
InjectedAnyway(q, done) == [q EXCEPT !.at = "read", !.key = TRUE]

\* A publish goes on without the field when adding it fails.
Injected(q, done) == [q EXCEPT !.at = "read", !.key = done]

WriteDraft(r) ==
  LET q == req[r]
      Lands == /\ versions' = Written(q.v, q.schema)
               /\ fresh' = fresh \ {q.v}
               /\ Behind(r, IF versions[q.v].draft THEN {"check", "copy"} ELSE {})
      After(done) == IF q.op = "save" THEN Idle ELSE Injected(q, done)
  IN /\ q.at = "write"
     /\ \/ Lands /\ Become(r, After(TRUE)) /\ UNCHANGED faults
        \/ Lands /\ Fault /\ Become(r, After(FALSE))
        \/ Fault /\ Become(r, After(FALSE)) /\ UNCHANGED <<versions, fresh, missed>>
     /\ UNCHANGED <<form, saves, flaws, reverted, cut>>

-----------------------------------------------------------------------------
(* handlePublish. *)

\* Mutant of Accepts: the draft is not checked again.
AcceptsAll(schema) == TRUE

\* "refuses to promote anything the renderer would reject"
Accepts(schema) == schema.strict

\* getDraftSchema and the strict check.
StartPublish(r) ==
  /\ req[r] = Idle /\ form.draft # 0 /\ form.draft < MaxVersions
  /\ Accepts(versions[form.draft].schema)
  /\ Become(r, [Idle EXCEPT !.op = "publish", !.at = "scope",
                            !.schema = versions[form.draft].schema])
  /\ missed' = [missed EXCEPT ![r] = {}]
  /\ UNCHANGED <<form, versions, saves, faults, fresh, flaws, reverted, cut>>

\* getFormScopingContext: the first publish of an internal form gives it a key,
\* of a field that is there or is added to the schema that was checked.
ReadScope(r) ==
  LET q == req[r] IN
  /\ q.at = "scope"
  /\ \/ /\ Become(r, IF ~Internal \/ form.scope THEN [q EXCEPT !.at = "read"]
                     ELSE IF q.schema.site THEN [q EXCEPT !.at = "read", !.key = TRUE]
                     ELSE [q EXCEPT !.at = "find", !.schema.site = TRUE])
        /\ UNCHANGED faults
     \/ Fault /\ Become(r, [q EXCEPT !.at = "read"])
  /\ UNCHANGED <<form, versions, saves, fresh, missed, flaws, reverted, cut>>

\* updateDraft looks the draft up again.
FindDraft(r) ==
  /\ req[r].at = "find"
  /\ \/ Become(r, [req[r] EXCEPT !.at = "write", !.v = form.draft]) /\ UNCHANGED faults
     \/ Fault /\ Become(r, Injected(req[r], FALSE))
  /\ UNCHANGED <<form, versions, saves, fresh, missed, flaws, reverted, cut>>

\* publishDraft, from here on: the draft's row, which is the one to be copied.
\* A row that is no draft any more is refused.
ReadDraft(r) ==
  LET v == form.draft IN
  /\ req[r].at = "read"
  /\ IF versions[v].draft
     THEN v < MaxVersions
          /\ Become(r, [req[r] EXCEPT !.at = "promote", !.v = v, !.schema = versions[v].schema])
     ELSE Become(r, Idle)
  /\ UNCHANGED <<form, versions, saves, faults, fresh, missed, flaws, reverted, cut>>

\* 1. The draft is a version, by id alone.
Promote(r) ==
  LET q == req[r]
      Done == /\ versions' = [versions EXCEPT ![q.v].draft = FALSE]
              /\ flaws' = [flaws EXCEPT ![q.v] =
                   @ \cup (missed[r] \ {"turn"}) \cup IF q.key THEN {} ELSE {"left"}]
              /\ Behind(r, {"check"})
  IN /\ q.at = "promote"
     /\ \/ Done /\ Go(r, "current") /\ UNCHANGED <<faults, cut>>
        \/ Done /\ Fault /\ Become(r, Idle) /\ cut' = cut \cup {q.v}
        \/ Failed(r) /\ UNCHANGED <<versions, flaws, missed>>
     /\ UNCHANGED <<form, saves, fresh, reverted>>

\* 2. It is the form's current one, and the form is published.
SetCurrent(r) ==
  LET q == req[r]
      Done == /\ form' = [form EXCEPT !.current = q.v, !.status = "published"]
              /\ reverted' = ("turn" \in missed[r])
  IN /\ q.at = "current"
     /\ Call(r, Done, UNCHANGED <<form, reverted>>, [q EXCEPT !.at = "spawn"])
     /\ UNCHANGED <<versions, saves, fresh, missed, flaws>>

\* Mutant of Copy: the next draft begins as the first one does.
CopyNothing(q) == Empty

Copy(q) == q.schema

\* 3. The next draft is a copy of the row that was read.  Its number is unique:
\* whoever comes second is refused.
Spawn(r) ==
  LET q == req[r]  v == q.v + 1 IN
  /\ q.at = "spawn"
  /\ IF versions[v].there
     THEN Become(r, Idle) /\ UNCHANGED <<versions, faults, cut>>
     ELSE Call(r, versions' = [versions EXCEPT ![v] = Row(Copy(q))], UNCHANGED versions,
               [q EXCEPT !.at = "link"])
  /\ UNCHANGED <<form, saves, fresh, missed, flaws, reverted>>

\* Mutant of NewDraft: the row that was promoted.
NewDraftIsPromoted(q) == q.v

NewDraft(q) == q.v + 1

\* 4. It is the form's draft.  The last step of createForm, too.
Link(r) ==
  LET q == req[r]
      Done == /\ form' = [form EXCEPT !.draft = NewDraft(q)]
              /\ Behind(r, {"check", "turn"})
  IN /\ q.at = "link"
     /\ Call(r, Done, UNCHANGED <<form, missed>>,
             IF q.key THEN [q EXCEPT !.at = "stamp"] ELSE Idle)
     /\ UNCHANGED <<versions, saves, fresh, flaws, reverted>>

\* setFormScopeFieldKey.
StampScope(r) ==
  /\ req[r].at = "stamp"
  /\ Call(r, form' = [form EXCEPT !.scope = TRUE], UNCHANGED form, Idle)
  /\ UNCHANGED <<versions, saves, fresh, missed, flaws, reverted>>

\* setFormStatus: the list page offers it once the form is no draft any more.
SetStatus(status) ==
  /\ form.status \notin {"none", "draft", status}
  /\ form' = [form EXCEPT !.status = status]
  /\ UNCHANGED <<versions, req, saves, faults, fresh, missed, flaws, reverted, cut>>

\* The invocation is evicted, or a read ends it, between two calls.
Evict(r) ==
  /\ req[r] # Idle
  /\ Failed(r)
  /\ UNCHANGED <<form, versions, saves, fresh, missed, flaws, reverted>>

Next ==
  \/ \E status \in {"published", "archived"} : SetStatus(status)
  \/ \E r \in Requests :
       \/ Create(r) \/ InsertFirst(r)
       \/ \E schema \in Schema : SaveDraft(r, schema)
       \/ WriteDraft(r)
       \/ StartPublish(r) \/ ReadScope(r) \/ FindDraft(r) \/ ReadDraft(r)
       \/ Promote(r) \/ SetCurrent(r) \/ Spawn(r) \/ Link(r) \/ StampScope(r)
       \/ Evict(r)

Spec == Init /\ [][Next]_vars

-----------------------------------------------------------------------------
(* Properties. *)

\* "Publish re-validates the same draft ... and refuses to promote anything the
\* renderer would reject"; "a scoped form ... must land with a valid
\* location_code".  A form that takes submissions has a promoted version that
\* the renderer accepts and, if its submissions are scoped, with the field that
\* scopes them.  Excused are a draft somebody wrote, published or replaced after
\* the check, and a version without the field whose publish did not give the key.
PublicIsSound ==
  LET v == form.current IN
  form.status = "published" =>
    /\ v # 0 /\ versions[v].there /\ ~versions[v].draft
    /\ versions[v].schema.strict \/ "check" \in flaws[v]
    /\ form.scope => versions[v].schema.site \/ flaws[v] \cap {"check", "left"} # {}

\* "immutable schema snapshots": what was promoted stays what it was, though
\* the save that found it a draft is still under way.
PublishedIsImmutable ==
  [][\A v \in Versions :
       versions[v].there /\ ~versions[v].draft => versions'[v] = versions[v]]_vars

\* "The new draft starts as a clone of just-published": nobody having written to
\* it, a draft has what its predecessor was published with, but for a save that
\* landed between reading the row and promoting it.  Otherwise the next publish
\* would take back what this one published.
NextDraftIsAClone ==
  \A v \in Versions \ {1} :
    versions[v].there /\ v \in fresh =>
      versions[v].schema = versions[v - 1].schema \/ "copy" \in flaws[v - 1]

AtRest == \A r \in Requests : req[r].op \notin {"create", "publish"}

Promotions == {v \in Versions : versions[v].there /\ ~versions[v].draft}

\* Whoever published last, and however many did at once, the form ends with a
\* draft to write to and with its newest version current.  Only a call that failed
\* leaves a promoted row without a successor, which every further save and
\* publish then finds to be no draft; and only a publish that was passed by
\* another sets an older version.
EndsWhole ==
  AtRest /\ form # NoForm =>
    /\ form.draft \in cut \/ (form.draft # 0 /\ versions[form.draft].draft)
    /\ Promotions # {} =>
         form.current = Max(Promotions) \/ reverted \/ Max(Promotions) \in cut

\* The head of admin/forms.ts: "the rendered public form is always strictly
\* valid".
AlwaysStrict == form.status = "published" => versions[form.current].schema.strict

\* updateDraft: draft_version_id at a row that is no draft, "which the lifecycle
\* never produces".
PointsAtADraft == form.draft # 0 => versions[form.draft].draft
=============================================================================
