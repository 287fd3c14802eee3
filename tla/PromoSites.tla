----------------------------- MODULE PromoSites -----------------------------
(***************************************************************************)
(* The sites of one promotion: IT marks a site set up or torn down, and    *)
(* takes it back (handlePatchLocationProgress in promo-worker's            *)
(* handlers/promo-writes.ts), and the two "Notify" buttons mail the sites  *)
(* that are marked and stamp them (handlers/notify-sites.ts and            *)
(* notify-removed-sites.ts).  Several people may do so at once; a Notify   *)
(* reads its list first and writes site by site, unconditionally.          *)
(*                                                                         *)
(* The two phases are alike but for what un-marking clears.  The mail      *)
(* queue is its unique index only (enqueueOutboundEmail); what becomes of  *)
(* a row is EmailQueue's subject.  The activity log, whose failures change *)
(* nothing, the note, and requests that are refused are left out.          *)
(***************************************************************************)
EXTENDS Integers, FiniteSets, FiniteSetsExt

CONSTANTS
  Sites,      \* location codes, in their order
  Managers,   \* roles that are mailed on request: includeRm, includeRd
  Addresses, NoAddress,
  Contact,    \* [Sites -> [Roles -> address]]: pricing_simple
  Requests,   \* Notify requests
  MaxMarks,   \* bound: times a site is marked
  MaxFaults   \* bound: failed calls, lost answers, evictions

Roles == {"site"} \cup Managers
Phases == {"build", "removal"}

ASSUME SitesAssumption == Sites \subseteq Nat /\ IsFiniteSet(Sites)
ASSUME ContactAssumption ==
  /\ NoAddress \notin Addresses
  /\ Contact \in [Sites -> [Roles -> Addresses \cup {NoAddress}]]
ASSUME BoundsAssumption == {MaxMarks, MaxFaults} \subseteq Nat

VARIABLES
  place,      \* [Sites -> [Phases -> a site's flag and stamp]]: promo_locations
  queue,      \* [Phases -> [Sites -> [Addresses -> the mark a mail is about]]],
              \* 0 when outbound_emails has no row of that key
  req,        \* [Requests -> a Notify in progress]
  faults,
  \* History variables:
  marked,     \* times a site has been marked
  marks,      \* [Sites -> [Phases -> which of them was its last]]
  told,       \* [Sites -> [Phases -> whom the stamp says were told]]
  unmarked,   \* [Requests -> sites un-marked while the Notify had them before it]
  late        \* sites stamped by a Notify after such an un-marking

vars == <<place, queue, req, faults, marked, marks, told, unmarked, late>>

-----------------------------------------------------------------------------
(* State. *)

Place == [on : BOOLEAN, notified : BOOLEAN]
Fresh == [on |-> FALSE, notified |-> FALSE]

\* A Notify: the sites before it, and whom of the first it has yet to mail.
Idle == [phase |-> "build", roles |-> {}, todo |-> {}, left |-> {}, failed |-> FALSE]
Request == [phase : Phases, roles : SUBSET Managers, todo : SUBSET Sites,
            left : SUBSET Addresses, failed : BOOLEAN]

TypeOK ==
  /\ place \in [Sites -> [Phases -> Place]]
  /\ queue \in [Phases -> [Sites -> [Addresses -> 0..MaxMarks]]]
  /\ req \in [Requests -> Request]
  /\ faults \in 0..MaxFaults
  /\ marked \in 0..MaxMarks /\ marks \in [Sites -> [Phases -> 0..MaxMarks]]
  /\ told \in [Sites -> [Phases -> SUBSET Addresses]]
  /\ unmarked \in [Requests -> SUBSET Sites] /\ late \subseteq Sites

\* As handleCreatePromo leaves it.
Init ==
  /\ place = [s \in Sites |-> [p \in Phases |-> Fresh]]
  /\ queue = [p \in Phases |-> [s \in Sites |-> [a \in Addresses |-> 0]]]
  /\ req = [r \in Requests |-> Idle]
  /\ faults = 0
  /\ marked = 0 /\ marks = [s \in Sites |-> [p \in Phases |-> 0]]
  /\ told = [s \in Sites |-> [p \in Phases |-> {}]]
  /\ unmarked = [r \in Requests |-> {}] /\ late = {}

Fault == faults < MaxFaults /\ faults' = faults + 1
Become(r, request) == req' = [req EXCEPT ![r] = request]

-----------------------------------------------------------------------------
(* The handlers. *)

\* Mutant of Clears: neither half does.
ClearsNothing(p, on) == FALSE

\* Only the teardown's half clears the stamp when it is undone.
Clears(p, on) == p = "removal" /\ ~on

\* handlePatchLocationProgress: one call, with either flag or both.
PatchLocation(s, flags) ==
  LET given == DOMAIN flags
      newly == {p \in given : flags[p] /\ ~place[s][p].on}
  IN /\ IF newly = {} THEN UNCHANGED marked
        ELSE marked < MaxMarks /\ marked' = marked + 1
     /\ place' = [place EXCEPT ![s] = [p \in Phases |->
          IF p \notin given THEN @[p]
          ELSE [on |-> flags[p], notified |-> @[p].notified /\ ~Clears(p, flags[p])]]]
     /\ marks' = [marks EXCEPT ![s] = [p \in Phases |->
          IF p \in newly THEN marked' ELSE @[p]]]
     /\ told' = [told EXCEPT ![s] = [p \in Phases |->
          IF place'[s][p].notified THEN @[p] ELSE {}]]
     /\ late' = IF place'[s]["removal"].notified THEN late ELSE late \ {s}
     /\ unmarked' = [r \in Requests |->
          IF "removal" \in given /\ ~flags["removal"]
             /\ req[r] # Idle /\ req[r].phase = "removal" /\ s \in req[r].todo
          THEN unmarked[r] \cup {s} ELSE unmarked[r]]
     /\ UNCHANGED <<queue, req, faults>>

Eligible(p) == {s \in Sites : place[s][p].on /\ ~place[s][p].notified}

\* The site always, its managers if asked for; one mail for one address.
Recipients(s, roles) ==
  {Contact[s][x] : x \in {"site"} \cup roles} \ {NoAddress}

\* The loop of a Notify at its next site.
Serving(p, roles, todo) ==
  IF todo = {} THEN Idle
  ELSE [phase |-> p, roles |-> roles, todo |-> todo,
        left |-> Recipients(Min(todo), roles), failed |-> FALSE]

FollowingSite(q) == Serving(q.phase, q.roles, q.todo \ {Min(q.todo)})

\* handleNotifyCompletedSites, handleNotifyRemovedSites up to the loop.  A site
\* whose contacts cannot be read, or that has none, is passed over.
StartNotify(r, p, roles) ==
  /\ req[r] = Idle
  /\ \E found \in SUBSET Eligible(p) :
       /\ IF found = Eligible(p) THEN UNCHANGED faults ELSE Fault
       /\ Become(r, Serving(p, roles, {s \in found : Recipients(s, roles) # {}}))
  /\ unmarked' = [unmarked EXCEPT ![r] = {}]
  /\ UNCHANGED <<place, queue, marked, marks, told, late>>

\* Mutant of AfterFailure: the failure is logged and forgotten.
AfterFailureForgotten(q, rest) == [q EXCEPT !.left = rest]

\* A failure does not stop the other recipients but costs the site its stamp.
AfterFailure(q, rest) ==
  IF rest = {} THEN FollowingSite(q) ELSE [q EXCEPT !.left = rest, !.failed = TRUE]

\* enqueueOutboundEmail, whose key is promotion, phase, site and address: a row
\* that is there already stays as it is.
Enqueued(p, s, a) ==
  [queue EXCEPT ![p][s][a] = IF @ = 0 THEN marks[s][p] ELSE @]

\* One recipient.
Enqueue(r) ==
  LET q == req[r]  s == Min(q.todo) IN
  /\ q # Idle
  /\ \E a \in q.left :
       LET rest == q.left \ {a} IN
       \/ /\ queue' = Enqueued(q.phase, s, a)
          /\ Become(r, IF rest = {} /\ q.failed THEN FollowingSite(q) ELSE [q EXCEPT !.left = rest])
          /\ UNCHANGED faults
       \/ /\ Fault
          /\ queue' \in {queue, Enqueued(q.phase, s, a)}
          /\ Become(r, AfterFailure(q, rest))
  /\ UNCHANGED <<place, marked, marks, told, unmarked, late>>

\* The stamp, by promotion and site alone.
Stamp(r) ==
  LET q == req[r]  s == Min(q.todo)  p == q.phase
      Stamped ==
        /\ place' = [place EXCEPT ![s][p].notified = TRUE]
        /\ told' = [told EXCEPT ![s][p] = Recipients(s, q.roles)]
        /\ late' = IF s \in unmarked[r] THEN late \cup {s} ELSE late
  IN /\ q # Idle /\ q.left = {}
     /\ \/ Stamped /\ UNCHANGED faults
        \/ Stamped /\ Fault
        \/ Fault /\ UNCHANGED <<place, told, late>>
     /\ Become(r, FollowingSite(q))
     /\ UNCHANGED <<queue, marked, marks, unmarked>>

\* The invocation is evicted between two calls.
Evict(r) ==
  /\ req[r] # Idle
  /\ Fault /\ Become(r, Idle)
  /\ UNCHANGED <<place, queue, marked, marks, told, unmarked, late>>

Flags == UNION {[given -> BOOLEAN] : given \in SUBSET Phases \ {{}}}

Next ==
  \/ \E s \in Sites, flags \in Flags : PatchLocation(s, flags)
  \/ \E r \in Requests :
       \/ \E p \in Phases, roles \in SUBSET Managers : StartNotify(r, p, roles)
       \/ Enqueue(r) \/ Stamp(r) \/ Evict(r)

Spec == Init /\ [][Next]_vars

-----------------------------------------------------------------------------
(* Properties. *)

\* A stamped site was told: everybody the Notify asked for has a mail in the
\* queue, though some enqueues may have failed and another Notify or a lost
\* answer made up for them.
StampedIsMailed ==
  \A s \in Sites, p \in Phases :
    place[s][p].notified =>
      /\ told[s][p] # {}
      /\ \A a \in told[s][p] : queue[p][s][a] # 0

\* "so a prior removal notification doesn't linger against a now-non-removed
\* row": a stamp on a site that is not torn down, which the button passes over
\* when it is torn down again, comes only from a Notify that had the site
\* before it when it was un-marked.
UnmarkedIsUnstamped ==
  \A s \in Sites :
    place[s]["removal"].notified /\ ~place[s]["removal"].on => s \in late

\* The comment on handlePatchLocationProgress: un-marking clears the stamp, so
\* that "a follow-up Re-mark + Notify will fire fresh".  A site torn down again
\* and stamped would then have been mailed for this time, not for an earlier one.
RemarkFiresFresh ==
  \A s \in Sites :
    place[s]["removal"].on /\ place[s]["removal"].notified /\ s \notin late =>
      \A a \in told[s]["removal"] : queue["removal"][s][a] = marks[s]["removal"]

=============================================================================
