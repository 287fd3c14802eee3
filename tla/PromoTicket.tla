---------------------------- MODULE PromoTicket -----------------------------
(***************************************************************************)
(* The status of one promotion, its ticket and its assignees: the handlers *)
(* of promo-worker's handlers/promo-writes.ts.  Each reads the promotion,  *)
(* writes its own table and, from what it had read, decides whether the    *)
(* status goes from Submitted to Scoped (maybeAutoAdvanceStatus).  Several *)
(* people work on a promotion at once, and no write has a condition.       *)
(*                                                                         *)
(* The activity log, whose failures change nothing, the texts of the       *)
(* ticket, and requests that are refused before they write are left out.   *)
(***************************************************************************)
EXTENDS Naturals

CONSTANTS
  Users,      \* those who may be assigned
  Statuses,   \* the statuses in use; at least the two of the advance
  Calls,      \* requests in progress
  MaxMishaps  \* bound: failed calls, lost answers, evictions

ASSUME StatusesAssumption == {"Submitted", "Scoped"} \subseteq Statuses
ASSUME FaultsAssumption == MaxMishaps \in Nat

VARIABLES
  status,     \* promotions.status
  ready,      \* promo_tickets.ready_by_date is set
  team,       \* promo_ticket_assignees
  call,       \* [Requests -> a request in progress]
  mishaps,
  \* History variables:
  stale,      \* requests somebody has written under since they read
  excuses     \* why a promotion that is due may still be Submitted

promo == <<status, ready, team>>
ticketVars == <<promo, call, mishaps, stale, excuses>>

-----------------------------------------------------------------------------
(* State. *)

NoCall == [op |-> "idle"]
Writes == {"date", "clear", "other", "nothing"}

\* What a request read, and then only that it is to write the advance.
Call ==
  {NoCall, [op |-> "advance"]}
    \cup [op : {"ticket"}, what : Writes, seen : Statuses, staffed : BOOLEAN, dated : BOOLEAN]
    \cup [op : {"assign"}, who : Users, seen : Statuses, staffed : BOOLEAN, dated : BOOLEAN]
    \cup [op : {"status"}, to : Statuses]

TicketTypeOK ==
  /\ status \in Statuses /\ ready \in BOOLEAN /\ team \subseteq Users
  /\ call \in [Calls -> Call]
  /\ mishaps \in 0..MaxMishaps
  /\ stale \subseteq Calls /\ excuses \subseteq {"race", "fault", "hand"}

\* As handleCreatePromo leaves it.
TicketInit ==
  /\ status = "Submitted" /\ ready = FALSE /\ team = {}
  /\ call = [r \in Calls |-> NoCall]
  /\ mishaps = 0
  /\ stale = {} /\ excuses = {}

Mishap == mishaps < MaxMishaps /\ mishaps' = mishaps + 1
Proceed(r, request) == call' = [call EXCEPT ![r] = request]

-----------------------------------------------------------------------------
(* The handlers. *)

Changing == {r \in Calls : call[r].op \in {"ticket", "assign", "advance"}}

\* Somebody writes: whoever has read before is stale.
Overtakes(r) == stale' = stale \cup (Changing \ {r})

\* Mutant of Due: whatever the status.
DueWhateverStatus(seen, staffed, dated) == staffed /\ dated

\* maybeAutoAdvanceStatus, which decides on what the caller read and wrote.
Due(seen, staffed, dated) == seen = "Submitted" /\ staffed /\ dated

IsDueNow == Due(status, team # {}, ready)'

\* What it makes of a write; a promotion passed over is due all the same when
\* the request's idea of the rest is old.
Evaluate(r, seen, staffed, dated) ==
  IF Due(seen, staffed, dated)
  THEN Proceed(r, [op |-> "advance"]) /\ UNCHANGED excuses
  ELSE /\ Proceed(r, NoCall)
       /\ excuses' = IF IsDueNow /\ r \in stale THEN excuses \cup {"race"} ELSE excuses

\* A write that fails, or whose answer is lost, ends the request.
Abort(r) ==
  /\ Mishap
  /\ Proceed(r, NoCall)
  /\ excuses' = IF r \in Changing /\ IsDueNow THEN excuses \cup {"fault"} ELSE excuses

\* fetchPromoState, of handlePatchTicket.
ReadTicket(r, what) ==
  /\ call[r] = NoCall
  /\ Proceed(r, [op |-> "ticket", what |-> what, seen |-> status,
                 staffed |-> team # {}, dated |-> ready])
  /\ stale' = stale \ {r}
  /\ UNCHANGED <<promo, mishaps, excuses>>

\* The PATCH of the ticket returns the row; an empty body writes nothing and
\* goes by what was read.
WriteTicket(r) ==
  LET q == call[r]
      date == CASE q.what = "date" -> TRUE
                [] q.what = "clear" -> FALSE
                [] OTHER -> ready
  IN /\ q.op = "ticket"
     /\ UNCHANGED <<status, team>>
     /\ \/ /\ q.what = "nothing" /\ UNCHANGED <<ready, stale, mishaps>>
           /\ Evaluate(r, q.seen, q.staffed, q.dated)
        \/ /\ q.what # "nothing"
           /\ ready' = date /\ Overtakes(r)
           /\ Evaluate(r, q.seen, q.staffed, date) /\ UNCHANGED mishaps
        \/ /\ q.what # "nothing"
           /\ ready' = date /\ Overtakes(r) /\ Abort(r)
        \/ UNCHANGED <<ready, stale>> /\ Abort(r)

\* fetchPromoState, of handleAddAssignee.
ReadAssignees(r, who) ==
  /\ call[r] = NoCall
  /\ Proceed(r, [op |-> "assign", who |-> who, seen |-> status,
                 staffed |-> team # {}, dated |-> ready])
  /\ stale' = stale \ {r}
  /\ UNCHANGED <<promo, mishaps, excuses>>

\* Mutant of StaffedWith: the count as it was read.
StaffedBefore(staffed) == staffed

\* The count the new assignee makes: the one read and one more.
StaffedWith(staffed) == TRUE

\* The INSERT, which the primary key refuses for somebody assigned already.
AddAssignee(r) ==
  LET q == call[r] IN
  /\ q.op = "assign"
  /\ UNCHANGED <<status, ready>>
  /\ \/ /\ q.who \in team
        /\ Proceed(r, NoCall) /\ UNCHANGED <<team, stale, mishaps, excuses>>
     \/ /\ q.who \notin team /\ team' = team \cup {q.who} /\ Overtakes(r)
        /\ Evaluate(r, q.seen, StaffedWith(q.staffed), q.dated) /\ UNCHANGED mishaps
     \/ /\ q.who \notin team /\ team' = team \cup {q.who} /\ Overtakes(r)
        /\ Abort(r)
     \/ UNCHANGED <<team, stale>> /\ Abort(r)

\* The PATCH of maybeAutoAdvanceStatus.
Advance(r) ==
  /\ call[r].op = "advance"
  /\ UNCHANGED <<ready, team>>
  /\ \/ status' = "Scoped" /\ Proceed(r, NoCall) /\ excuses' = {} /\ UNCHANGED mishaps
     \/ status' = "Scoped" /\ Proceed(r, NoCall) /\ excuses' = {} /\ Mishap
     \/ UNCHANGED status /\ Abort(r)
  /\ IF status' = status THEN UNCHANGED stale ELSE Overtakes(r)

\* handleRemoveAssignee: one call.
RemoveAssignee(who) ==
  /\ who \in team /\ team' = team \ {who}
  /\ stale' = stale \cup Changing
  /\ UNCHANGED <<status, ready, call, mishaps, excuses>>

\* handlePatchStatus: a status that is there already is not written.
ReadStatus(r, to) ==
  /\ call[r] = NoCall
  /\ to # status
  /\ Proceed(r, [op |-> "status", to |-> to])
  /\ UNCHANGED <<promo, mishaps, stale, excuses>>

WriteStatus(r) ==
  /\ call[r].op = "status"
  /\ UNCHANGED <<ready, team>>
  /\ Proceed(r, NoCall)
  /\ \/ /\ status' = call[r].to /\ Overtakes(r)
        /\ excuses' = IF status' = "Submitted" THEN {"hand"} ELSE {}
        /\ \/ UNCHANGED mishaps
           \/ Mishap
     \/ Mishap /\ UNCHANGED <<status, stale, excuses>>

\* The invocation is evicted between two calls.
EvictTicket(r) ==
  /\ call[r] # NoCall
  /\ UNCHANGED <<promo, stale>>
  /\ Abort(r)

TicketNext ==
  \/ \E who \in Users : RemoveAssignee(who)
  \/ \E r \in Calls :
       \/ \E what \in Writes : ReadTicket(r, what)
       \/ \E who \in Users : ReadAssignees(r, who)
       \/ \E to \in Statuses : ReadStatus(r, to)
       \/ WriteTicket(r) \/ AddAssignee(r) \/ WriteStatus(r)
       \/ Advance(r) \/ EvictTicket(r)

TicketSpec == TicketInit /\ [][TicketNext]_ticketVars

-----------------------------------------------------------------------------
(* Properties. *)

Waiting == Changing = {} /\ status = "Submitted" /\ team # {} /\ ready

\* Once nobody is at work on the ticket or the assignees, a Submitted promotion
\* with a date and an assignee has been set back by hand, was failed by a call
\* of its advance, or was passed over by a request that had read before another
\* one wrote.
AdvanceIsNotMissed == Waiting => excuses # {}

\* The automatic advance, which writes whatever the status has become, takes a
\* promotion from elsewhere, or one with no date or assignee any more, only if
\* somebody wrote after the request had read.
AutoAdvanceIsDue ==
  [][\A r \in Calls :
       call[r].op = "advance" /\ call'[r].op = "idle" /\ status' # status =>
         (status = "Submitted" /\ team # {} /\ ready) \/ r \in stale]_ticketVars

\* The head of promo-writes.ts: when the status is Submitted and "after a
\* successful PATCH there is at least one assignee AND ready_by_date is
\* non-null, the worker auto-advances".  It would, but for failed calls and
\* for a status set by hand.
AdvanceFires == Waiting => excuses \cap {"fault", "hand"} # {}
=============================================================================
