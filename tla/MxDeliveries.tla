---------------------------- MODULE MxDeliveries ----------------------------
(***************************************************************************)
(* The life of a MaintainX webhook delivery (apps/workorders-worker): the  *)
(* route records it in mx_webhook_event, acknowledges it and processes it  *)
(* after the answer (mx-webhook.ts); the five-minute drain takes up what   *)
(* that left unfinished (mx-webhook-drain.ts).  Both paths are             *)
(* processMxWebhookDelivery (mx-webhook-process.ts): write the observation *)
(* into mx_work_order_event, read the entity again from MaintainX into the *)
(* mirror, stamp the row.  Nothing locks a row.                            *)
(*                                                                         *)
(* What the second reading does to the mirror is the subject of MxMirror;  *)
(* here it succeeds or fails.  last_delivery_at of the subscription, which *)
(* nothing here reads, is left out, and so is a delivery that is neither   *)
(* verified nor carries a well-formed signature: it changes nothing.       *)
(***************************************************************************)
EXTENDS Integers, FiniteSets

CONSTANTS
  Deliveries,   \* POSTs to the webhook route
  Forged,       \* those whose signature is well formed and does not verify
  Observable,   \* those deriveWorkOrderEvent makes an observation of
  Hopeless,     \* those that fail every time: no entity id, not routed, unmappable
  Drains,       \* invocations of the cron that may run at the same time
  MaxAttempts,  \* MAX_PROCESS_ATTEMPTS
  DrainBatch,   \* DRAIN_BATCH
  Nothing,
  InlineMayOverrun, \* may the inline path still run when the grace is over?
  MaxFaults     \* bound: calls that fail or lose their answer, evictions

ASSUME DeliveriesAssumption ==
  /\ Forged \subseteq Deliveries /\ Observable \subseteq Deliveries
  /\ Hopeless \subseteq Deliveries
  /\ Deliveries \cap Drains = {} /\ Nothing \notin Deliveries
  /\ MaxAttempts \in Nat \ {0} /\ DrainBatch \in Nat \ {0}
  /\ InlineMayOverrun \in BOOLEAN /\ MaxFaults \in Nat

\* The inline path of a delivery is a worker named after it.
Workers == Deliveries \cup Drains

VARIABLES
  row,       \* mx_webhook_event rows
  arrival,   \* received_at, as the place of the row in that order; 0 before
  arrived,   \* how many rows there are
  aged,      \* how many of them are older than DRAIN_GRACE_MS
  log,       \* mx_work_order_event: observations per delivery
  work,      \* what each worker is doing
  faults,
  \* History variables, never read by the system:
  acked,     \* deliveries answered 202
  tries,     \* attempts begun
  failures,  \* attempts that ended in a failure worth retrying
  applied    \* deliveries an attempt succeeded for

ghosts == <<acked, tries, failures, applied>>
arrivals == <<arrival, arrived>>
vars == <<row, arrivals, aged, log, work, faults, ghosts>>

\* processed_at is null in state "pending".  A worker has the number of its
\* attempt and, for a drain, the rest of its batch as it was read.
Row == [state : {"none", "pending", "stamped"}, attempts : Nat,
        error : {"none", "retry", "gaveup", "terminal", "rejected"}]
NoRow == [state |-> "none", attempts |-> 0, error |-> "none"]
HasRow(d) == row[d].state # "none"
Pending(d) == row[d].state = "pending"

Claimed == [d : Deliveries, attempts : Nat]
Job == [step : {"idle", "observe", "refresh", "stamp"},
        on : Deliveries \cup {Nothing}, attempt : Nat,
        outcome : {"none", "ok", "retry", "terminal"}, rest : SUBSET Claimed]
Idle == [step |-> "idle", on |-> Nothing, attempt |-> 0, outcome |-> "none",
         rest |-> {}]
Start(d, n, rest) == [step |-> "observe", on |-> d, attempt |-> n,
                      outcome |-> "none", rest |-> rest]
Busy(w) == work[w].step # "idle"
On(w) == work[w].on

TypeOK ==
  /\ row \in [Deliveries -> Row]
  /\ arrival \in [Deliveries -> Nat] /\ arrived \in Nat /\ aged \in Nat
  /\ log \in [Deliveries -> Nat]
  /\ work \in [Workers -> Job]
  /\ faults \in Nat
  /\ acked \subseteq Deliveries /\ applied \subseteq Deliveries
  /\ tries \in [Deliveries -> Nat] /\ failures \in [Deliveries -> Nat]

Init ==
  /\ row = [d \in Deliveries |-> NoRow]
  /\ arrival = [d \in Deliveries |-> 0] /\ arrived = 0 /\ aged = 0
  /\ log = [d \in Deliveries |-> 0]
  /\ work = [w \in Workers |-> Idle]
  /\ faults = 0
  /\ acked = {} /\ applied = {}
  /\ tries = [d \in Deliveries |-> 0] /\ failures = [d \in Deliveries |-> 0]

Fault == faults < MaxFaults /\ faults' = faults + 1

-----------------------------------------------------------------------------
\* The route.

Unseen(d) == ~HasRow(d) /\ d \notin acked

\* recordDelivery of a verified delivery and of a rejected one.
NewRow == [state |-> "pending", attempts |-> 0, error |-> "none"]
\* A rejected row is terminal from the start.
RejectedRow == [state |-> "stamped", attempts |-> 0, error |-> "rejected"]

\* Refused with 401, and recorded for the operator.
Reject(d) ==
  /\ d \in Forged /\ Unseen(d)
  /\ row' = [row EXCEPT ![d] = RejectedRow]
  /\ arrival' = [arrival EXCEPT ![d] = arrived + 1]
  /\ arrived' = arrived + 1
  /\ UNCHANGED <<aged, log, work, faults, ghosts>>

Record(d) ==
  /\ d \notin Forged /\ Unseen(d)
  /\ row' = [row EXCEPT ![d] = NewRow]
  /\ arrival' = [arrival EXCEPT ![d] = arrived + 1]
  /\ arrived' = arrived + 1

\* The answer goes out and the inline path starts behind it.
Acknowledge(d) ==
  /\ acked' = acked \cup {d}
  /\ work' = [work EXCEPT ![d] = Start(d, 1, {})]
  /\ tries' = [tries EXCEPT ![d] = @ + 1]

Receive(d) ==
  /\ Record(d)
  /\ Acknowledge(d)
  /\ UNCHANGED <<aged, log, faults, failures, applied>>

\* The insert is refused: recordDelivery returns null, and the delivery is
\* acknowledged and processed all the same.
ReceiveUnrecorded(d) ==
  /\ d \notin Forged /\ Unseen(d)
  /\ Fault
  /\ Acknowledge(d)
  /\ UNCHANGED <<row, arrivals, aged, log, failures, applied>>

\* The row is there, the answer to the insert is lost, the handler throws:
\* no acknowledgement and no inline path.
ReceiveUnanswered(d) ==
  /\ Record(d)
  /\ Fault
  /\ UNCHANGED <<aged, log, work, ghosts>>

-----------------------------------------------------------------------------
\* processMxWebhookDelivery.

\* Mutant of Logged: inserted without the conflict target.
LoggedAgain(d) == [log EXCEPT ![d] = @ + 1]
\* The unique index on webhook_event_id swallows a second insert.  An
\* observation without a row has no such id.
Logged(d) == [log EXCEPT ![d] = IF HasRow(d) THEN 1 ELSE @ + 1]

To(w, step, outcome) ==
  work' = [work EXCEPT ![w].step = step, ![w].outcome = outcome]

\* recordObservation: the observation comes first.
Observe(w) ==
  /\ work[w].step = "observe"
  /\ log' = IF On(w) \in Observable THEN Logged(On(w)) ELSE log
  /\ To(w, "refresh", "none")
  /\ UNCHANGED <<row, arrivals, aged, faults, ghosts>>

\* Mutant of ObserveFails: a failed observation is logged and the delivery goes on.
ObserveFailsQuietly(w) ==
  /\ work[w].step = "observe" /\ On(w) \in Observable
  /\ Fault
  /\ log' = log
  /\ To(w, "refresh", "none")
  /\ UNCHANGED <<row, arrivals, aged, ghosts>>

\* The insert fails, or only its answer is lost: the rest is skipped.
ObserveFails(w) ==
  /\ work[w].step = "observe" /\ On(w) \in Observable
  /\ Fault
  /\ log' \in {log, Logged(On(w))}
  /\ To(w, "stamp", "retry")
  /\ UNCHANGED <<row, arrivals, aged, ghosts>>

\* The entity handlers.
Refresh(w) ==
  /\ work[w].step = "refresh"
  /\ IF On(w) \in Hopeless
       THEN To(w, "stamp", "terminal") /\ UNCHANGED applied
       ELSE To(w, "stamp", "ok") /\ applied' = applied \cup {On(w)}
  /\ UNCHANGED <<row, arrivals, aged, log, faults, acked, tries, failures>>

\* MaintainX or the database fails, the twenty seconds run out, or the API
\* key is not bound.
RefreshFails(w) ==
  /\ work[w].step = "refresh"
  /\ Fault
  /\ To(w, "stamp", "retry")
  /\ UNCHANGED <<row, arrivals, aged, log, ghosts>>

\* Mutants of Exhausted: off by one, either way.
ExhaustedLate(j) == j.outcome = "retry" /\ j.attempt > MaxAttempts
ExhaustedEarly(j) == j.outcome = "retry" /\ j.attempt >= MaxAttempts - 1
\* stampEvent decides whether the row stays in the queue.
Exhausted(j) == j.outcome = "retry" /\ j.attempt >= MaxAttempts
\* The PATCH of a retryable failure leaves processed_at out.
StateAfter(old, j) ==
  IF j.outcome = "retry" /\ ~Exhausted(j) THEN old ELSE "stamped"
\* process_error: cleared by success.
ErrorAfter(j) ==
  IF Exhausted(j) THEN "gaveup" ELSE IF j.outcome = "ok" THEN "none" ELSE j.outcome
Stamped(j) == [row EXCEPT ![j.on] =
  [state |-> StateAfter(row[j.on].state, j), attempts |-> j.attempt,
   error |-> ErrorAfter(j)]]

\* A drain that holds these rows takes the one that came first.
TakeFirst(c, rows) == \E next \in rows :
  /\ \A other \in rows : arrival[next.d] <= arrival[other.d]
  /\ work' = [work EXCEPT ![c] = Start(next.d, next.attempts + 1, rows \ {next})]
  /\ tries' = [tries EXCEPT ![next.d] = @ + 1]

\* A drain goes on with its batch or, its budget spent, stops.
Advance(w) ==
  \/ TakeFirst(w, work[w].rest)
  \/ work' = [work EXCEPT ![w] = Idle] /\ UNCHANGED tries

\* failures counts what the attempt came to, whether the stamp lands or not.
Ended(w) ==
  failures' = IF work[w].outcome = "retry"
                THEN [failures EXCEPT ![On(w)] = @ + 1] ELSE failures

\* Without a row id there is nothing to stamp.
Stamp(w) ==
  /\ work[w].step = "stamp"
  /\ row' = IF HasRow(On(w)) THEN Stamped(work[w]) ELSE row
  /\ Ended(w)
  /\ Advance(w)
  /\ UNCHANGED <<arrivals, aged, log, faults, acked, applied>>

\* The PATCH fails: it is logged and the row stays as it is.
StampFails(w) ==
  /\ work[w].step = "stamp" /\ HasRow(On(w))
  /\ Fault
  /\ Ended(w)
  /\ Advance(w)
  /\ UNCHANGED <<row, arrivals, aged, log, acked, applied>>

\* The invocation is evicted; a drain loses the rest of its batch with it.
Evict(w) ==
  /\ Busy(w)
  /\ Fault
  /\ work' = [work EXCEPT ![w] = Idle]
  /\ UNCHANGED <<row, arrivals, aged, log, ghosts>>

-----------------------------------------------------------------------------
\* The drain.

\* Two minutes pass over the next row.  The platform ends an inline path long
\* before, unless InlineMayOverrun.
Age ==
  /\ aged < arrived
  /\ InlineMayOverrun \/ \A d \in Deliveries : arrival[d] = aged + 1 => ~Busy(d)
  /\ aged' = aged + 1
  /\ UNCHANGED <<row, arrivals, log, work, faults, ghosts>>

\* readPending: the oldest rows of the queue that are past the grace.
Drainable ==
  {d \in Deliveries : Pending(d) /\ row[d].attempts < MaxAttempts /\ arrival[d] <= aged}
Batch == {d \in Drainable :
  Cardinality({e \in Drainable : arrival[e] < arrival[d]}) < DrainBatch}

\* Attempts go on from the count the batch was read with.
Drain(c) ==
  /\ ~Busy(c)
  /\ TakeFirst(c, {[d |-> d, attempts |-> row[d].attempts] : d \in Batch})
  /\ UNCHANGED <<row, arrivals, aged, log, faults, acked, failures, applied>>

-----------------------------------------------------------------------------

Route(d) == Reject(d) \/ Receive(d) \/ ReceiveUnrecorded(d) \/ ReceiveUnanswered(d)

Process(w) == \/ Observe(w) \/ ObserveFails(w)
              \/ Refresh(w) \/ RefreshFails(w)
              \/ Stamp(w) \/ StampFails(w)

Next ==
  \/ \E d \in Deliveries : Route(d)
  \/ \E w \in Workers : Process(w) \/ Evict(w)
  \/ Age
  \/ \E c \in Drains : Drain(c)

\* The cron recurs, a worker goes on unless evicted, and time passes.
Fairness ==
  /\ \A w \in Workers : WF_vars(Process(w))
  /\ WF_vars(\E c \in Drains : Drain(c))
  /\ WF_vars(Age)

Spec == Init /\ [][Next]_vars /\ Fairness

-----------------------------------------------------------------------------
\* Properties.

\* MaintainX keeps no history: a transition that is not written down when its
\* delivery is processed is gone.  No delivery is done, and none is found to be
\* beyond help, before its observation is in the log, whatever fails on the way
\* (the order in processMxWebhookDelivery and its short circuit).
ObservationComesFirst ==
  \A d \in Observable \ Forged :
    \/ d \in applied
    \/ row[d].state = "stamped" /\ row[d].error \in {"none", "terminal"}
    => log[d] >= 1

\* However often a delivery is attempted, at the same time or again, it is
\* observed once, also when its own row could not be written.
ObservedOnce == \A d \in Deliveries : log[d] <= 1

\* Both paths write an attempt count that they computed from an earlier read,
\* and stamps get lost.  A row is given up only after that many failures of
\* that delivery all the same.
GivesUpOnlyAfterEnough ==
  \A d \in Deliveries : row[d].error = "gaveup" => failures[d] >= MaxAttempts

\* A rejected delivery never reaches the work queue: nothing is observed and
\* nothing is read again on its behalf, inline or by the drain.
RejectsAreInert == \A d \in Forged : tries[d] = 0 /\ log[d] = 0

\* processed_at is never taken back: a retryable failure leaves the column out
\* of its PATCH, so it cannot clear the stamp of a concurrent attempt.
StampIsFinal ==
  [][\A d \in Deliveries : row[d].state = "stamped" => row'[d].state = "stamped"]_vars

\* Every recorded delivery leaves the queue, however many calls fail and
\* invocations are evicted, finitely many in all.
EveryRowIsStamped == \A d \in Deliveries : Pending(d) ~> row[d].state = "stamped"

-----------------------------------------------------------------------------
\* The inductive invariants behind the properties.

\* An attempt numbered n was preceded by n - 1 failures, whoever counted them.
CountInv ==
  /\ \A d \in Deliveries :
       /\ Pending(d) => row[d].attempts <= failures[d]
       /\ row[d].error = "gaveup" => failures[d] >= MaxAttempts
  /\ \A w \in Workers :
       /\ Busy(w) => work[w].attempt <= failures[On(w)] + 1
       /\ \A c \in work[w].rest : c.attempts <= failures[c.d]

\* An inline path works on its own delivery and takes no other, a drain on
\* rows; none of them was forged.
WorkInv ==
  /\ \A w \in Workers :
       /\ Busy(w) => /\ On(w) \in Deliveries \ Forged
                     /\ w \in Drains => HasRow(On(w))
       /\ work[w].step = "stamp" => work[w].outcome # "none"
       /\ \A c \in work[w].rest : HasRow(c.d) /\ c.d \notin Forged
  /\ \A d \in Deliveries : /\ work[d].rest = {}
                           /\ Busy(d) => On(d) = d /\ d \in acked
  /\ \A d \in Forged : tries[d] = 0 /\ ~Pending(d) /\ d \notin acked

\* Whoever is past the observation can show it.
ObservedInv ==
  /\ \A w \in Workers :
       /\ On(w) \in Observable
       /\ \/ work[w].step = "refresh"
          \/ work[w].step = "stamp" /\ work[w].outcome # "retry"
       => log[On(w)] >= 1
  /\ \A d \in Observable :
       \/ d \in applied
       \/ row[d].state = "stamped" /\ row[d].error \in {"none", "terminal"}
       => log[d] >= 1

\* Without a row, only the inline path can have observed a delivery.
OnceInv ==
  \A d \in Deliveries :
    /\ log[d] <= 1
    /\ ~HasRow(d) /\ (d \notin acked \/ work[d].step = "observe") => log[d] = 0
    /\ d \in Forged => log[d] = 0

-----------------------------------------------------------------------------
\* What a comment of the repository says and the code does not do.

\* "mx_webhook_event rows are written before the ack [...] so a delivery whose
\* waitUntil died -- or whose processing failed transiently -- is retried
\* rather than lost" (mx-webhook.ts): what was acknowledged has a row, or is
\* being worked on, or was applied, or is beyond help.
AckedIsNotLost ==
  \A d \in acked \ Hopeless : HasRow(d) \/ Busy(d) \/ d \in applied
=============================================================================
