------------------------- MODULE MxDeliveriesProofs -------------------------
(***************************************************************************)
(* Theorems about MxDeliveries, for every set of deliveries and drains,    *)
(* every attempt limit and batch size and every number of faults.          *)
(***************************************************************************)
EXTENDS MxDeliveries, TLAPS

Steps == {"idle", "observe", "refresh", "stamp"}
Outcomes == {"none", "ok", "retry", "terminal"}

-----------------------------------------------------------------------------
\* What the parts of the actions do.

\* Moving a worker on to a step leaves its delivery and its batch alone.
LEMMA ToEffect ==
  ASSUME TypeOK, NEW w \in Workers, NEW s \in Steps, NEW o \in Outcomes, To(w, s, o)
  PROVE  /\ work' \in [Workers -> Job]
         /\ work'[w].step = s /\ work'[w].outcome = o /\ work'[w].on = work[w].on
         /\ work'[w].attempt = work[w].attempt /\ work'[w].rest = work[w].rest
         /\ \A v \in Workers \ {w} : work'[v] = work[v]
<1>1. work \in [Workers -> Job] /\ work[w] \in Job
  BY DEF TypeOK
<1>2. work' = [work EXCEPT ![w] = [work[w] EXCEPT !.step = s, !.outcome = o]]
  BY <1>1 DEF To, Job
<1> DEFINE new == [work[w] EXCEPT !.step = s, !.outcome = o]
<1>3. /\ new \in Job /\ new.step = s /\ new.outcome = o /\ new.on = work[w].on
      /\ new.attempt = work[w].attempt /\ new.rest = work[w].rest
  BY <1>1 DEF Job, Steps, Outcomes
<1> HIDE DEF new
<1> QED BY <1>1, <1>2, <1>3 DEF new

LEMMA StartInJob ==
  ASSUME NEW d \in Deliveries, NEW n \in Nat, NEW rest \in SUBSET Claimed
  PROVE  Start(d, n, rest) \in Job
BY DEF Start, Job

LEMMA FirstSteps ==
  Idle.step = "idle" /\ \A d, n, rest : Start(d, n, rest).step = "observe"
BY DEF Idle, Start

\* A drain that takes a row starts on it and keeps the others.
LEMMA TakeEffect ==
  ASSUME TypeOK, NEW w \in Workers, NEW rows \in SUBSET Claimed, TakeFirst(w, rows)
  PROVE  /\ work' \in [Workers -> Job] /\ tries' \in [Deliveries -> Nat]
         /\ work'[w].step = "observe"
         /\ \A v \in Workers \ {w} : work'[v] = work[v]
         /\ \E next \in rows :
              /\ work'[w] = Start(next.d, next.attempts + 1, rows \ {next})
              /\ \A d \in Deliveries : d # next.d => tries'[d] = tries[d]
<1>1. PICK next \in rows :
        /\ work' = [work EXCEPT ![w] = Start(next.d, next.attempts + 1, rows \ {next})]
        /\ tries' = [tries EXCEPT ![next.d] = @ + 1]
  BY DEF TakeFirst
<1>2. next.d \in Deliveries /\ next.attempts \in Nat
  BY DEF Claimed
<1>3. Start(next.d, next.attempts + 1, rows \ {next}) \in Job
  BY <1>2, StartInJob
<1>4. work \in [Workers -> Job] /\ tries \in [Deliveries -> Nat]
  BY DEF TypeOK
<1>5. /\ work' \in [Workers -> Job]
      /\ work'[w] = Start(next.d, next.attempts + 1, rows \ {next})
      /\ \A v \in Workers \ {w} : work'[v] = work[v]
  BY <1>1, <1>3, <1>4
<1>6. /\ tries' \in [Deliveries -> Nat]
      /\ \A d \in Deliveries : d # next.d => tries'[d] = tries[d]
  BY <1>1, <1>2, <1>4
<1>7. work'[w].step = "observe"
  BY <1>5, FirstSteps
<1> QED BY <1>5, <1>6, <1>7

\* A worker that is done with a row goes on with its batch or is idle.
LEMMA AdvanceEffect ==
  ASSUME TypeOK, NEW w \in Workers, Advance(w)
  PROVE  /\ work' \in [Workers -> Job] /\ tries' \in [Deliveries -> Nat]
         /\ work'[w].step \in {"idle", "observe"}
         /\ \A v \in Workers \ {w} : work'[v] = work[v]
         /\ \/ work'[w] = Idle /\ tries' = tries
            \/ \E next \in work[w].rest :
                 /\ work'[w] = Start(next.d, next.attempts + 1, work[w].rest \ {next})
                 /\ \A d \in Deliveries : d # next.d => tries'[d] = tries[d]
<1>1. work[w].rest \in SUBSET Claimed
  BY DEF TypeOK, Job
<1>2. CASE TakeFirst(w, work[w].rest)
  BY <1>1, <1>2, TakeEffect
<1>3. CASE work' = [work EXCEPT ![w] = Idle] /\ UNCHANGED tries
  BY <1>3 DEF TypeOK, Idle, Job
<1> QED BY <1>2, <1>3 DEF Advance

LEMMA EvictEffect ==
  ASSUME TypeOK, NEW w \in Workers, Evict(w)
  PROVE  /\ work' \in [Workers -> Job] /\ work'[w] = Idle
         /\ \A v \in Workers \ {w} : work'[v] = work[v]
BY DEF TypeOK, Evict, Idle, Job

LEMMA AcknowledgeEffect ==
  ASSUME TypeOK, NEW d \in Deliveries, Acknowledge(d)
  PROVE  /\ work' \in [Workers -> Job] /\ tries' \in [Deliveries -> Nat]
         /\ acked' = acked \cup {d} /\ acked' \subseteq Deliveries
         /\ work'[d] = Start(d, 1, {})
         /\ \A v \in Workers \ {d} : work'[v] = work[v]
         /\ \A e \in Deliveries \ {d} : tries'[e] = tries[e]
<1>1. d \in Workers
  BY DEF Workers
<1>2. Start(d, 1, {}) \in Job
  BY StartInJob
<1> QED BY <1>1, <1>2 DEF TypeOK, Acknowledge

\* Failures are counted up, and a failed attempt is one more.
LEMMA EndedEffect ==
  ASSUME TypeOK, NEW w \in Workers, On(w) \in Deliveries, Ended(w)
  PROVE  /\ failures' \in [Deliveries -> Nat]
         /\ \A d \in Deliveries : failures'[d] >= failures[d]
         /\ work[w].outcome = "retry" => failures'[On(w)] = failures[On(w)] + 1
BY DEF TypeOK, Ended

\* A busy worker is on a delivery.
LEMMA BusyOn ==
  ASSUME WorkInv, NEW w \in Workers, Busy(w)
  PROVE  On(w) \in Deliveries \ Forged
BY DEF WorkInv

\* The batch of a drain, as it was read.
LEMMA BatchEffect ==
  ASSUME TypeOK
  PROVE  /\ {[d |-> d, attempts |-> row[d].attempts] : d \in Batch} \in SUBSET Claimed
         /\ \A d \in Batch : d \in Deliveries /\ Pending(d)
<1>1. \A d \in Batch : d \in Deliveries /\ Pending(d)
  BY DEF Batch, Drainable
<1>2. \A d \in Deliveries : row[d].attempts \in Nat
  BY DEF TypeOK, Row
<1>3. \A d \in Batch : [d |-> d, attempts |-> row[d].attempts] \in Claimed
  BY <1>1, <1>2 DEF Claimed
<1> QED BY <1>1, <1>3

LEMMA StampedEffect ==
  ASSUME TypeOK, NEW w \in Workers, work[w].step = "stamp", On(w) \in Deliveries
  PROVE  /\ Stamped(work[w]) \in [Deliveries -> Row]
         /\ \A d \in Deliveries \ {On(w)} : Stamped(work[w])[d] = row[d]
         /\ Stamped(work[w])[On(w)] =
              [state |-> StateAfter(row[On(w)].state, work[w]),
               attempts |-> work[w].attempt, error |-> ErrorAfter(work[w])]
<1> DEFINE new == [state |-> StateAfter(row[On(w)].state, work[w]),
                   attempts |-> work[w].attempt, error |-> ErrorAfter(work[w])]
<1>1. work[w] \in Job /\ row \in [Deliveries -> Row] /\ row[On(w)] \in Row
  BY DEF TypeOK
<1>2. StateAfter(row[On(w)].state, work[w]) \in {"none", "pending", "stamped"}
  BY <1>1 DEF StateAfter, Row
<1>3. ErrorAfter(work[w]) \in {"none", "retry", "gaveup", "terminal"}
  BY <1>1 DEF ErrorAfter, Job
<1>4. new \in Row
  BY <1>1, <1>2, <1>3 DEF Row, Job
<1>5. Stamped(work[w]) = [row EXCEPT ![On(w)] = new]
  BY DEF Stamped, On
<1> HIDE DEF new
<1>6. /\ Stamped(work[w]) \in [Deliveries -> Row]
      /\ \A d \in Deliveries \ {On(w)} : Stamped(work[w])[d] = row[d]
      /\ Stamped(work[w])[On(w)] = new
  BY <1>1, <1>4, <1>5
<1> QED BY <1>6 DEF new

-----------------------------------------------------------------------------
\* Types, and who works on what.

LEMMA InitInv == Init => TypeOK /\ WorkInv /\ CountInv /\ OnceInv /\ ObservedInv
<1> SUFFICES ASSUME Init PROVE TypeOK /\ WorkInv /\ CountInv /\ OnceInv /\ ObservedInv
  OBVIOUS
<1>1. TypeOK
  BY DEF Init, TypeOK, Row, NoRow, Idle, Job
<1>2. \A w \in Workers : work[w] = Idle
  BY DEF Init
<1>3. \A d \in Deliveries : row[d] = NoRow /\ tries[d] = 0 /\ log[d] = 0 /\ d \in Workers
  BY DEF Init, Workers
<1>4. WorkInv
  BY <1>2, <1>3, DeliveriesAssumption DEF WorkInv, Idle, Busy, Pending, NoRow, Init
<1>5. CountInv
  BY <1>2, <1>3 DEF CountInv, Idle, Busy, Pending, NoRow
<1>6. OnceInv
  BY <1>3 DEF OnceInv
<1>7. ObservedInv
  BY <1>2, <1>3, DeliveriesAssumption DEF ObservedInv, Idle, NoRow, Init
<1> QED BY <1>1, <1>4, <1>5, <1>6, <1>7

LEMMA NextTypeOK == TypeOK /\ WorkInv /\ [Next]_vars => TypeOK'
<1> SUFFICES ASSUME TypeOK, WorkInv, [Next]_vars PROVE TypeOK'
  OBVIOUS
<1> USE DEF arrivals, ghosts, Fault
<1>1. ASSUME NEW d \in Deliveries, Reject(d) PROVE TypeOK'
  BY <1>1 DEF Reject, RejectedRow, TypeOK, Row
<1>2. ASSUME NEW d \in Deliveries, Record(d)
      PROVE  /\ row' \in [Deliveries -> Row]
             /\ arrival' \in [Deliveries -> Nat] /\ arrived' \in Nat
  BY <1>2 DEF Record, NewRow, TypeOK, Row
<1>3. ASSUME NEW d \in Deliveries, Receive(d) PROVE TypeOK'
  <2>1. Record(d) /\ Acknowledge(d)
    BY <1>3 DEF Receive
  <2> QED BY <1>2, <1>3, <2>1, AcknowledgeEffect DEF Receive, TypeOK
<1>4. ASSUME NEW d \in Deliveries, ReceiveUnrecorded(d) PROVE TypeOK'
  <2>1. Acknowledge(d)
    BY <1>4 DEF ReceiveUnrecorded
  <2> QED BY <1>4, <2>1, AcknowledgeEffect DEF ReceiveUnrecorded, TypeOK
<1>5. ASSUME NEW d \in Deliveries, ReceiveUnanswered(d) PROVE TypeOK'
  BY <1>2, <1>5 DEF ReceiveUnanswered, TypeOK
<1>6. ASSUME NEW w \in Workers, work[w].step = "observe"
      PROVE  Logged(On(w)) \in [Deliveries -> Nat]
  <2>1. On(w) \in Deliveries /\ log \in [Deliveries -> Nat]
    BY <1>6, BusyOn DEF Busy, TypeOK
  <2> QED BY <2>1 DEF Logged
<1>7. ASSUME NEW w \in Workers, Observe(w) PROVE TypeOK'
  <2>1. work' \in [Workers -> Job]
    BY <1>7, ToEffect DEF Observe, Steps, Outcomes
  <2>2. log' \in [Deliveries -> Nat]
    BY <1>6, <1>7 DEF Observe, TypeOK
  <2> QED BY <1>7, <2>1, <2>2 DEF Observe, TypeOK
<1>8. ASSUME NEW w \in Workers, ObserveFails(w) PROVE TypeOK'
  <2>1. work' \in [Workers -> Job]
    BY <1>8, ToEffect DEF ObserveFails, Steps, Outcomes
  <2>2. log' \in [Deliveries -> Nat]
    BY <1>6, <1>8 DEF ObserveFails, TypeOK
  <2> QED BY <1>8, <2>1, <2>2 DEF ObserveFails, TypeOK
<1>9. ASSUME NEW w \in Workers, Refresh(w) PROVE TypeOK'
  <2>1. On(w) \in Deliveries
    BY <1>9, BusyOn DEF Refresh, Busy
  <2>2. work' \in [Workers -> Job]
    BY <1>9, ToEffect DEF Refresh, Steps, Outcomes
  <2>3. applied' \subseteq Deliveries
    BY <1>9, <2>1 DEF Refresh, TypeOK
  <2> QED BY <1>9, <2>2, <2>3 DEF Refresh, TypeOK
<1>10. ASSUME NEW w \in Workers, RefreshFails(w) PROVE TypeOK'
  <2>1. work' \in [Workers -> Job]
    BY <1>10, ToEffect DEF RefreshFails, Steps, Outcomes
  <2> QED BY <1>10, <2>1 DEF RefreshFails, TypeOK
<1>11. ASSUME NEW w \in Workers, Stamp(w) PROVE TypeOK'
  <2>1. On(w) \in Deliveries
    BY <1>11, BusyOn DEF Stamp, Busy
  <2>2. row' \in [Deliveries -> Row]
    BY <1>11, <2>1, StampedEffect DEF Stamp, TypeOK
  <2>3. work' \in [Workers -> Job] /\ tries' \in [Deliveries -> Nat]
    BY <1>11, AdvanceEffect DEF Stamp
  <2>4. failures' \in [Deliveries -> Nat]
    BY <1>11, <2>1, EndedEffect DEF Stamp
  <2> QED BY <1>11, <2>2, <2>3, <2>4 DEF Stamp, TypeOK
<1>12. ASSUME NEW w \in Workers, StampFails(w) PROVE TypeOK'
  <2>1. On(w) \in Deliveries
    BY <1>12, BusyOn DEF StampFails, Busy
  <2>2. work' \in [Workers -> Job] /\ tries' \in [Deliveries -> Nat]
    BY <1>12, AdvanceEffect DEF StampFails
  <2>3. failures' \in [Deliveries -> Nat]
    BY <1>12, <2>1, EndedEffect DEF StampFails
  <2> QED BY <1>12, <2>2, <2>3 DEF StampFails, TypeOK
<1>13. ASSUME NEW w \in Workers, Evict(w) PROVE TypeOK'
  <2>1. work' \in [Workers -> Job]
    BY <1>13, EvictEffect
  <2> QED BY <1>13, <2>1 DEF Evict, TypeOK
<1>14. ASSUME Age PROVE TypeOK'
  BY <1>14 DEF Age, TypeOK
<1>15. ASSUME NEW c \in Drains, Drain(c) PROVE TypeOK'
  <2>1. c \in Workers
    BY DEF Workers
  <2>2. work' \in [Workers -> Job] /\ tries' \in [Deliveries -> Nat]
    BY <1>15, <2>1, BatchEffect, TakeEffect DEF Drain
  <2> QED BY <1>15, <2>2 DEF Drain, TypeOK
<1>16. CASE UNCHANGED vars
  BY <1>16 DEF vars, TypeOK
<1> QED BY <1>1, <1>3, <1>4, <1>5, <1>7, <1>8, <1>9, <1>10, <1>11, <1>12, <1>13,
           <1>14, <1>15, <1>16 DEF Next, Route, Process

\* A row, once there, stays there.
LEMMA RowsStay ==
  ASSUME TypeOK, WorkInv, [Next]_vars, NEW d \in Deliveries, HasRow(d)
  PROVE  HasRow(d)'
<1> USE DEF arrivals, ghosts
<1>1. ASSUME NEW e \in Deliveries, Reject(e) \/ Record(e) PROVE HasRow(d)'
  BY <1>1 DEF Reject, RejectedRow, Record, NewRow, HasRow, TypeOK
<1>2. ASSUME NEW w \in Workers, Stamp(w) PROVE HasRow(d)'
  <2>1. On(w) \in Deliveries
    BY <1>2, BusyOn DEF Stamp, Busy
  <2>2. CASE HasRow(On(w)) /\ d = On(w)
    <3>1. work[w].step = "stamp" /\ row' = Stamped(work[w])
      BY <1>2, <2>2 DEF Stamp
    <3>2. Stamped(work[w])[On(w)] =
            [state |-> StateAfter(row[On(w)].state, work[w]),
             attempts |-> work[w].attempt, error |-> ErrorAfter(work[w])]
      BY <2>1, <3>1, StampedEffect
    <3>3. row'[d].state = StateAfter(row[d].state, work[w])
      BY <2>2, <3>1, <3>2
    <3> QED BY <3>3 DEF HasRow, StateAfter
  <2>3. CASE ~HasRow(On(w)) \/ d # On(w)
    BY <1>2, <2>1, <2>3, StampedEffect DEF Stamp, HasRow
  <2> QED BY <2>2, <2>3
<1>3. ASSUME row' = row PROVE HasRow(d)'
  BY <1>3 DEF HasRow
<1> QED BY <1>1, <1>2, <1>3
        DEF Next, Route, Process, Receive, ReceiveUnrecorded, ReceiveUnanswered,
            Observe, ObserveFails, Refresh, RefreshFails, StampFails, Evict, Age, Drain, vars

\* The parts of WorkInv that speak of one worker and of one delivery.
WorkerInv(w) ==
  /\ Busy(w) => /\ On(w) \in Deliveries \ Forged
                /\ w \in Drains => HasRow(On(w))
  /\ work[w].step = "stamp" => work[w].outcome # "none"
  /\ \A c \in work[w].rest : HasRow(c.d) /\ c.d \notin Forged
  /\ w \in Deliveries => /\ work[w].rest = {}
                         /\ Busy(w) => On(w) = w /\ w \in acked
ForgedInv(d) == tries[d] = 0 /\ ~Pending(d) /\ d \notin acked

LEMMA WorkParts ==
  WorkInv <=> (\A w \in Workers : WorkerInv(w)) /\ (\A d \in Forged : ForgedInv(d))
BY DEF WorkInv, WorkerInv, ForgedInv, Workers

LEMMA WorkPartsNext ==
  WorkInv' <=> (\A w \in Workers : WorkerInv(w)') /\ (\A d \in Forged : ForgedInv(d)')
BY DEF WorkInv, WorkerInv, ForgedInv, Workers

\* A worker that a step does not touch keeps its part of the invariant.
LEMMA WorkerKept ==
  ASSUME TypeOK, NEW v \in Workers, WorkerInv(v), work'[v] = work[v],
         acked \subseteq acked', \A d \in Deliveries : HasRow(d) => HasRow(d)'
  PROVE  WorkerInv(v)'
<1>1. work[v] \in Job
  BY DEF TypeOK
<1> QED BY <1>1 DEF WorkerInv, Busy, On, Job, Claimed

LEMMA WorkerIdle ==
  ASSUME NEW v \in Workers, work'[v] = Idle
  PROVE  WorkerInv(v)'
BY DEF WorkerInv, Idle, Busy

\* A drain that starts on a row of a good batch is good.
LEMMA WorkerTakes ==
  ASSUME NEW v \in Workers, NEW rows \in SUBSET Claimed, NEW next \in rows,
         v \in Deliveries => rows = {},
         \A c \in rows : HasRow(c.d)' /\ c.d \notin Forged,
         work'[v] = Start(next.d, next.attempts + 1, rows \ {next})
  PROVE  WorkerInv(v)'
BY DEF WorkerInv, Start, Busy, On, Claimed

LEMMA NextWorkInv == TypeOK /\ WorkInv /\ [Next]_vars => WorkInv'
<1> SUFFICES ASSUME TypeOK, WorkInv, [Next]_vars PROVE WorkInv'
  OBVIOUS
<1> USE DEF arrivals, ghosts
<1>1. \A d \in Deliveries : HasRow(d) => HasRow(d)'
  BY RowsStay
<1>2. \A w \in Workers : WorkerInv(w)
  BY WorkParts
<1>3. \A d \in Forged : ForgedInv(d)
  BY WorkParts
<1>4. TypeOK'
  BY NextTypeOK
\* Workers left alone, and forged deliveries whose fields are.
<1>5. ASSUME work' = work, acked' = acked PROVE \A w \in Workers : WorkerInv(w)'
  BY <1>1, <1>2, <1>5, WorkerKept
<1>6. ASSUME row' = row, acked' = acked, tries' = tries
      PROVE  \A d \in Forged : ForgedInv(d)'
  BY <1>3, <1>6 DEF ForgedInv, Pending
<1>7. ASSUME NEW w \in Workers, WorkerInv(w)', acked' = acked,
             \A v \in Workers \ {w} : work'[v] = work[v]
      PROVE  \A v \in Workers : WorkerInv(v)'
  BY <1>1, <1>2, <1>7, WorkerKept
<1>8. ASSUME NEW d \in Deliveries, Reject(d) PROVE WorkInv'
  <2>1. \A w \in Workers : WorkerInv(w)'
    BY <1>5, <1>8 DEF Reject
  <2>2. ASSUME NEW e \in Forged PROVE ForgedInv(e)'
    <3>1. e \in Deliveries
      BY DeliveriesAssumption
    <3>2. row'[e] = IF e = d THEN RejectedRow ELSE row[e]
      BY <1>8, <3>1 DEF Reject, TypeOK
    <3> QED BY <1>3, <1>8, <3>2 DEF Reject, RejectedRow, ForgedInv, Pending
  <2> QED BY <2>1, <2>2, WorkPartsNext
<1>9. ASSUME NEW d \in Deliveries, d \notin Forged, Acknowledge(d),
             Record(d) \/ row' = row
      PROVE  WorkInv'
  <2>1. WorkerInv(d)'
    <3>1. work'[d] = Start(d, 1, {}) /\ d \in acked'
      BY <1>9, AcknowledgeEffect
    <3>2. d \notin Forged /\ d \notin Drains
      BY <1>9, DeliveriesAssumption
    <3> QED BY <3>1, <3>2 DEF WorkerInv, Busy, On, Start
  <2>2. \A w \in Workers : WorkerInv(w)'
    BY <1>1, <1>2, <1>9, <2>1, AcknowledgeEffect, WorkerKept DEF Workers
  <2>3. \A e \in Forged : ForgedInv(e)'
    <3> SUFFICES ASSUME NEW e \in Forged PROVE ForgedInv(e)'
      OBVIOUS
    <3>1. e \in Deliveries /\ e # d
      BY <1>9, DeliveriesAssumption
    <3>2. row'[e] = row[e]
      BY <1>9, <3>1 DEF Record, TypeOK
    <3> QED BY <1>3, <1>9, <3>1, <3>2, AcknowledgeEffect DEF ForgedInv, Pending
  <2> QED BY <2>2, <2>3, WorkPartsNext
<1>10. ASSUME NEW d \in Deliveries, ReceiveUnanswered(d) PROVE WorkInv'
  <2>1. \A w \in Workers : WorkerInv(w)'
    BY <1>5, <1>10 DEF ReceiveUnanswered
  <2>2. ASSUME NEW e \in Forged PROVE ForgedInv(e)'
    <3>1. e \in Deliveries /\ e # d
      BY <1>10, DeliveriesAssumption DEF ReceiveUnanswered, Record
    <3>2. row'[e] = row[e]
      BY <1>10, <3>1 DEF ReceiveUnanswered, Record, TypeOK
    <3> QED BY <1>3, <1>10, <3>2 DEF ReceiveUnanswered, ForgedInv, Pending
  <2> QED BY <2>1, <2>2, WorkPartsNext
<1>11. ASSUME NEW w \in Workers, NEW s \in Steps, NEW o \in Outcomes, To(w, s, o),
              Busy(w), s = "stamp" => o # "none",
              row' = row, acked' = acked, tries' = tries
       PROVE  WorkInv'
  <2>1. work[w] \in Job
    BY DEF TypeOK
  <2>2. WorkerInv(w)'
    <3>1. /\ work'[w].step = s /\ work'[w].outcome = o
          /\ work'[w].on = work[w].on /\ work'[w].rest = work[w].rest
      BY <1>11, ToEffect
    <3> QED BY <1>2, <1>11, <3>1 DEF WorkerInv, Busy, On, HasRow
  <2> QED BY <1>6, <1>7, <1>11, <2>2, ToEffect, WorkPartsNext
<1>12. ASSUME NEW w \in Workers, Advance(w), Busy(w), acked' = acked,
              \A d \in Forged : ~Pending(d)'
       PROVE  WorkInv'
  <2>1. work[w].rest \in SUBSET Claimed
    BY DEF TypeOK, Job
  <2>2. \A c \in work[w].rest : HasRow(c.d)' /\ c.d \notin Forged
    BY <1>1, <1>2, <2>1 DEF WorkerInv, Claimed
  <2>3. w \in Deliveries => work[w].rest = {}
    BY <1>2 DEF WorkerInv
  <2>4. WorkerInv(w)'
    BY <1>12, <2>1, <2>2, <2>3, AdvanceEffect, WorkerIdle, WorkerTakes
  <2>5. \A v \in Workers : WorkerInv(v)'
    BY <1>7, <1>12, <2>4, AdvanceEffect
  <2>6. \A d \in Forged : ForgedInv(d)'
    BY <1>3, <1>12, <2>2, AdvanceEffect, DeliveriesAssumption DEF ForgedInv
  <2> QED BY <2>5, <2>6, WorkPartsNext
<1>13. ASSUME NEW w \in Workers, Stamp(w) PROVE WorkInv'
  <2>1. On(w) \in Deliveries \ Forged
    BY <1>13, BusyOn DEF Stamp, Busy
  <2>2. \A d \in Forged : ~Pending(d)'
    BY <1>3, <1>13, <2>1, StampedEffect, DeliveriesAssumption
    DEF Stamp, ForgedInv, Pending
  <2> QED BY <1>12, <1>13, <2>2 DEF Stamp, Busy
<1>14. ASSUME NEW w \in Workers, StampFails(w) PROVE WorkInv'
  <2>1. \A d \in Forged : ~Pending(d)'
    BY <1>3, <1>14 DEF StampFails, ForgedInv, Pending
  <2> QED BY <1>12, <1>14, <2>1 DEF StampFails, Busy
<1>15. ASSUME NEW w \in Workers, Evict(w) PROVE WorkInv'
  BY <1>6, <1>7, <1>15, EvictEffect, WorkerIdle, WorkPartsNext DEF Evict
<1>16. ASSUME NEW c \in Drains, Drain(c) PROVE WorkInv'
  <2> DEFINE rows == {[d |-> d, attempts |-> row[d].attempts] : d \in Batch}
  <2>1. c \in Workers /\ c \notin Deliveries
    BY DeliveriesAssumption DEF Workers
  <2>2. rows \in SUBSET Claimed /\ TakeFirst(c, rows)
    BY <1>16, BatchEffect DEF Drain
  <2>3. \A k \in rows : HasRow(k.d)' /\ k.d \notin Forged
    BY <1>1, <1>3, BatchEffect DEF HasRow, Pending, ForgedInv
  <2> HIDE DEF rows
  <2>4. WorkerInv(c)'
    BY <2>1, <2>2, <2>3, TakeEffect, WorkerTakes
  <2>5. \A v \in Workers : WorkerInv(v)'
    BY <1>7, <1>16, <2>1, <2>2, <2>4, TakeEffect DEF Drain
  <2>6. ASSUME NEW d \in Forged PROVE ForgedInv(d)'
    <3>1. d \in Deliveries
      BY DeliveriesAssumption
    <3>2. PICK k \in rows : \A e \in Deliveries : e # k.d => tries'[e] = tries[e]
      BY <2>1, <2>2, TakeEffect
    <3>3. tries'[d] = tries[d]
      BY <2>3, <3>1, <3>2
    <3> QED BY <1>3, <1>16, <3>3 DEF Drain, ForgedInv, Pending
  <2> QED BY <2>5, <2>6, WorkPartsNext
<1>17. CASE row' = row /\ work' = work /\ acked' = acked /\ tries' = tries
  BY <1>5, <1>6, <1>17, WorkPartsNext
<1>18. ASSUME NEW w \in Workers,
              Observe(w) \/ ObserveFails(w) \/ Refresh(w) \/ RefreshFails(w)
       PROVE  WorkInv'
  BY <1>11, <1>18
  DEF Observe, ObserveFails, Refresh, RefreshFails, Busy, Steps, Outcomes
<1> QED BY <1>8, <1>9, <1>10, <1>13, <1>14, <1>15, <1>16, <1>17, <1>18
        DEF Next, Route, Process, Receive, Record, ReceiveUnrecorded, Age, vars

-----------------------------------------------------------------------------
\* Counting attempts.

RowCount(d) ==
  /\ Pending(d) => row[d].attempts <= failures[d]
  /\ row[d].error = "gaveup" => failures[d] >= MaxAttempts
WorkerCount(w) ==
  /\ Busy(w) => work[w].attempt <= failures[On(w)] + 1
  /\ \A c \in work[w].rest : c.attempts <= failures[c.d]

LEMMA CountParts ==
  CountInv <=> (\A d \in Deliveries : RowCount(d)) /\ (\A w \in Workers : WorkerCount(w))
BY DEF CountInv, RowCount, WorkerCount

LEMMA CountPartsNext ==
  CountInv' <=> /\ \A d \in Deliveries : RowCount(d)'
                /\ \A w \in Workers : WorkerCount(w)'
BY DEF CountInv, RowCount, WorkerCount

\* Failures are never taken back.
LEMMA FailuresGrow ==
  ASSUME TypeOK, WorkInv, [Next]_vars
  PROVE  \A d \in Deliveries : /\ failures[d] \in Nat /\ failures'[d] \in Nat
                               /\ failures'[d] >= failures[d]
<1>1. TypeOK'
  BY NextTypeOK
<1>2. \A d \in Deliveries : failures[d] \in Nat /\ failures'[d] \in Nat
  BY <1>1 DEF TypeOK
<1>3. ASSUME NEW w \in Workers, Stamp(w) \/ StampFails(w)
      PROVE  \A d \in Deliveries : failures'[d] >= failures[d]
  <2>1. On(w) \in Deliveries
    BY <1>3, BusyOn DEF Stamp, StampFails, Busy
  <2> QED BY <1>3, <2>1, EndedEffect DEF Stamp, StampFails
<1>4. CASE failures' = failures
  BY <1>2, <1>4
<1> QED BY <1>2, <1>3, <1>4
        DEF Next, Route, Process, Reject, Receive, ReceiveUnrecorded, ReceiveUnanswered,
            Observe, ObserveFails, Refresh, RefreshFails, Evict, Age, Drain, vars, ghosts

\* What a step does not touch keeps its count.
LEMMA RowCountKept ==
  ASSUME TypeOK, NEW d \in Deliveries, RowCount(d), row'[d] = row[d],
         failures'[d] \in Nat, failures'[d] >= failures[d]
  PROVE  RowCount(d)'
<1>1. row[d].attempts \in Nat /\ failures[d] \in Nat
  BY DEF TypeOK, Row
<1> QED BY <1>1, DeliveriesAssumption DEF RowCount, Pending

LEMMA WorkerCountKept ==
  ASSUME TypeOK, WorkInv, NEW w \in Workers, WorkerCount(w), work'[w] = work[w],
         \A d \in Deliveries : failures'[d] \in Nat /\ failures'[d] >= failures[d]
  PROVE  WorkerCount(w)'
<1>1. /\ work[w].attempt \in Nat /\ work[w].rest \in SUBSET Claimed
      /\ failures \in [Deliveries -> Nat]
  BY DEF TypeOK, Job
<1>2. Busy(w) => On(w) \in Deliveries
  BY BusyOn
<1>3. ASSUME Busy(w) PROVE work[w].attempt <= failures'[On(w)] + 1
  BY <1>1, <1>2, <1>3 DEF WorkerCount
<1>4. ASSUME NEW c \in work[w].rest PROVE c.attempts <= failures'[c.d]
  <2>1. c.attempts \in Nat /\ c.d \in Deliveries /\ c.attempts <= failures[c.d]
    BY <1>1 DEF Claimed, WorkerCount
  <2> QED BY <1>1, <2>1
<1> QED BY <1>3, <1>4 DEF WorkerCount, Busy, On

\* A drain that starts on a row counts on from what it read.
LEMMA WorkerCountTakes ==
  ASSUME NEW w \in Workers, NEW rows \in SUBSET Claimed, NEW next \in rows,
         \A d \in Deliveries : failures'[d] \in Nat,
         \A c \in rows : c.attempts <= failures'[c.d],
         work'[w] = Start(next.d, next.attempts + 1, rows \ {next})
  PROVE  WorkerCount(w)'
<1>1. next.d \in Deliveries /\ next.attempts \in Nat
  BY DEF Claimed
<1>2. next.attempts + 1 <= failures'[next.d] + 1
  BY <1>1
<1>3. /\ work'[w].attempt = next.attempts + 1 /\ work'[w].on = next.d
      /\ work'[w].rest = rows \ {next}
  BY DEF Start
<1> QED BY <1>2, <1>3 DEF WorkerCount, On

LEMMA NextCountInv == TypeOK /\ WorkInv /\ CountInv /\ [Next]_vars => CountInv'
<1> SUFFICES ASSUME TypeOK, WorkInv, CountInv, [Next]_vars PROVE CountInv'
  OBVIOUS
<1> USE DEF arrivals, ghosts
<1>1. \A d \in Deliveries : /\ failures[d] \in Nat /\ failures'[d] \in Nat
                           /\ failures'[d] >= failures[d]
  BY FailuresGrow
<1>2. /\ \A d \in Deliveries : RowCount(d)
      /\ \A w \in Workers : WorkerCount(w)
  BY CountParts
<1>3. ASSUME work' = work PROVE \A w \in Workers : WorkerCount(w)'
  BY <1>1, <1>2, <1>3, WorkerCountKept
<1>4. ASSUME row' = row PROVE \A d \in Deliveries : RowCount(d)'
  BY <1>1, <1>2, <1>4, RowCountKept
<1>5. ASSUME NEW w \in Workers, WorkerCount(w)', \A v \in Workers \ {w} : work'[v] = work[v]
      PROVE  \A v \in Workers : WorkerCount(v)'
  BY <1>1, <1>2, <1>5, WorkerCountKept
<1>6. ASSUME NEW d \in Deliveries, Reject(d) \/ Record(d)
      PROVE  \A e \in Deliveries : RowCount(e)'
  <2> SUFFICES ASSUME NEW e \in Deliveries PROVE RowCount(e)'
    OBVIOUS
  <2>1. CASE e = d
    <3>1. row'[e] \in {NewRow, RejectedRow}
      BY <1>6, <2>1 DEF Reject, Record, TypeOK
    <3> QED BY <1>1, <3>1 DEF RowCount, Pending, NewRow, RejectedRow
  <2>2. CASE e # d
    <3>1. row'[e] = row[e]
      BY <1>6, <2>2 DEF Reject, Record, TypeOK
    <3> QED BY <1>1, <1>2, <3>1, RowCountKept
  <2> QED BY <2>1, <2>2
<1>7. ASSUME NEW d \in Deliveries, Acknowledge(d)
      PROVE  \A w \in Workers : WorkerCount(w)'
  <2>1. d \in Workers /\ work'[d] = Start(d, 1, {})
    BY <1>7, AcknowledgeEffect DEF Workers
  <2>2. WorkerCount(d)'
    BY <1>1, <2>1 DEF WorkerCount, Start, On
  <2> QED BY <1>5, <1>7, <2>1, <2>2, AcknowledgeEffect
<1>8. ASSUME NEW w \in Workers, NEW s \in Steps, NEW o \in Outcomes, To(w, s, o), Busy(w),
             row' = row, failures' = failures
      PROVE  CountInv'
  <2>1. WorkerCount(w)'
    BY <1>2, <1>8, ToEffect DEF WorkerCount, Busy, On
  <2> QED BY <1>4, <1>5, <1>8, <2>1, ToEffect, CountPartsNext
<1>9. ASSUME NEW w \in Workers, Advance(w) PROVE \A v \in Workers : WorkerCount(v)'
  <2>1. work[w].rest \in SUBSET Claimed /\ failures \in [Deliveries -> Nat]
    BY DEF TypeOK, Job
  <2>2. ASSUME NEW c \in work[w].rest PROVE c.attempts <= failures'[c.d]
    <3>1. c.attempts \in Nat /\ c.d \in Deliveries /\ c.attempts <= failures[c.d]
      BY <1>2, <2>1 DEF Claimed, WorkerCount
    <3> QED BY <1>1, <3>1
  <2>3. ASSUME work'[w] = Idle PROVE WorkerCount(w)'
    BY <2>3 DEF WorkerCount, Busy, Idle
  <2>4. ASSUME NEW next \in work[w].rest,
               work'[w] = Start(next.d, next.attempts + 1, work[w].rest \ {next})
        PROVE  WorkerCount(w)'
    BY <1>1, <2>1, <2>2, <2>4, WorkerCountTakes
  <2>5. WorkerCount(w)'
    BY <1>9, <2>3, <2>4, AdvanceEffect
  <2> QED BY <1>5, <1>9, <2>5, AdvanceEffect
<1>10. ASSUME NEW w \in Workers, Stamp(w) PROVE CountInv'
  <2> DEFINE x == On(w)
  <2>1. x \in Deliveries /\ work[w] \in Job
    BY <1>10, BusyOn DEF Stamp, Busy, TypeOK
  <2>2. work[w].outcome = "retry" => failures'[x] = failures[x] + 1
    BY <1>10, <2>1, EndedEffect DEF Stamp
  <2>3. work[w].attempt \in Nat /\ work[w].attempt <= failures[x] + 1
    BY <1>2, <1>10, <2>1 DEF WorkerCount, Stamp, Busy, Job
  <2>4. ASSUME NEW d \in Deliveries PROVE RowCount(d)'
    <3>1. CASE d = x /\ HasRow(x)
      <4>1. row' = Stamped(work[w]) /\ work[w].step = "stamp"
        BY <1>10, <3>1 DEF Stamp
      <4>2. Stamped(work[w])[On(w)] =
              [state |-> StateAfter(row[On(w)].state, work[w]),
               attempts |-> work[w].attempt, error |-> ErrorAfter(work[w])]
        BY <2>1, <4>1, StampedEffect
      <4>3. /\ row'[d].state = StateAfter(row[x].state, work[w])
            /\ row'[d].attempts = work[w].attempt
            /\ row'[d].error = ErrorAfter(work[w])
        BY <3>1, <4>1, <4>2
      <4>4. row'[d].state = "pending" => row'[d].attempts <= failures'[d]
        BY <2>2, <2>3, <3>1, <4>3 DEF StateAfter
      <4>5. row'[d].error = "gaveup" => Exhausted(work[w])
        BY <2>1, <4>3 DEF ErrorAfter, Job
      <4>6. Exhausted(work[w]) => failures'[d] >= MaxAttempts
        BY <1>1, <2>1, <2>2, <2>3, <3>1, DeliveriesAssumption DEF Exhausted
      <4> QED BY <4>4, <4>5, <4>6 DEF RowCount, Pending
    <3>2. CASE d # x \/ ~HasRow(x)
      <4>1. work[w].step = "stamp" /\ row' = IF HasRow(x) THEN Stamped(work[w]) ELSE row
        BY <1>10 DEF Stamp
      <4>2. row'[d] = row[d]
        BY <2>1, <3>2, <4>1, StampedEffect
      <4> QED BY <1>1, <1>2, <4>2, RowCountKept
    <3> QED BY <3>1, <3>2
  <2> QED BY <1>9, <1>10, <2>4, CountPartsNext DEF Stamp
<1>11. ASSUME NEW w \in Workers, StampFails(w) PROVE CountInv'
  BY <1>4, <1>9, <1>11, CountPartsNext DEF StampFails
<1>12. ASSUME NEW w \in Workers, Evict(w) PROVE CountInv'
  <2>1. WorkerCount(w)'
    BY <1>12, EvictEffect DEF WorkerCount, Busy, Idle
  <2> QED BY <1>4, <1>5, <1>12, <2>1, EvictEffect, CountPartsNext DEF Evict
<1>13. ASSUME NEW c \in Drains, Drain(c) PROVE CountInv'
  <2> DEFINE rows == {[d |-> d, attempts |-> row[d].attempts] : d \in Batch}
  <2>1. c \in Workers
    BY DEF Workers
  <2>2. rows \in SUBSET Claimed /\ TakeFirst(c, rows)
    BY <1>13, BatchEffect DEF Drain
  <2>3. \A k \in rows : k.attempts <= failures'[k.d]
    <3> SUFFICES ASSUME NEW d \in Batch PROVE row[d].attempts <= failures'[d]
      OBVIOUS
    <3>1. d \in Deliveries /\ row[d].attempts <= failures[d] /\ row[d].attempts \in Nat
      BY <1>2, BatchEffect DEF RowCount, TypeOK, Row
    <3> QED BY <1>1, <3>1
  <2> HIDE DEF rows
  <2>4. WorkerCount(c)'
    BY <1>1, <2>1, <2>2, <2>3, TakeEffect, WorkerCountTakes
  <2>5. \A v \in Workers : WorkerCount(v)'
    BY <1>5, <2>1, <2>2, <2>4, TakeEffect
  <2> QED BY <1>4, <1>13, <2>5, CountPartsNext DEF Drain
<1>14. ASSUME NEW w \in Workers,
              Observe(w) \/ ObserveFails(w) \/ Refresh(w) \/ RefreshFails(w)
       PROVE  CountInv'
  BY <1>8, <1>14
  DEF Observe, ObserveFails, Refresh, RefreshFails, Busy, Steps, Outcomes
<1>15. ASSUME NEW d \in Deliveries, Route(d) PROVE CountInv'
  BY <1>3, <1>4, <1>6, <1>7, <1>15, CountPartsNext
  DEF Route, Reject, Receive, ReceiveUnrecorded, ReceiveUnanswered
<1>16. CASE row' = row /\ work' = work
  BY <1>3, <1>4, <1>16, CountPartsNext
<1> QED BY <1>10, <1>11, <1>12, <1>13, <1>14, <1>15, <1>16 DEF Next, Process, Age, vars

-----------------------------------------------------------------------------
\* The observation.

RowOnce(d) ==
  /\ log[d] <= 1
  /\ ~HasRow(d) /\ (d \notin acked \/ work[d].step = "observe") => log[d] = 0
  /\ d \in Forged => log[d] = 0

\* Nothing but an observation writes the log, and only of its own delivery.
LEMMA LogEffect ==
  ASSUME TypeOK, WorkInv, OnceInv, NEW w \in Workers, work[w].step = "observe"
  PROVE  /\ On(w) \in Deliveries \ Forged
         /\ Logged(On(w))[On(w)] = 1
         /\ \A d \in Deliveries : d # On(w) => Logged(On(w))[d] = log[d]
<1>1. On(w) \in Deliveries \ Forged
  BY BusyOn DEF Busy
<1>2. log \in [Deliveries -> Nat]
  BY DEF TypeOK
<1>3. ~HasRow(On(w)) => log[On(w)] = 0
  <2>1. ~HasRow(On(w)) => w \in Deliveries /\ On(w) = w
    BY DEF WorkInv, Busy, Workers
  <2> QED BY <1>1, <2>1 DEF OnceInv
<1> QED BY <1>1, <1>2, <1>3 DEF Logged

LEMMA NextOnceInv == TypeOK /\ WorkInv /\ OnceInv /\ [Next]_vars => OnceInv'
<1> SUFFICES ASSUME TypeOK, WorkInv, OnceInv, [Next]_vars, NEW d \in Deliveries
             PROVE  RowOnce(d)'
  BY DEF OnceInv, RowOnce
<1> USE DEF arrivals, ghosts
<1>1. RowOnce(d)
  BY DEF OnceInv, RowOnce
<1>2. HasRow(d) => HasRow(d)'
  BY RowsStay
<1>3. d \in Workers
  BY DEF Workers
\* The log stays, and the delivery does not come back to being unobserved.
<1>4. ASSUME log' = log, HasRow(d)' \/ d \in acked' \/ acked' = acked,
             HasRow(d)' \/ work'[d].step # "observe" \/ work'[d] = work[d]
                \/ d \notin acked
      PROVE  RowOnce(d)'
  BY <1>1, <1>2, <1>4 DEF RowOnce
<1>5. ASSUME NEW e \in Deliveries, Route(e) PROVE RowOnce(d)'
  <2>1. CASE Reject(e)
    BY <1>4, <2>1 DEF Reject
  <2>2. CASE ReceiveUnanswered(e)
    BY <1>4, <2>2 DEF ReceiveUnanswered
  <2>3. CASE Receive(e) \/ ReceiveUnrecorded(e)
    <3>1. Acknowledge(e) /\ log' = log /\ (d = e => d \in acked' \ acked \/ HasRow(d)')
      <4>1. Acknowledge(e) /\ log' = log
        BY <2>3 DEF Receive, ReceiveUnrecorded
      <4>2. CASE Receive(e)
        BY <4>1, <4>2 DEF Receive, Record, NewRow, HasRow, TypeOK
      <4>3. CASE ReceiveUnrecorded(e)
        BY <4>1, <4>3 DEF ReceiveUnrecorded, Unseen, Acknowledge, HasRow
      <4> QED BY <2>3, <4>1, <4>2, <4>3
    <3>2. CASE d = e
      BY <1>4, <3>1, <3>2
    <3>3. CASE d # e
      <4>1. work'[d] = work[d] /\ (d \in acked' <=> d \in acked)
        BY <1>3, <3>1, <3>3, AcknowledgeEffect
      <4> QED BY <1>1, <1>2, <3>1, <4>1 DEF RowOnce
    <3> QED BY <3>2, <3>3
  <2> QED BY <1>5, <2>1, <2>2, <2>3 DEF Route
\* An observation, landed or not.
<1>6. ASSUME NEW w \in Workers, work[w].step = "observe", log' \in {log, Logged(On(w))},
             row' = row, acked' = acked, NEW s \in {"refresh", "stamp"},
             NEW o \in Outcomes, To(w, s, o)
      PROVE  RowOnce(d)'
  <2>1. s \in Steps
    BY DEF Steps
  <2>2. work'[w].step = s /\ \A v \in Workers \ {w} : work'[v] = work[v]
    BY <1>6, <2>1, ToEffect
  <2>3. CASE log' = log
    BY <1>3, <1>4, <1>6, <2>2, <2>3
  <2>4. CASE log' = Logged(On(w)) /\ d # On(w)
    <3>1. log'[d] = log[d]
      BY <1>6, <2>4, LogEffect
    <3> QED BY <1>1, <1>3, <1>6, <2>2, <3>1 DEF RowOnce, HasRow
  <2>5. CASE log' = Logged(On(w)) /\ d = On(w)
    <3>1. log'[d] = 1 /\ d \notin Forged
      BY <1>6, <2>5, LogEffect
    <3>2. ~HasRow(d) => w = d /\ d \in acked
      BY <1>6, <2>5 DEF WorkInv, Busy, Workers
    <3> QED BY <1>6, <2>2, <3>1, <3>2 DEF RowOnce, HasRow
  <2> QED BY <1>6, <2>3, <2>4, <2>5
<1>7. ASSUME NEW w \in Workers, Observe(w) \/ ObserveFails(w) PROVE RowOnce(d)'
  BY <1>6, <1>7 DEF Observe, ObserveFails, Outcomes
<1>8. ASSUME NEW w \in Workers, Refresh(w) \/ RefreshFails(w) PROVE RowOnce(d)'
  <2>1. PICK o \in Outcomes : To(w, "stamp", o)
    BY <1>8 DEF Refresh, RefreshFails, Outcomes
  <2>2. "stamp" \in Steps
    BY DEF Steps
  <2>3. work'[d].step # "observe" \/ work'[d] = work[d]
    BY <1>3, <2>1, <2>2, ToEffect
  <2> QED BY <1>4, <1>8, <2>3 DEF Refresh, RefreshFails
<1>9. ASSUME NEW w \in Workers, Stamp(w) \/ StampFails(w) PROVE RowOnce(d)'
  <2>1. Advance(w) /\ log' = log /\ acked' = acked
    BY <1>9 DEF Stamp, StampFails
  <2>2. w = d => work'[d].step # "observe"
    <3>1. w = d => work[w].rest = {}
      BY DEF WorkInv
    <3>2. work'[w] = Idle \/ \E next \in work[w].rest : TRUE
      BY <2>1, AdvanceEffect
    <3> QED BY <3>1, <3>2, FirstSteps
  <2>3. work'[d].step # "observe" \/ work'[d] = work[d]
    BY <1>3, <2>1, <2>2, AdvanceEffect
  <2> QED BY <1>4, <2>1, <2>3
<1>10. ASSUME NEW w \in Workers, Evict(w) PROVE RowOnce(d)'
  <2>1. work'[d].step # "observe" \/ work'[d] = work[d]
    BY <1>3, <1>10, EvictEffect DEF Idle
  <2> QED BY <1>4, <1>10, <2>1 DEF Evict
<1>11. ASSUME NEW c \in Drains, Drain(c) PROVE RowOnce(d)'
  <2>1. work'[d] = work[d]
    BY <1>3, <1>11, BatchEffect, TakeEffect, DeliveriesAssumption DEF Drain, Workers
  <2> QED BY <1>4, <1>11, <2>1 DEF Drain
<1>12. CASE Age \/ UNCHANGED vars
  BY <1>4, <1>12 DEF Age, vars
<1> QED BY <1>5, <1>7, <1>8, <1>9, <1>10, <1>11, <1>12 DEF Next, Process

\* What is in the log stays there.
LEMMA LogGrows ==
  ASSUME TypeOK, WorkInv, OnceInv, [Next]_vars, NEW d \in Deliveries, log[d] >= 1
  PROVE  log'[d] >= 1
<1>1. ASSUME NEW w \in Workers, Observe(w) \/ ObserveFails(w) PROVE log'[d] >= 1
  <2>1. work[w].step = "observe" /\ log' \in {log, Logged(On(w))}
    BY <1>1 DEF Observe, ObserveFails
  <2> QED BY <2>1, LogEffect
<1>2. CASE log' = log
  BY <1>2
<1> QED BY <1>1, <1>2
        DEF Next, Route, Process, Reject, Receive, ReceiveUnrecorded, ReceiveUnanswered,
            Refresh, RefreshFails, Stamp, StampFails, Evict, Age, Drain, vars

WorkerObserved(w) ==
  /\ On(w) \in Observable
  /\ \/ work[w].step = "refresh"
     \/ work[w].step = "stamp" /\ work[w].outcome # "retry"
  => log[On(w)] >= 1
RowObserved(d) ==
  \/ d \in applied
  \/ row[d].state = "stamped" /\ row[d].error \in {"none", "terminal"}
  => log[d] >= 1

LEMMA ObservedParts ==
  ObservedInv <=> /\ \A w \in Workers : WorkerObserved(w)
                  /\ \A d \in Observable : RowObserved(d)
BY DEF ObservedInv, WorkerObserved, RowObserved

LEMMA ObservedPartsNext ==
  ObservedInv' <=> /\ \A w \in Workers : WorkerObserved(w)'
                   /\ \A d \in Observable : RowObserved(d)'
BY DEF ObservedInv, WorkerObserved, RowObserved

LEMMA NextObservedInv ==
  TypeOK /\ WorkInv /\ OnceInv /\ ObservedInv /\ [Next]_vars => ObservedInv'
<1> SUFFICES ASSUME TypeOK, WorkInv, OnceInv, ObservedInv, [Next]_vars
             PROVE  ObservedInv'
  OBVIOUS
<1> USE DEF arrivals, ghosts
<1>1. \A d \in Deliveries : log[d] >= 1 => log'[d] >= 1
  BY LogGrows
<1>2. \A w \in Workers : WorkerObserved(w)
  BY ObservedParts
<1>3. \A d \in Observable : d \in Deliveries /\ RowObserved(d)
  BY ObservedParts, DeliveriesAssumption
\* Workers and rows that a step leaves alone.
<1>4. ASSUME NEW w \in Workers, work'[w] = work[w] PROVE WorkerObserved(w)'
  BY <1>1, <1>2, <1>4, DeliveriesAssumption DEF WorkerObserved, On
<1>5. ASSUME NEW w \in Workers, work'[w].step \in {"idle", "observe"}
      PROVE  WorkerObserved(w)'
  BY <1>5 DEF WorkerObserved
<1>6. ASSUME NEW d \in Observable, row'[d] = row[d], d \in applied' => d \in applied
      PROVE  RowObserved(d)'
  BY <1>1, <1>3, <1>6 DEF RowObserved
<1>7. ASSUME NEW e \in Deliveries, Reject(e) \/ Record(e) \/ row' = row, applied' = applied
      PROVE  \A d \in Observable : RowObserved(d)'
  <2> SUFFICES ASSUME NEW d \in Observable PROVE RowObserved(d)'
    OBVIOUS
  <2>1. CASE row' # row /\ d = e
    <3>1. row'[d] \in {NewRow, RejectedRow}
      BY <1>3, <1>7, <2>1 DEF Reject, Record, TypeOK
    <3>2. ~(row'[d].state = "stamped" /\ row'[d].error \in {"none", "terminal"})
      BY <3>1 DEF NewRow, RejectedRow
    <3> QED BY <1>1, <1>3, <1>7, <3>2 DEF RowObserved
  <2>2. CASE row' = row \/ d # e
    <3>1. row'[d] = row[d]
      BY <1>3, <1>7, <2>2 DEF Reject, Record, TypeOK
    <3> QED BY <1>6, <1>7, <3>1
  <2> QED BY <2>1, <2>2
<1>8. ASSUME NEW e \in Deliveries, Route(e) PROVE ObservedInv'
  <2>1. \A d \in Observable : RowObserved(d)'
    BY <1>7, <1>8 DEF Route, Reject, Receive, ReceiveUnrecorded, ReceiveUnanswered
  <2>2. CASE Receive(e) \/ ReceiveUnrecorded(e)
    <3>1. work'[e].step = "observe" /\ \A v \in Workers \ {e} : work'[v] = work[v]
      BY <2>2, AcknowledgeEffect, FirstSteps DEF Receive, ReceiveUnrecorded
    <3> QED BY <1>4, <1>5, <2>1, <3>1, ObservedPartsNext DEF Workers
  <2>3. CASE Reject(e) \/ ReceiveUnanswered(e)
    BY <1>4, <2>1, <2>3, ObservedPartsNext DEF Reject, ReceiveUnanswered
  <2> QED BY <1>8, <2>2, <2>3 DEF Route
<1>9. ASSUME NEW w \in Workers, row' = row, applied' = applied, WorkerObserved(w)',
             \A v \in Workers \ {w} : work'[v] = work[v]
      PROVE  ObservedInv'
  BY <1>4, <1>6, <1>9, ObservedPartsNext
<1>10. ASSUME NEW w \in Workers, Observe(w) PROVE ObservedInv'
  <2>1. On(w) \in Observable => log'[On(w)] = 1
    BY <1>10, LogEffect DEF Observe
  <2>2. work'[w].on = work[w].on /\ \A v \in Workers \ {w} : work'[v] = work[v]
    BY <1>10, ToEffect DEF Observe, Steps, Outcomes
  <2>3. WorkerObserved(w)'
    BY <2>1, <2>2 DEF WorkerObserved, On
  <2> QED BY <1>9, <1>10, <2>2, <2>3 DEF Observe
<1>11. ASSUME NEW w \in Workers, ObserveFails(w) \/ RefreshFails(w) PROVE ObservedInv'
  <2>1. To(w, "stamp", "retry")
    BY <1>11 DEF ObserveFails, RefreshFails
  <2>2. /\ work'[w].step = "stamp" /\ work'[w].outcome = "retry"
        /\ \A v \in Workers \ {w} : work'[v] = work[v]
    BY <2>1, ToEffect DEF Steps, Outcomes
  <2>3. WorkerObserved(w)'
    BY <2>2 DEF WorkerObserved
  <2> QED BY <1>9, <1>11, <2>2, <2>3 DEF ObserveFails, RefreshFails
<1>12. ASSUME NEW w \in Workers, Refresh(w) PROVE ObservedInv'
  <2>1. On(w) \in Observable => log[On(w)] >= 1
    BY <1>2, <1>12 DEF Refresh, WorkerObserved
  <2>2. PICK o \in Outcomes : To(w, "stamp", o)
    BY <1>12 DEF Refresh, Outcomes
  <2>3. work'[w].on = work[w].on /\ \A v \in Workers \ {w} : work'[v] = work[v]
    BY <2>2, ToEffect DEF Steps
  <2>4. log' = log /\ row' = row /\ applied' \subseteq applied \cup {On(w)}
    BY <1>12 DEF Refresh
  <2>5. WorkerObserved(w)'
    BY <2>1, <2>3, <2>4 DEF WorkerObserved, On
  <2>6. ASSUME NEW d \in Observable PROVE RowObserved(d)'
    BY <1>3, <2>1, <2>4 DEF RowObserved
  <2> QED BY <1>4, <2>3, <2>5, <2>6, ObservedPartsNext
<1>13. ASSUME NEW w \in Workers, Advance(w) PROVE \A v \in Workers : WorkerObserved(v)'
  <2>1. work'[w].step \in {"idle", "observe"}
    BY <1>13, AdvanceEffect
  <2> QED BY <1>4, <1>5, <1>13, <2>1, AdvanceEffect
<1>14. ASSUME NEW w \in Workers, Stamp(w) PROVE ObservedInv'
  <2>1. On(w) \in Deliveries /\ work[w] \in Job /\ work[w].step = "stamp"
    BY <1>14, BusyOn DEF Stamp, Busy, TypeOK
  <2>2. log' = log /\ applied' = applied /\ Advance(w)
    BY <1>14 DEF Stamp
  <2>3. ASSUME NEW d \in Observable PROVE RowObserved(d)'
    <3>1. CASE d = On(w) /\ HasRow(On(w))
      <4>1. row' = Stamped(work[w])
        BY <1>14, <3>1 DEF Stamp
      <4>2. Stamped(work[w])[On(w)] =
              [state |-> StateAfter(row[On(w)].state, work[w]),
               attempts |-> work[w].attempt, error |-> ErrorAfter(work[w])]
        BY <2>1, StampedEffect
      <4>3. row'[d].error = ErrorAfter(work[w])
        BY <3>1, <4>1, <4>2
      <4>4. work[w].outcome = "retry" => row'[d].error \in {"gaveup", "retry"}
        BY <4>3 DEF ErrorAfter
      <4>5. work[w].outcome # "retry" => log'[d] >= 1
        BY <1>2, <2>1, <2>2, <3>1 DEF WorkerObserved
      <4> QED BY <1>1, <1>3, <2>2, <4>4, <4>5 DEF RowObserved
    <3>2. CASE d # On(w) \/ ~HasRow(On(w))
      <4>1. row' = IF HasRow(On(w)) THEN Stamped(work[w]) ELSE row
        BY <1>14 DEF Stamp
      <4>2. row'[d] = row[d]
        BY <1>3, <2>1, <3>2, <4>1, StampedEffect
      <4> QED BY <1>6, <2>2, <4>2
    <3> QED BY <3>1, <3>2
  <2> QED BY <1>13, <2>2, <2>3, ObservedPartsNext
<1>15. ASSUME NEW w \in Workers, StampFails(w) PROVE ObservedInv'
  BY <1>6, <1>13, <1>15, ObservedPartsNext DEF StampFails
<1>16. ASSUME NEW w \in Workers, Evict(w) PROVE ObservedInv'
  BY <1>5, <1>9, <1>16, EvictEffect DEF Evict, Idle
<1>17. ASSUME NEW c \in Drains, Drain(c) PROVE ObservedInv'
  <2>1. c \in Workers
    BY DEF Workers
  <2>2. work'[c].step = "observe" /\ \A v \in Workers \ {c} : work'[v] = work[v]
    BY <1>17, <2>1, BatchEffect, TakeEffect DEF Drain
  <2> QED BY <1>5, <1>9, <1>17, <2>1, <2>2 DEF Drain
<1>18. CASE Age \/ UNCHANGED vars
  BY <1>4, <1>6, <1>18, ObservedPartsNext DEF Age, vars
<1> QED BY <1>8, <1>10, <1>11, <1>12, <1>14, <1>15, <1>16, <1>17, <1>18
        DEF Next, Process

-----------------------------------------------------------------------------
\* The theorems.

Inv == TypeOK /\ WorkInv /\ CountInv /\ OnceInv /\ ObservedInv

LEMMA InvAlways == Spec => []Inv
<1>1. Init => Inv
  BY InitInv DEF Inv
<1>2. Inv /\ [Next]_vars => Inv'
  BY NextTypeOK, NextWorkInv, NextCountInv, NextOnceInv, NextObservedInv DEF Inv
<1> QED BY <1>1, <1>2, PTL DEF Spec

\* Every reachable state of the deliveries is well-typed.
THEOREM TypeCorrect == Spec => []TypeOK
<1>1. Inv => TypeOK
  BY DEF Inv
<1> QED BY <1>1, InvAlways, PTL

\* No delivery is done before its observation is in the log.
THEOREM ObservationFirst == Spec => []ObservationComesFirst
<1>1. Inv => ObservationComesFirst
  BY DEF Inv, ObservedInv, ObservationComesFirst
<1> QED BY <1>1, InvAlways, PTL

\* No delivery is observed twice.
THEOREM Observations == Spec => []ObservedOnce
<1>1. Inv => ObservedOnce
  BY DEF Inv, OnceInv, ObservedOnce
<1> QED BY <1>1, InvAlways, PTL

\* No row is given up before MaxAttempts attempts failed.
THEOREM GivesUp == Spec => []GivesUpOnlyAfterEnough
<1>1. Inv => GivesUpOnlyAfterEnough
  BY DEF Inv, CountInv, GivesUpOnlyAfterEnough
<1> QED BY <1>1, InvAlways, PTL

\* Nothing is ever done for a rejected delivery.
THEOREM Rejects == Spec => []RejectsAreInert
<1>1. Inv => RejectsAreInert
  BY DeliveriesAssumption DEF Inv, WorkInv, OnceInv, RejectsAreInert
<1> QED BY <1>1, InvAlways, PTL

\* processed_at, once set, is never cleared.
THEOREM Final == Spec => StampIsFinal
<1>1. ASSUME Inv, [Next]_vars, NEW d \in Deliveries, row[d].state = "stamped"
      PROVE  row'[d].state = "stamped"
  <2> USE DEF arrivals, ghosts
  <2>1. TypeOK /\ WorkInv /\ HasRow(d)
    BY <1>1 DEF Inv, HasRow
  <2>2. ASSUME NEW e \in Deliveries, Reject(e) \/ Record(e) PROVE row'[d] = row[d]
    BY <2>1, <2>2 DEF Reject, Record, Unseen, TypeOK
  <2>3. ASSUME NEW w \in Workers, Stamp(w) PROVE row'[d].state = "stamped"
    <3>1. On(w) \in Deliveries /\ work[w].step = "stamp"
      BY <2>1, <2>3, BusyOn DEF Stamp, Busy
    <3>2. row' = IF HasRow(On(w)) THEN Stamped(work[w]) ELSE row
      BY <2>3 DEF Stamp
    <3>3. Stamped(work[w])[On(w)] =
            [state |-> StateAfter(row[On(w)].state, work[w]),
             attempts |-> work[w].attempt, error |-> ErrorAfter(work[w])]
      BY <2>1, <3>1, StampedEffect
    <3>4. CASE d = On(w)
      BY <1>1, <2>1, <3>2, <3>3, <3>4 DEF StateAfter
    <3>5. CASE d # On(w)
      BY <1>1, <2>1, <3>1, <3>2, <3>5, StampedEffect
    <3> QED BY <3>4, <3>5
  <2>4. CASE row' = row
    BY <1>1, <2>4
  <2> QED BY <1>1, <2>2, <2>3, <2>4
          DEF Next, Route, Process, Receive, ReceiveUnrecorded, ReceiveUnanswered,
              Observe, ObserveFails, Refresh, RefreshFails, StampFails, Evict, Age, Drain, vars
<1>2. Inv /\ [Next]_vars =>
        [\A d \in Deliveries : row[d].state = "stamped" => row'[d].state = "stamped"]_vars
  BY <1>1
<1> QED BY <1>2, InvAlways, PTL DEF Spec, StampIsFinal
=============================================================================
