-------------------------- MODULE EmailQueueProofs --------------------------
(***************************************************************************)
(* Theorems about EmailQueue, for every set of emails, runs, kinds and     *)
(* routes, every limit and every number of faults and operator actions,    *)
(* and the proof that it implements Outbox.                                *)
(***************************************************************************)
EXTENDS EmailQueue, FiniteSetTheorems, TLAPS

\* Every reachable state of the queue is well-typed.
LEMMA InitTypeOK == Init => TypeOK
BY RunsAssumption, LimitAssumption DEF Init, TypeOK, WorkStates, Transports, Runs

LEMMA EnqueuedCount ==
  Cardinality({d \in Emails : Queued(d)}) \in Nat
BY RunsAssumption, FS_Subset, FS_CardinalityType

\* What a step that moves one row of one run does to work.
LEMMA SetWorkEffect ==
  ASSUME TypeOK, NEW r \in Runs, NEW e \in Emails, NEW w \in WorkStates,
         SetWork(r, e, w)
  PROVE  /\ work' \in [Runs -> [Emails -> WorkStates]]
         /\ \A q \in Runs, d \in Emails :
              work'[q][d] = IF q = r /\ d = e THEN w ELSE work[q][d]
BY DEF TypeOK, SetWork

\* The confirm endpoint's read keeps send_attempts as they are now.
LEMMA ReadEffect ==
  ASSUME NEW r \in Runs, NEW e \in Emails, PaReadAttempts(r, e),
         attempts[e] \in Nat, snap \in [Runs -> [Emails -> Nat]]
  PROVE  snap' \in [Runs -> [Emails -> Nat]]
BY DEF PaReadAttempts

LEMMA NextTypeOK == TypeOK /\ [Next]_vars => TypeOK'
<1> SUFFICES ASSUME TypeOK, [Next]_vars PROVE TypeOK'
  OBVIOUS
<1> DEFINE WorkType == work \in [Runs -> [Emails -> WorkStates]]
<1> USE DEF rowVars, drainVars, adminVars, sendVars, Transports,
        Excuse, Fault, Operate
<1>1. ASSUME NEW e \in Emails, Enqueue(e) PROVE TypeOK'
  BY <1>1, EnqueuedCount DEF Enqueue, TypeOK
<1>2. ASSUME NEW r \in Runs, NEW n, Claim(r, n) PROVE TypeOK'
  <2>1. WorkType' /\ snap' \in [Runs -> [Emails -> Nat]]
    BY <1>2 DEF Claim, TypeOK, WorkStates
  <2> QED BY <1>2, <2>1 DEF Claim, TypeOK
<1>3. ASSUME NEW r \in Runs, NEW e \in Emails, Transmit(r, e) PROVE TypeOK'
  <2>1. WorkType'
    BY <1>3, SetWorkEffect DEF Transmit, WorkStates
  <2>2. sends' \in [Emails -> Nat]
    BY <1>3 DEF Transmit, Deliver, TypeOK
  <2>3. carriers' \in [Emails -> SUBSET Transports]
    BY <1>3 DEF Transmit, Deliver, TransportOf, TypeOK
  <2>4. faults' \in Nat
    BY <1>3 DEF Transmit, TypeOK
  <2>5. excuses' \in [Emails -> Nat]
    BY <1>3 DEF Transmit, TypeOK
  <2> QED BY <1>3, <2>1, <2>2, <2>3, <2>4, <2>5 DEF Transmit, TypeOK
<1>4. ASSUME NEW r \in Runs, NEW e \in Emails, PaMarkSent(r, e) PROVE TypeOK'
  <2>1. WorkType'
    BY <1>4, SetWorkEffect DEF PaMarkSent, WorkStates, TypeOK
  <2> QED BY <1>4, <2>1 DEF PaMarkSent, RecordSent, TransportOf, TypeOK
<1>5. ASSUME NEW r \in Runs, NEW e \in Emails, PaReadAttempts(r, e) PROVE TypeOK'
  <2>1. WorkType'
    BY <1>5, SetWorkEffect DEF PaReadAttempts, WorkStates
  <2>2. attempts[e] \in Nat
    BY DEF TypeOK
  <2>3. snap' \in [Runs -> [Emails -> Nat]]
    BY <1>5, <2>2, ReadEffect DEF TypeOK
  <2> QED BY <1>5, <2>1, <2>3 DEF PaReadAttempts, TypeOK
<1>6. ASSUME NEW r \in Runs, NEW e \in Emails, PaMarkFailed(r, e) PROVE TypeOK'
  <2>1. WorkType'
    BY <1>6, SetWorkEffect DEF PaMarkFailed, WorkStates
  <2>2. attempts' \in [Emails -> Nat]
    BY <1>6 DEF PaMarkFailed, RecordFailed, TypeOK
  <2>3. claimId' \in [Emails -> Runs \cup {NoClaim}] /\ stale' \in SUBSET Emails
    BY <1>6 DEF PaMarkFailed, RecordFailed, TypeOK
  <2>4. faults' \in Nat
    BY <1>6 DEF PaMarkFailed, TypeOK
  <2> QED BY <1>6, <2>1, <2>2, <2>3, <2>4 DEF PaMarkFailed, TypeOK
<1>7. ASSUME NEW r \in Runs, NEW e \in Emails, CfMarkSent(r, e) PROVE TypeOK'
  <2>1. WorkType'
    BY <1>7, SetWorkEffect DEF CfMarkSent, WorkStates
  <2>2. sentVia' \in [Emails -> Transports \cup {"none"}]
    BY <1>7 DEF CfMarkSent, RecordSent, TransportOf, TypeOK
  <2>3. faults' \in Nat
    BY <1>7 DEF CfMarkSent, TypeOK
  <2>4. excuses' \in [Emails -> Nat]
    BY <1>7 DEF CfMarkSent, TypeOK
  <2> QED BY <1>7, <2>1, <2>2, <2>3, <2>4 DEF CfMarkSent, TypeOK
<1>8. ASSUME NEW r \in Runs, NEW e \in Emails, CfMarkFailed(r, e) PROVE TypeOK'
  <2>1. WorkType'
    BY <1>8, SetWorkEffect DEF CfMarkFailed, WorkStates
  <2>2. attempts' \in [Emails -> Nat]
    BY <1>8 DEF CfMarkFailed, RecordFailed, TypeOK
  <2>3. claimId' \in [Emails -> Runs \cup {NoClaim}] /\ stale' \in SUBSET Emails
    BY <1>8 DEF CfMarkFailed, RecordFailed, TypeOK
  <2> QED BY <1>8, <2>1, <2>2, <2>3 DEF CfMarkFailed, TypeOK
<1>9. ASSUME NEW r \in Runs, Crash(r) PROVE TypeOK'
  <2>1. WorkType'
    BY <1>9 DEF Crash, TypeOK, WorkStates
  <2> QED BY <1>9, <2>1 DEF Crash, TypeOK
<1>10. ASSUME NEW r \in Runs, ClaimExpires(r) PROVE TypeOK'
  BY <1>10 DEF ClaimExpires, TypeOK
<1>11. ASSUME Admin PROVE TypeOK'
  <2>1. ASSUME NEW e \in Emails, Retry(e) PROVE TypeOK'
    BY <2>1 DEF Retry, TypeOK
  <2>2. ASSUME NEW e \in Emails, ViewStuck(e) PROVE TypeOK'
    BY <2>2 DEF ViewStuck, TypeOK
  <2>3. ASSUME NEW e \in Emails, Abandon(e) PROVE TypeOK'
    BY <2>3, LimitAssumption DEF Abandon, TypeOK
  <2>4. ASSUME NEW k \in Kinds, NEW t \in Transports, SetRoute(k, t) PROVE TypeOK'
    BY <2>4 DEF SetRoute, TypeOK
  <2> QED BY <1>11, <2>1, <2>2, <2>3, <2>4 DEF Admin
<1>12. CASE UNCHANGED vars
  BY <1>12 DEF vars, TypeOK
<1> QED
  BY <1>1, <1>2, <1>3, <1>4, <1>5, <1>6, <1>7, <1>8, <1>9, <1>10, <1>11, <1>12
  DEF Next, PaClaim, CfClaim, PaStep, CfStep, PaSend, CfSend, Runs

THEOREM TypeCorrect == Spec => []TypeOK
BY InitTypeOK, NextTypeOK, PTL DEF Spec

-----------------------------------------------------------------------------
\* Counting the copies of an email.

LEMMA TodoFinite ==
  ASSUME NEW e \in Emails
  PROVE  IsFiniteSet(AboutToSend(e)) /\ Cardinality(AboutToSend(e)) \in Nat
<1>1. IsFiniteSet(Runs)
  BY RunsAssumption, FS_Union DEF Runs
<1> QED BY <1>1, FS_Subset, FS_CardinalityType DEF AboutToSend

LEMMA TodoFiniteNext ==
  ASSUME NEW e \in Emails
  PROVE  IsFiniteSet(AboutToSend(e)') /\ Cardinality(AboutToSend(e)') \in Nat
<1>1. IsFiniteSet(Runs)
  BY RunsAssumption, FS_Union DEF Runs
<1> QED BY <1>1, FS_Subset, FS_CardinalityType DEF AboutToSend

\* Moving one row of one run on leaves the other rows' senders alone.
LEMMA SetWorkTodo ==
  ASSUME TypeOK, NEW r \in Runs, NEW e \in Emails, NEW w \in WorkStates \ {"todo"},
         SetWork(r, e, w), NEW d \in Emails
  PROVE  AboutToSend(d)' = IF d = e THEN AboutToSend(d) \ {r} ELSE AboutToSend(d)
BY SetWorkEffect DEF AboutToSend

\* A step that records a result changes no copy count.
LEMMA SettleCopies ==
  ASSUME TypeOK, NEW r \in Runs, NEW e \in Emails, NEW w \in WorkStates \ {"todo"},
         SetWork(r, e, w), work[r][e] # "todo", UNCHANGED sends, NEW d \in Emails
  PROVE  Copies(d)' = Copies(d)
<1>1. AboutToSend(d)' = AboutToSend(d)
  BY SetWorkTodo DEF AboutToSend
<1> QED BY <1>1 DEF Copies

\* What Transmit does to the counts.
LEMMA TransmitCopies ==
  ASSUME TypeOK, NEW r \in Runs, NEW e \in Emails, Transmit(r, e), NEW d \in Emails
  PROVE  /\ Copies(d) \in Nat /\ Copies(d)' \in Nat
         /\ excuses[d] \in Nat /\ excuses'[d] \in Nat
         /\ Copies(d)' <= Copies(d) /\ excuses'[d] >= excuses[d]
         /\ work'[r][e] = "rejected" /\ d = e =>
              \/ Copies(d)' = Copies(d) - 1
              \/ excuses'[d] = excuses[d] + 1
<1>1. PICK w \in {"accepted", "rejected"} : SetWork(r, e, w)
  BY DEF Transmit
<1>2. AboutToSend(d)' = IF d = e THEN AboutToSend(d) \ {r} ELSE AboutToSend(d)
  BY <1>1, SetWorkTodo DEF WorkStates
<1>3. r \in AboutToSend(e)
  BY DEF Transmit, AboutToSend
<1>4. Cardinality(AboutToSend(d)') =
        IF d = e THEN Cardinality(AboutToSend(d)) - 1 ELSE Cardinality(AboutToSend(d))
  BY <1>2, <1>3, TodoFinite, FS_RemoveElement
<1>5. Cardinality(AboutToSend(d)) \in Nat /\ Cardinality(AboutToSend(d)') \in Nat
  BY TodoFinite, TodoFiniteNext
<1>6. sends[d] \in Nat /\ excuses[d] \in Nat
  BY DEF TypeOK
<1>7. \/ sends' = sends /\ excuses' = excuses
      \/ sends' = [sends EXCEPT ![e] = @ + 1] /\ excuses' = excuses /\ work'[r][e] = "accepted"
      \/ sends' = [sends EXCEPT ![e] = @ + 1] /\ excuses' = [excuses EXCEPT ![e] = @ + 1]
  BY SetWorkEffect DEF Transmit, Deliver, Excuse, sendVars, WorkStates
<1>8. sends \in [Emails -> Nat] /\ excuses \in [Emails -> Nat]
  BY DEF TypeOK
<1>9. CASE d # e
  BY <1>4, <1>5, <1>6, <1>7, <1>8, <1>9 DEF Copies
<1>10. CASE d = e
  <2>1. CASE sends' = sends /\ excuses' = excuses
    BY <1>4, <1>5, <1>6, <2>1, <1>10 DEF Copies
  <2>2. CASE sends' = [sends EXCEPT ![e] = @ + 1] /\ excuses' = excuses /\ work'[r][e] = "accepted"
    BY <1>4, <1>5, <1>6, <1>8, <2>2, <1>10 DEF Copies
  <2>3. CASE sends' = [sends EXCEPT ![e] = @ + 1] /\ excuses' = [excuses EXCEPT ![e] = @ + 1]
    BY <1>4, <1>5, <1>6, <1>8, <2>3, <1>10 DEF Copies
  <2> QED BY <2>1, <2>2, <2>3, <1>7
<1> QED BY <1>9, <1>10

-----------------------------------------------------------------------------
\* CopyInv is inductive.

LEMMA InitCopyInv == Init => CopyInv
<1> SUFFICES ASSUME Init, NEW e \in Emails
             PROVE  Copies(e) = 0 /\ excuses[e] = 0 /\ (\A r \in Runs : work[r][e] = "none")
  BY DEF CopyInv
<1>1. AboutToSend(e) = {}
  BY DEF Init, AboutToSend
<1> QED BY <1>1, FS_EmptySet DEF Init, Copies

\* Taking rows over: one more sender per row of the batch, and one more
\* excuse for each row that had a claim.
LEMMA ClaimCopyInv ==
  ASSUME TypeOK, CopyInv, NEW r \in Runs, NEW n, Claim(r, n)
  PROVE  CopyInv'
<1> SUFFICES ASSUME NEW e \in Emails
             PROVE  /\ Copies(e)' <= 1 + excuses'[e]
                    /\ Unsent(e)' /\ claimId'[e] = NoClaim => Copies(e)' <= excuses'[e]
                    /\ \A q \in Runs :
                         Unsent(e)' /\ Holds(q, e)' /\ work'[q][e] \in {"rejected", "reading"}
                           => Copies(e)' <= excuses'[e]
  BY DEF CopyInv
<1>1. PICK B \in SUBSET Emails :
        /\ \A d \in B : Unsent(d) /\ (claimId[d] = NoClaim \/ d \in stale)
        /\ claimId' = [d \in Emails |-> IF d \in B THEN r ELSE claimId[d]]
        /\ work' = [work EXCEPT ![r] = [d \in Emails |-> IF d \in B THEN "todo" ELSE "none"]]
        /\ excuses' = [d \in Emails |-> IF d \in B \cap stale THEN excuses[d] + 1
                                                           ELSE excuses[d]]
  BY DEF Claim, Batches, Eligible
<1>2. \A d \in Emails : work[r][d] = "none"
  BY DEF Claim, Fresh, Working
<1>3. \A q \in Runs : work'[q][e] = IF q = r THEN IF e \in B THEN "todo" ELSE "none"
                                             ELSE work[q][e]
  BY <1>1 DEF TypeOK
<1>4. sends' = sends /\ sentVia' = sentVia
  BY DEF Claim, sendVars
<1>5. Cardinality(AboutToSend(e)) \in Nat /\ sends[e] \in Nat /\ excuses[e] \in Nat
  BY TodoFinite DEF TypeOK
<1>6. CASE e \in B
  <2>1. AboutToSend(e)' = AboutToSend(e) \cup {r} /\ r \notin AboutToSend(e)
    BY <1>2, <1>3, <1>6 DEF AboutToSend
  <2>2. Copies(e)' = Copies(e) + 1
    <3>1. Cardinality(AboutToSend(e)') = Cardinality(AboutToSend(e)) + 1
      BY <2>1, TodoFinite, FS_AddElement
    <3> QED BY <3>1, <1>4, <1>5 DEF Copies
  <2>3. Copies(e) \in Nat
    BY <1>5 DEF Copies
  <2>4. Copies(e)' <= 1 + excuses'[e]
    BY <1>1, <1>6, <2>2, <2>3, <1>5 DEF CopyInv
  <2>5. claimId'[e] = r /\ work'[r][e] = "todo" /\ r # NoClaim
    BY <1>1, <1>3, <1>6, RunsAssumption DEF Runs
  <2> QED BY <2>4, <2>5 DEF Holds
<1>7. CASE e \notin B
  <2>1. AboutToSend(e)' = AboutToSend(e)
    BY <1>2, <1>3, <1>7 DEF AboutToSend
  <2>2. Copies(e)' = Copies(e)
    BY <2>1, <1>4 DEF Copies
  <2>3. claimId'[e] = claimId[e] /\ excuses'[e] = excuses[e]
    BY <1>1, <1>7
  <2> QED BY <2>2, <2>3, <1>2, <1>3, <1>4, <1>7 DEF CopyInv, Unsent, Holds
<1> QED BY <1>6, <1>7

LEMMA TransmitCopyInv ==
  ASSUME TypeOK, CopyInv, NEW r \in Runs, NEW e \in Emails, Transmit(r, e)
  PROVE  CopyInv'
<1> SUFFICES ASSUME NEW d \in Emails
             PROVE  /\ Copies(d)' <= 1 + excuses'[d]
                    /\ Unsent(d)' /\ claimId'[d] = NoClaim => Copies(d)' <= excuses'[d]
                    /\ \A q \in Runs :
                         Unsent(d)' /\ Holds(q, d)' /\ work'[q][d] \in {"rejected", "reading"}
                           => Copies(d)' <= excuses'[d]
  BY DEF CopyInv
<1>1. claimId' = claimId /\ sentVia' = sentVia
  BY DEF Transmit, rowVars
<1>2. PICK w \in WorkStates : SetWork(r, e, w)
  BY DEF Transmit, WorkStates
<1>3. \A q \in Runs : q # r \/ d # e => work'[q][d] = work[q][d]
  BY <1>2, SetWorkEffect
<1>4. Copies(d)' <= 1 + excuses'[d]
  BY TransmitCopies DEF CopyInv
<1>5. Unsent(d)' /\ claimId'[d] = NoClaim => Copies(d)' <= excuses'[d]
  BY TransmitCopies, <1>1 DEF CopyInv, Unsent
<1>6. ASSUME NEW q \in Runs, Unsent(d)', Holds(q, d)', work'[q][d] \in {"rejected", "reading"}
      PROVE  Copies(d)' <= excuses'[d]
  <2>1. CASE q # r \/ d # e
    BY <2>1, <1>1, <1>3, <1>6, TransmitCopies DEF CopyInv, Unsent, Holds
  <2>2. CASE q = r /\ d = e
    <3>1. work'[r][e] # "reading"
      BY SetWorkEffect DEF Transmit, WorkStates
    <3>2. work'[r][e] = "rejected"
      BY <2>2, <1>6, <3>1
    <3> QED BY <3>2, <2>2, TransmitCopies DEF CopyInv
  <2> QED BY <2>1, <2>2
<1> QED BY <1>4, <1>5, <1>6

\* A step that records a result: no copy count moves, a claim is released
\* only by a run that saw a failure, and a run comes to see a failure only
\* as an excuse, or as it was before.
LEMMA SettleCopyInv ==
  ASSUME TypeOK, CopyInv, NEW r \in Runs, NEW e \in Emails,
         \/ PaMarkSent(r, e) \/ PaReadAttempts(r, e) \/ PaMarkFailed(r, e)
         \/ CfMarkSent(r, e) \/ CfMarkFailed(r, e)
  PROVE  CopyInv'
<1> SUFFICES ASSUME NEW d \in Emails
             PROVE  /\ Copies(d)' <= 1 + excuses'[d]
                    /\ Unsent(d)' /\ claimId'[d] = NoClaim => Copies(d)' <= excuses'[d]
                    /\ \A q \in Runs :
                         Unsent(d)' /\ Holds(q, d)' /\ work'[q][d] \in {"rejected", "reading"}
                           => Copies(d)' <= excuses'[d]
  BY DEF CopyInv
<1>1. work' = work \/ \E w \in WorkStates \ {"todo"} : SetWork(r, e, w)
  BY DEF PaMarkSent, PaReadAttempts, PaMarkFailed, CfMarkSent, CfMarkFailed, WorkStates
<1>2. UNCHANGED sends /\ work[r][e] # "todo"
  BY DEF PaMarkSent, PaReadAttempts, PaMarkFailed, CfMarkSent, CfMarkFailed, sendVars
<1>3. Copies(d)' = Copies(d)
  BY <1>1, <1>2, SettleCopies DEF Copies, AboutToSend
<1>4. Copies(d) \in Nat /\ excuses[d] \in Nat
  BY TodoFinite DEF Copies, TypeOK
<1>5. \A q \in Runs : q # r \/ d # e => work'[q][d] = work[q][d]
  BY <1>1, SetWorkEffect
<1>6. Unsent(d)' => Unsent(d)
  BY DEF PaMarkSent, PaReadAttempts, PaMarkFailed, CfMarkSent, CfMarkFailed,
         RecordSent, TransportOf, Unsent, rowVars, TypeOK
<1>7. \/ claimId' = claimId
      \/ /\ claimId' = [claimId EXCEPT ![e] = NoClaim]
         /\ Holds(r, e) /\ work[r][e] \in {"rejected", "reading"}
         /\ excuses' = excuses
  BY DEF PaMarkSent, PaReadAttempts, PaMarkFailed, CfMarkSent, CfMarkFailed,
         RecordFailed, rowVars
<1>8. \/ excuses' = excuses
      \/ claimId' = claimId /\ excuses' = [excuses EXCEPT ![e] = @ + 1]
  BY DEF PaMarkSent, PaReadAttempts, PaMarkFailed, CfMarkSent, CfMarkFailed,
         RecordFailed, Excuse
<1>9. excuses'[d] >= excuses[d] /\ excuses'[d] \in Nat
  BY <1>4, <1>8 DEF TypeOK
<1>10. work'[r][e] \in {"rejected", "reading"} =>
         \/ work[r][e] \in {"rejected", "reading"}
         \/ excuses' = [excuses EXCEPT ![e] = @ + 1]
  BY SetWorkEffect DEF PaMarkSent, PaReadAttempts, PaMarkFailed, CfMarkSent,
         CfMarkFailed, Excuse, WorkStates
<1>11. Unsent(d)' /\ claimId'[d] = NoClaim => Copies(d)' <= excuses'[d]
  <2>1. CASE claimId' = claimId
    BY <2>1, <1>3, <1>4, <1>6, <1>9 DEF CopyInv
  <2>2. CASE claimId' = [claimId EXCEPT ![e] = NoClaim] /\ d # e
    BY <2>2, <1>3, <1>4, <1>6, <1>9 DEF CopyInv, TypeOK
  <2>3. CASE /\ Holds(r, e) /\ work[r][e] \in {"rejected", "reading"}
             /\ excuses' = excuses /\ d = e
    BY <2>3, <1>3, <1>6 DEF CopyInv
  <2> QED BY <2>1, <2>2, <2>3, <1>7
<1>12. ASSUME NEW q \in Runs, Unsent(d)', Holds(q, d)', work'[q][d] \in {"rejected", "reading"}
       PROVE  Copies(d)' <= excuses'[d]
  <2>1. Holds(q, d)
    BY <1>7, <1>12, RunsAssumption DEF Holds, TypeOK, Runs
  <2>2. CASE work[q][d] \in {"rejected", "reading"}
    BY <2>1, <2>2, <1>3, <1>4, <1>6, <1>9, <1>12 DEF CopyInv
  <2>3. CASE work[q][d] \notin {"rejected", "reading"}
    <3>1. q = r /\ d = e
      BY <2>3, <1>5, <1>12
    <3>2. excuses'[d] = excuses[d] + 1
      BY <3>1, <2>3, <1>10, <1>12 DEF TypeOK
    <3> QED BY <3>2, <1>3, <1>4 DEF CopyInv
  <2> QED BY <2>2, <2>3
<1>13. Copies(d)' <= 1 + excuses'[d]
  BY <1>3, <1>4, <1>9 DEF CopyInv
<1> QED BY <1>11, <1>12, <1>13

\* Steps that move no row of any run leave the counts alone.
LEMMA IdleCopies ==
  ASSUME UNCHANGED <<work, sends>>, NEW d \in Emails
  PROVE  Copies(d)' = Copies(d)
BY DEF Copies, AboutToSend

\* A crash only takes senders away.
LEMMA CrashCopyInv ==
  ASSUME TypeOK, CopyInv, NEW r \in Runs, Crash(r)
  PROVE  CopyInv'
<1> SUFFICES ASSUME NEW d \in Emails
             PROVE  /\ Copies(d)' <= Copies(d) /\ Copies(d)' \in Nat /\ Copies(d) \in Nat
                    /\ excuses[d] \in Nat
                    /\ \A q \in Runs : work'[q][d] # "none" => work'[q][d] = work[q][d]
  BY DEF CopyInv, Crash, rowVars, Unsent, Holds
<1>1. \A q \in Runs : work'[q][d] = IF q = r THEN "none" ELSE work[q][d]
  BY DEF Crash, TypeOK
<1>2. AboutToSend(d)' \in SUBSET AboutToSend(d)
  BY <1>1 DEF AboutToSend
<1>3. Cardinality(AboutToSend(d)') <= Cardinality(AboutToSend(d))
  BY <1>2, TodoFinite, FS_Subset
<1>4. sends'[d] = sends[d] /\ sends[d] \in Nat /\ excuses[d] \in Nat
  BY DEF Crash, sendVars, TypeOK
<1> QED BY <1>1, <1>3, <1>4, TodoFinite, TodoFiniteNext DEF Copies

\* Retrying an unsent row that is claimed is an excuse.
LEMMA RetryCopyInv ==
  ASSUME TypeOK, CopyInv, NEW e \in Emails, Retry(e)
  PROVE  CopyInv'
<1> SUFFICES ASSUME NEW d \in Emails
             PROVE  /\ Copies(d)' <= 1 + excuses'[d]
                    /\ Unsent(d)' /\ claimId'[d] = NoClaim => Copies(d)' <= excuses'[d]
                    /\ \A q \in Runs :
                         Unsent(d)' /\ Holds(q, d)' /\ work'[q][d] \in {"rejected", "reading"}
                           => Copies(d)' <= excuses'[d]
  BY DEF CopyInv
<1>1. work' = work /\ sends' = sends /\ sentVia' = sentVia
  BY DEF Retry, drainVars, sendVars
<1>2. Copies(d)' = Copies(d) /\ Copies(d) \in Nat /\ excuses[d] \in Nat
  BY <1>1, IdleCopies, TodoFinite DEF Copies, TypeOK
<1>3. claimId' = [claimId EXCEPT ![e] = NoClaim]
  BY DEF Retry
<1>4. /\ Unsent(e) /\ claimId[e] # NoClaim => excuses' = [excuses EXCEPT ![e] = @ + 1]
      /\ ~(Unsent(e) /\ claimId[e] # NoClaim) => excuses' = excuses
  BY DEF Retry, Excuse
<1>5. CASE d = e
  <2>1. claimId'[d] = NoClaim /\ \A q \in Runs : ~Holds(q, d)'
    BY <1>3, <1>5, RunsAssumption DEF TypeOK, Holds, Runs
  <2>2. CASE Unsent(e) /\ claimId[e] # NoClaim
    <3>1. excuses'[d] = excuses[d] + 1
      BY <1>4, <1>5, <2>2 DEF TypeOK
    <3> QED BY <3>1, <2>1, <1>2 DEF CopyInv
  <2>3. CASE ~(Unsent(e) /\ claimId[e] # NoClaim)
    BY <2>1, <2>3, <1>1, <1>2, <1>4, <1>5 DEF CopyInv, Unsent
  <2> QED BY <2>2, <2>3
<1>6. CASE d # e
  <2>1. claimId'[d] = claimId[d] /\ excuses'[d] = excuses[d]
    BY <1>3, <1>4, <1>6 DEF TypeOK
  <2> QED BY <2>1, <1>1, <1>2 DEF CopyInv, Unsent, Holds
<1> QED BY <1>5, <1>6

LEMMA NextCopyInv == TypeOK /\ CopyInv /\ [Next]_vars => CopyInv'
<1> SUFFICES ASSUME TypeOK, CopyInv, [Next]_vars PROVE CopyInv'
  OBVIOUS
<1>1. ASSUME UNCHANGED <<work, sends, sentVia, claimId, excuses>> PROVE CopyInv'
  BY <1>1, IdleCopies DEF CopyInv, Unsent, Holds
<1>2. ASSUME NEW e \in Emails, Enqueue(e) PROVE CopyInv'
  BY <1>1, <1>2 DEF Enqueue, drainVars, sendVars
<1>3. ASSUME NEW r \in Runs, ClaimExpires(r) PROVE CopyInv'
  BY <1>1, <1>3 DEF ClaimExpires, drainVars, sendVars
<1>4. ASSUME NEW e \in Emails, ViewStuck(e) \/ Abandon(e) PROVE CopyInv'
  BY <1>1, <1>4 DEF ViewStuck, Abandon, rowVars, drainVars, sendVars
<1>5. ASSUME NEW k \in Kinds, NEW t \in Transports, SetRoute(k, t) PROVE CopyInv'
  BY <1>1, <1>5 DEF SetRoute, rowVars, drainVars, sendVars
<1>6. CASE UNCHANGED vars
  BY <1>1, <1>6 DEF vars, rowVars, drainVars, sendVars
<1>7. ASSUME NEW r \in Runs, PaStep(r) \/ CfStep(r) PROVE CopyInv'
  BY <1>7, TransmitCopyInv, SettleCopyInv DEF PaStep, CfStep, PaSend, CfSend
<1> QED
  BY <1>2, <1>3, <1>4, <1>5, <1>6, <1>7, ClaimCopyInv, CrashCopyInv, RetryCopyInv
  DEF Next, Admin, PaClaim, CfClaim, Runs

\* Every copy of an email beyond the first is excused: see EachCopyIsExcused.
THEOREM CopiesExcused == Spec => []EachCopyIsExcused
<1>1. CopyInv => EachCopyIsExcused
  BY DEF CopyInv, EachCopyIsExcused
<1> QED BY <1>1, InitTypeOK, NextTypeOK, InitCopyInv, NextCopyInv, PTL DEF Spec

-----------------------------------------------------------------------------
\* Only a claim makes an idle run busy, and only with rows that are eligible.

LEMMA WorkMoves ==
  ASSUME TypeOK, [Next]_vars, NEW q \in Runs, NEW d \in Emails,
         work[q][d] = "none", work'[q][d] # "none"
  PROVE  /\ d \in Eligible(TransportOf(q))
         /\ claimId'[d] = q /\ snap'[q][d] = attempts[d]
         /\ UNCHANGED <<attempts, routes, carriers, sends, abandoned, rerouted>>
<1>1. ASSUME NEW r \in Runs, NEW n, Claim(r, n)
      PROVE  /\ d \in Eligible(TransportOf(q))
             /\ claimId'[d] = q /\ snap'[q][d] = attempts[d]
             /\ UNCHANGED <<attempts, routes, carriers, sends, abandoned, rerouted>>
  <2>1. PICK B \in SUBSET Eligible(TransportOf(r)) :
          /\ claimId' = [c \in Emails |-> IF c \in B THEN r ELSE claimId[c]]
          /\ work' = [work EXCEPT ![r] = [c \in Emails |-> IF c \in B THEN "todo" ELSE "none"]]
          /\ snap' = [snap EXCEPT ![r] = [c \in Emails |-> IF c \in B THEN attempts[c] ELSE 0]]
    BY <1>1 DEF Claim, Batches
  <2>2. q = r /\ d \in B
    BY <2>1 DEF TypeOK
  <2>3. claimId'[d] = q /\ snap'[q][d] = attempts[d]
    BY <2>1, <2>2 DEF TypeOK
  <2> QED BY <2>2, <2>3, <1>1 DEF Claim, adminVars, sendVars
<1>2. ASSUME NEW r \in Runs, PaStep(r) \/ CfStep(r) PROVE FALSE
  <2>1. PICK e \in Emails : PaSend(r, e) \/ PaMarkSent(r, e) \/ PaReadAttempts(r, e)
                            \/ PaMarkFailed(r, e) \/ CfSend(r, e) \/ CfMarkSent(r, e)
                            \/ CfMarkFailed(r, e)
    BY <1>2 DEF PaStep, CfStep
  <2>2. work[r][e] # "none" /\ (work' = work \/ \E w \in WorkStates : SetWork(r, e, w))
    BY <2>1 DEF PaSend, CfSend, Transmit, PaMarkSent, PaReadAttempts, PaMarkFailed,
                CfMarkSent, CfMarkFailed, WorkStates
  <2> QED BY <2>2, SetWorkEffect
<1>3. ASSUME NEW r \in Runs, Crash(r) PROVE FALSE
  BY <1>3 DEF Crash, TypeOK
<1>4. ASSUME NEW r \in Runs, ClaimExpires(r) PROVE FALSE
  BY <1>4 DEF ClaimExpires, drainVars
<1>5. ASSUME (\E e \in Emails : Enqueue(e)) \/ Admin \/ UNCHANGED vars PROVE FALSE
  BY <1>5 DEF Enqueue, Admin, Retry, ViewStuck, Abandon, SetRoute, vars, drainVars
<1> QED BY <1>1, <1>2, <1>3, <1>4, <1>5 DEF Next, PaClaim, CfClaim, Runs

-----------------------------------------------------------------------------
\* Routes.

\* Only a run that works on a row adds its transport to the carriers.
LEMMA CarrierMoves ==
  ASSUME [Next]_vars, TypeOK, NEW d \in Emails
  PROVE  \/ carriers'[d] = carriers[d]
         \/ \E q \in Runs : /\ work[q][d] # "none"
                            /\ carriers'[d] = carriers[d] \cup {TransportOf(q)}
                            /\ UNCHANGED <<routes, rerouted>>
<1>1. ASSUME NEW r \in Runs, NEW e \in Emails, Transmit(r, e)
      PROVE  \/ carriers'[d] = carriers[d]
             \/ \E q \in Runs : /\ work[q][d] # "none"
                                /\ carriers'[d] = carriers[d] \cup {TransportOf(q)}
                                /\ UNCHANGED <<routes, rerouted>>
  <2>1. work[r][e] = "todo" /\ UNCHANGED <<routes, rerouted>>
    BY <1>1 DEF Transmit, adminVars
  <2>2. \/ carriers' = carriers
        \/ carriers' = [carriers EXCEPT ![e] = @ \cup {TransportOf(r)}]
    BY <1>1 DEF Transmit, Deliver, sendVars
  <2> QED BY <2>1, <2>2 DEF TypeOK
<1>2. ASSUME NEW r \in Runs, PaStep(r) \/ CfStep(r)
      PROVE  carriers' = carriers \/ \E e \in Emails : Transmit(r, e)
  BY <1>2 DEF PaStep, CfStep, PaSend, CfSend, PaMarkSent, PaReadAttempts, PaMarkFailed,
              CfMarkSent, CfMarkFailed, sendVars
<1>3. ASSUME NEW r \in Runs, Crash(r) \/ ClaimExpires(r) \/ PaClaim(r) \/ CfClaim(r)
      PROVE  carriers' = carriers
  BY <1>3 DEF Crash, ClaimExpires, PaClaim, CfClaim, Claim, sendVars
<1>4. ASSUME (\E e \in Emails : Enqueue(e)) \/ Admin \/ UNCHANGED vars
      PROVE  carriers' = carriers
  BY <1>4 DEF Enqueue, Admin, Retry, ViewStuck, Abandon, SetRoute, vars, sendVars
<1> QED BY <1>1, <1>2, <1>3, <1>4 DEF Next, Runs

LEMMA RouteMoves ==
  ASSUME [Next]_vars, TypeOK, NEW k \in Kinds
  PROVE  /\ k \in rerouted => k \in rerouted'
         /\ k \notin rerouted' => routes'[k] = routes[k]
<1>1. \/ UNCHANGED <<routes, rerouted>>
      \/ \E j \in Kinds, t \in Transports : SetRoute(j, t)
  BY DEF Next, Enqueue, PaClaim, CfClaim, Claim, PaStep, CfStep, PaSend, CfSend, Transmit,
         PaMarkSent, PaReadAttempts, PaMarkFailed, CfMarkSent, CfMarkFailed, Crash,
         ClaimExpires, Admin, Retry, ViewStuck, Abandon, vars, adminVars
<1> QED BY <1>1 DEF SetRoute, TypeOK

LEMMA NextRouteInv == TypeOK /\ RouteInv /\ [Next]_vars => RouteInv'
<1> SUFFICES ASSUME TypeOK, RouteInv, [Next]_vars,
                    NEW e \in Emails, KindOf[e] \notin rerouted'
             PROVE  /\ carriers'[e] \subseteq {routes'[KindOf[e]]}
                    /\ \A r \in Runs : work'[r][e] # "none" => TransportOf(r) = routes'[KindOf[e]]
  BY DEF RouteInv
<1>1. KindOf[e] \in Kinds
  BY KindAssumption
<1>2. KindOf[e] \notin rerouted /\ routes'[KindOf[e]] = routes[KindOf[e]]
  BY <1>1, RouteMoves
<1>3. carriers'[e] \subseteq {routes'[KindOf[e]]}
  BY <1>2, CarrierMoves DEF RouteInv
<1>4. ASSUME NEW r \in Runs, work'[r][e] # "none"
      PROVE  TransportOf(r) = routes'[KindOf[e]]
  <2>1. CASE work[r][e] = "none"
    BY <2>1, <1>2, <1>4, WorkMoves DEF Eligible
  <2>2. CASE work[r][e] # "none"
    BY <2>2, <1>2 DEF RouteInv
  <2> QED BY <2>1, <2>2
<1> QED BY <1>3, <1>4

\* Only one of the two drains sends the emails of a kind whose route never
\* changes: see SplitNeedsReroute.
THEOREM RoutesPartition == Spec => []SplitNeedsReroute
<1>1. Init => RouteInv
  BY DEF Init, RouteInv
<1>2. RouteInv => SplitNeedsReroute
  BY DEF RouteInv, SplitNeedsReroute, Transports
<1> QED BY <1>1, <1>2, InitTypeOK, NextTypeOK, NextRouteInv, PTL DEF Spec

-----------------------------------------------------------------------------
\* Abandoned rows, and the count of failures.

\* The steps that write send_attempts or abandoned, and what they write.
LEMMA AttemptMoves ==
  ASSUME [Next]_vars, TypeOK, NEW d \in Emails
  PROVE  \/ attempts'[d] = attempts[d] /\ abandoned'[d] = abandoned[d]
         \/ \E q \in Runs : /\ work[q][d] # "none" /\ Holds(q, d)
                            /\ attempts'[d] = snap[q][d] + 1
                            /\ claimId'[d] = NoClaim
                            /\ UNCHANGED <<snap, abandoned>>
         \/ /\ attempts'[d] = 0 /\ abandoned'[d] = "no"
            /\ claimId'[d] = NoClaim
         \/ /\ attempts'[d] = AbandonedAttempts /\ UNCHANGED <<work, snap>>
            /\ abandoned'[d] = IF \A r \in Runs : work[r][d] = "none" THEN "quiet" ELSE "racing"
<1> DEFINE Same == attempts'[d] = attempts[d] /\ abandoned'[d] = abandoned[d]
           Failed == \E q \in Runs : /\ work[q][d] # "none" /\ Holds(q, d)
                                     /\ attempts'[d] = snap[q][d] + 1
                                     /\ claimId'[d] = NoClaim
                                     /\ UNCHANGED <<snap, abandoned>>
<1>1. ASSUME NEW r \in Runs, NEW e \in Emails, PaMarkFailed(r, e) \/ CfMarkFailed(r, e)
      PROVE  Same \/ Failed
  <2>1. work[r][e] # "none" /\ UNCHANGED <<snap, abandoned>>
    BY <1>1 DEF PaMarkFailed, CfMarkFailed
  <2>2. \/ attempts' = attempts
        \/ /\ Holds(r, e)
           /\ attempts' = [attempts EXCEPT ![e] = snap[r][e] + 1]
           /\ claimId' = [claimId EXCEPT ![e] = NoClaim]
    BY <1>1 DEF PaMarkFailed, CfMarkFailed, RecordFailed
  <2> QED BY <2>1, <2>2 DEF TypeOK
<1>2. ASSUME NEW r \in Runs, PaStep(r) \/ CfStep(r)
      PROVE  Same \/ \E e \in Emails : PaMarkFailed(r, e) \/ CfMarkFailed(r, e)
  BY <1>2 DEF PaStep, CfStep, PaSend, CfSend, Transmit, PaMarkSent, PaReadAttempts,
              CfMarkSent, rowVars
<1>3. ASSUME NEW r \in Runs, Crash(r) \/ ClaimExpires(r) \/ PaClaim(r) \/ CfClaim(r)
      PROVE  Same
  BY <1>3 DEF Crash, ClaimExpires, PaClaim, CfClaim, Claim, rowVars
<1>4. ASSUME NEW e \in Emails, Enqueue(e) \/ ViewStuck(e) PROVE Same
  BY <1>4 DEF Enqueue, ViewStuck, rowVars
<1>5. ASSUME NEW e \in Emails, Retry(e)
      PROVE  Same \/ (attempts'[d] = 0 /\ abandoned'[d] = "no" /\ claimId'[d] = NoClaim)
  BY <1>5 DEF Retry, TypeOK
<1>6. ASSUME NEW e \in Emails, Abandon(e)
      PROVE  \/ Same
             \/ /\ attempts'[d] = AbandonedAttempts /\ UNCHANGED <<work, snap>>
                /\ abandoned'[d] = IF \A r \in Runs : work[r][d] = "none" THEN "quiet" ELSE "racing"
  BY <1>6 DEF Abandon, TypeOK, drainVars
<1>7. ASSUME NEW k \in Kinds, NEW t \in Transports, SetRoute(k, t) PROVE Same
  BY <1>7 DEF SetRoute, rowVars
<1>8. CASE UNCHANGED vars
  BY <1>8 DEF vars, rowVars
<1> QED BY <1>1, <1>2, <1>3, <1>4, <1>5, <1>6, <1>7, <1>8 DEF Next, Admin, Runs

LEMMA NextAbandonInv == TypeOK /\ AbandonInv /\ [Next]_vars => AbandonInv'
<1> SUFFICES ASSUME TypeOK, AbandonInv, [Next]_vars,
                    NEW e \in Emails, abandoned'[e] = "quiet"
             PROVE  attempts'[e] >= MaxAttempts /\ \A r \in Runs : work'[r][e] = "none"
  BY DEF AbandonInv
<1>1. CASE abandoned[e] = "quiet" /\ attempts'[e] = attempts[e]
  <2>1. attempts[e] >= MaxAttempts /\ \A r \in Runs : work[r][e] = "none"
    BY <1>1 DEF AbandonInv
  <2>2. e \notin Eligible("pa") /\ e \notin Eligible("cloudflare")
    BY <2>1, LimitAssumption DEF Eligible, TypeOK
  <2>3. \A r \in Runs : work'[r][e] = "none"
    BY <2>1, <2>2, WorkMoves DEF TransportOf
  <2> QED BY <1>1, <2>1, <2>3
<1>2. CASE /\ attempts'[e] = AbandonedAttempts /\ UNCHANGED <<work, snap>>
           /\ \A r \in Runs : work[r][e] = "none"
  BY <1>2, LimitAssumption
<1> QED BY <1>1, <1>2, AttemptMoves DEF AbandonInv

\* Copies go out only through a run that works on the row.
LEMMA SendMoves ==
  ASSUME [Next]_vars, TypeOK, NEW d \in Emails
  PROVE  sends'[d] = sends[d] \/ \E q \in Runs : work[q][d] # "none"
<1>1. ASSUME NEW r \in Runs, NEW e \in Emails, Transmit(r, e)
      PROVE  sends'[d] = sends[d] \/ \E q \in Runs : work[q][d] # "none"
  BY <1>1 DEF Transmit, Deliver, sendVars, TypeOK
<1>2. ASSUME NEW r \in Runs, PaStep(r) \/ CfStep(r)
      PROVE  sends' = sends \/ \E e \in Emails : Transmit(r, e)
  BY <1>2 DEF PaStep, CfStep, PaSend, CfSend, PaMarkSent, PaReadAttempts, PaMarkFailed,
              CfMarkSent, CfMarkFailed, sendVars
<1>3. ASSUME NEW r \in Runs, Crash(r) \/ ClaimExpires(r) \/ PaClaim(r) \/ CfClaim(r)
      PROVE  sends' = sends
  BY <1>3 DEF Crash, ClaimExpires, PaClaim, CfClaim, Claim, sendVars
<1>4. ASSUME (\E e \in Emails : Enqueue(e)) \/ Admin \/ UNCHANGED vars
      PROVE  sends' = sends
  BY <1>4 DEF Enqueue, Admin, Retry, ViewStuck, Abandon, SetRoute, vars, sendVars
<1> QED BY <1>1, <1>2, <1>3, <1>4 DEF Next, Runs

\* Abandoning an idle row holds until it is retried: see QuietAbandonHolds.
THEOREM AbandonHolds == Spec => QuietAbandonHolds
<1>1. Init => AbandonInv
  BY DEF Init, AbandonInv
<1>2. TypeOK /\ AbandonInv /\ [Next]_vars =>
        [\A e \in Emails : abandoned[e] = "quiet" => sends'[e] = sends[e]]_vars
  BY SendMoves DEF AbandonInv
<1> QED BY <1>1, <1>2, InitTypeOK, NextTypeOK, NextAbandonInv, PTL
        DEF Spec, QuietAbandonHolds

LEMMA NextCountInv == TypeOK /\ AbandonInv /\ CountInv /\ [Next]_vars => CountInv'
<1> SUFFICES ASSUME TypeOK, AbandonInv, CountInv, [Next]_vars,
                    NEW e \in Emails, NEW r \in Runs,
                    work'[r][e] # "none", claimId'[e] = r, abandoned'[e] # "racing"
             PROVE  snap'[r][e] = attempts'[e]
  BY DEF CountInv, Holds
<1>1. r # NoClaim
  BY RunsAssumption DEF Runs
<1>2. CASE work[r][e] = "none"
  BY <1>2, WorkMoves
<1>3. CASE work[r][e] # "none"
  <2>1. claimId[e] = r /\ (snap'[r][e] = snap[r][e] \/ snap'[r][e] = attempts[e])
    <3>1. ASSUME NEW q \in Runs, NEW n, Claim(q, n)
          PROVE  claimId[e] = r /\ (snap'[r][e] = snap[r][e] \/ snap'[r][e] = attempts[e])
      <4>1. q # r
        BY <3>1, <1>3 DEF Claim, Fresh, Working
      <4>2. PICK B \in SUBSET Emails :
              /\ claimId' = [c \in Emails |-> IF c \in B THEN q ELSE claimId[c]]
              /\ snap' = [snap EXCEPT ![q] = [c \in Emails |-> IF c \in B THEN attempts[c] ELSE 0]]
        BY <3>1 DEF Claim, Batches, Eligible
      <4> QED BY <4>1, <4>2 DEF TypeOK
    <3>2. ASSUME NEW q \in Runs, NEW c \in Emails, PaReadAttempts(q, c)
          PROVE  claimId[e] = r /\ (snap'[r][e] = snap[r][e] \/ snap'[r][e] = attempts[e])
      <4>1. claimId' = claimId
        BY <3>2 DEF PaReadAttempts, rowVars
      <4>2. snap' = snap \/ snap' = [snap EXCEPT ![q][c] = attempts[c]]
        BY <3>2 DEF PaReadAttempts
      <4>3. CASE snap' = snap
        BY <4>1, <4>3
      <4>4. CASE snap' = [snap EXCEPT ![q][c] = attempts[c]]
        BY <4>1, <4>4 DEF TypeOK
      <4> QED BY <4>2, <4>3, <4>4
    <3>3. ASSUME NEW q \in Runs, NEW c \in Emails, PaMarkFailed(q, c) \/ CfMarkFailed(q, c)
          PROVE  claimId[e] = r /\ snap' = snap
      BY <3>3, <1>1 DEF PaMarkFailed, CfMarkFailed, RecordFailed, TypeOK
    <3>4. ASSUME NEW q \in Runs, PaStep(q) \/ CfStep(q)
          PROVE  \/ claimId' = claimId /\ snap' = snap
                 \/ \E c \in Emails : PaReadAttempts(q, c) \/ PaMarkFailed(q, c) \/ CfMarkFailed(q, c)
      BY <3>4 DEF PaStep, CfStep, PaSend, CfSend, Transmit, PaMarkSent, CfMarkSent, rowVars
    <3>5. ASSUME NEW c \in Emails, Retry(c) PROVE claimId[e] = r /\ snap' = snap
      BY <3>5, <1>1 DEF Retry, TypeOK, drainVars
    <3>6. ASSUME \/ \E c \in Emails : Enqueue(c) \/ ViewStuck(c) \/ Abandon(c)
                 \/ \E k \in Kinds, t \in Transports : SetRoute(k, t)
                 \/ \E q \in Runs : Crash(q) \/ ClaimExpires(q)
                 \/ UNCHANGED vars
          PROVE  claimId' = claimId /\ snap' = snap
      BY <3>6 DEF Enqueue, ViewStuck, Abandon, SetRoute, Crash, ClaimExpires, vars,
                  rowVars, drainVars
    <3> QED BY <3>1, <3>2, <3>3, <3>4, <3>5, <3>6
            DEF Next, Admin, PaClaim, CfClaim, Runs
  <2>2. attempts'[e] = attempts[e] /\ abandoned'[e] = abandoned[e]
    BY <1>1, <1>3, AttemptMoves
  <2> QED BY <2>1, <2>2, <1>3 DEF CountInv, Holds
<1> QED BY <1>2, <1>3

\* send_attempts moves by one: see FailuresAreCounted.
THEOREM CountsFailures == Spec => FailuresAreCounted
<1>1. Init => AbandonInv /\ CountInv
  BY DEF Init, AbandonInv, CountInv
<1>2. TypeOK /\ CountInv /\ [Next]_vars =>
        [\A e \in Emails :
           abandoned[e] # "racing" =>
             attempts'[e] \in {attempts[e], attempts[e] + 1, 0, AbandonedAttempts}]_vars
  BY AttemptMoves DEF CountInv
<1> QED BY <1>1, <1>2, InitTypeOK, NextTypeOK, NextAbandonInv, NextCountInv, PTL
        DEF Spec, FailuresAreCounted

-----------------------------------------------------------------------------
\* EmailQueue implements Outbox: the initial states correspond, and every step
\* of the queue is a step of the contract or leaves it unchanged.

\* Contract's variables, as EmailQueue sees them.
Accepted == {e \in Emails : Queued(e)}
Holders  == [e \in Emails |-> AboutToSend(e)]
Recorded == {e \in Emails : ~Unsent(e)}

LEMMA HoldersSame ==
  ASSUME UNCHANGED work
  PROVE  Holders' = Holders
BY DEF Holders, AboutToSend

\* A step that settles a result changes no holder.
LEMMA HoldersSettle ==
  ASSUME TypeOK, NEW r \in Runs, NEW e \in Emails, NEW w \in WorkStates \ {"todo"},
         SetWork(r, e, w), work[r][e] # "todo"
  PROVE  Holders' = Holders
<1>1. ASSUME NEW d \in Emails PROVE AboutToSend(d)' = AboutToSend(d)
  BY SetWorkTodo DEF AboutToSend
<1> QED BY <1>1 DEF Holders

LEMMA InitRefines == Init => Contract!Init
<1> SUFFICES ASSUME Init PROVE Contract!Init
  OBVIOUS
<1>1. Accepted = {} /\ Recorded = {}
  BY DEF Init, Accepted, Recorded, Queued, Unsent
<1>2. Holders = [e \in Emails |-> {}]
  BY DEF Init, Holders, AboutToSend
<1> QED BY <1>1, <1>2 DEF Init, Contract!Init, Accepted, Holders, Recorded

-----------------------------------------------------------------------------
\* A run sees the provider's yes only after a copy went out.

LEMMA SendsGrow ==
  ASSUME [Next]_vars, TypeOK, NEW e \in Emails
  PROVE  sends'[e] >= sends[e]
<1>1. ASSUME NEW r \in Runs, NEW c \in Emails, Transmit(r, c)
      PROVE  sends'[e] >= sends[e]
  BY <1>1 DEF Transmit, Deliver, sendVars, TypeOK
<1>2. ASSUME NEW r \in Runs, PaStep(r) \/ CfStep(r)
      PROVE  sends' = sends \/ \E c \in Emails : Transmit(r, c)
  BY <1>2 DEF PaStep, CfStep, PaSend, CfSend, PaMarkSent, PaReadAttempts, PaMarkFailed,
              CfMarkSent, CfMarkFailed, sendVars
<1>3. ASSUME NEW r \in Runs, Crash(r) \/ ClaimExpires(r) \/ PaClaim(r) \/ CfClaim(r)
      PROVE  sends' = sends
  BY <1>3 DEF Crash, ClaimExpires, PaClaim, CfClaim, Claim, sendVars
<1>4. ASSUME (\E c \in Emails : Enqueue(c)) \/ Admin \/ UNCHANGED vars
      PROVE  sends' = sends
  BY <1>4 DEF Enqueue, Admin, Retry, ViewStuck, Abandon, SetRoute, vars, sendVars
<1>5. sends[e] \in Nat
  BY DEF TypeOK
<1> QED BY <1>1, <1>2, <1>3, <1>4, <1>5 DEF Next, Runs

LEMMA NextAcceptInv == TypeOK /\ AcceptInv /\ [Next]_vars => AcceptInv'
<1> SUFFICES ASSUME TypeOK, AcceptInv, [Next]_vars,
                    NEW e \in Emails, NEW r \in Runs, work'[r][e] = "accepted"
             PROVE  sends'[e] > 0
  BY DEF AcceptInv
<1>1. sends[e] \in Nat /\ sends'[e] \in Nat
  BY NextTypeOK DEF TypeOK
<1>2. CASE work[r][e] = "accepted"
  BY <1>1, <1>2, SendsGrow DEF AcceptInv
<1>3. CASE work[r][e] # "accepted"
  <2>1. Transmit(r, e) /\ work' # work
    <3>1. ASSUME NEW q \in Runs, NEW c \in Emails, Transmit(q, c) PROVE q = r /\ c = e
      <4>1. PICK w \in WorkStates : SetWork(q, c, w)
        BY <3>1 DEF Transmit, WorkStates
      <4> QED BY <4>1, <1>3, SetWorkEffect
    <3>2. ASSUME NEW q \in Runs, NEW c \in Emails,
                 \/ PaMarkSent(q, c) \/ PaReadAttempts(q, c) \/ PaMarkFailed(q, c)
                 \/ CfMarkSent(q, c) \/ CfMarkFailed(q, c)
          PROVE  FALSE
      <4>1. work' = work \/ \E w \in WorkStates \ {"accepted"} : SetWork(q, c, w)
        BY <3>2 DEF PaMarkSent, PaReadAttempts, PaMarkFailed, CfMarkSent, CfMarkFailed, WorkStates
      <4> QED BY <4>1, <1>3, SetWorkEffect
    <3>3. ASSUME NEW q \in Runs, NEW n, Claim(q, n) PROVE FALSE
      BY <3>3, <1>3 DEF Claim, TypeOK
    <3>4. ASSUME NEW q \in Runs, Crash(q) PROVE FALSE
      BY <3>4, <1>3 DEF Crash, TypeOK
    <3>5. ASSUME \/ \E c \in Emails : Enqueue(c)
                 \/ Admin
                 \/ \E q \in Runs : ClaimExpires(q)
                 \/ UNCHANGED vars
          PROVE  FALSE
      BY <3>5, <1>3 DEF Enqueue, Admin, Retry, ViewStuck, Abandon, SetRoute, ClaimExpires,
                        vars, drainVars
    <3>6. ASSUME NEW q \in Runs, PaStep(q) \/ CfStep(q) PROVE Transmit(r, e)
      BY <3>6, <3>1, <3>2 DEF PaStep, CfStep, PaSend, CfSend
    <3> QED BY <3>3, <3>4, <3>5, <3>6, <1>3 DEF Next, PaClaim, CfClaim, Runs
  <2>2. work'[r][e] # "rejected"
    OBVIOUS
  <2>3. sends' = [sends EXCEPT ![e] = @ + 1]
    <3>1. ~SetWork(r, e, "rejected")
      BY SetWorkEffect DEF WorkStates
    <3> QED BY <2>1, <3>1 DEF Transmit, Deliver
  <2> QED BY <2>3, <1>1 DEF TypeOK
<1> QED BY <1>2, <1>3

-----------------------------------------------------------------------------
\* The step simulation, action by action.

LEMMA EnqueueRefines ==
  ASSUME TypeOK, NEW e \in Emails, Enqueue(e)
  PROVE  Contract!Next \/ UNCHANGED Contract!vars
<1>1. Holders' = Holders /\ sends' = sends /\ Recorded' = Recorded
  BY HoldersSame DEF Enqueue, drainVars, sendVars, Recorded, Unsent
<1>2. Accepted' = Accepted \cup {e}
  <2>1. PICK n \in Nat : scheduledFor' = IF Queued(e) THEN scheduledFor
                                          ELSE [scheduledFor EXCEPT ![e] = 1 + n]
    BY EnqueuedCount DEF Enqueue
  <2>2. \A d \in Emails : scheduledFor'[d] > 0 <=> d = e \/ scheduledFor[d] > 0
    BY <2>1 DEF Queued, TypeOK
  <2> QED BY <2>2 DEF Accepted, Queued
<1>3. Contract!Accept(e)
  BY <1>1, <1>2 DEF Contract!Accept, Accepted, Holders, Recorded
<1> QED BY <1>3 DEF Contract!Next

LEMMA ClaimRefines ==
  ASSUME TypeOK, NEW r \in Runs, NEW n, Claim(r, n)
  PROVE  Contract!Next \/ UNCHANGED Contract!vars
<1>1. PICK B \in SUBSET Emails :
        /\ \A e \in B : Queued(e) /\ Unsent(e)
        /\ work' = [work EXCEPT ![r] = [e \in Emails |-> IF e \in B THEN "todo" ELSE "none"]]
  BY DEF Claim, Batches, Eligible
<1>2. \A e \in Emails : work[r][e] = "none"
  BY DEF Claim, Fresh, Working
<1>3. ASSUME NEW e \in Emails
      PROVE  AboutToSend(e)' = IF e \in B THEN AboutToSend(e) \cup {r} ELSE AboutToSend(e)
  <2>1. \A q \in Runs : work'[q][e] = IF q = r THEN IF e \in B THEN "todo" ELSE "none"
                                               ELSE work[q][e]
    BY <1>1 DEF TypeOK
  <2> QED BY <2>1, <1>2 DEF AboutToSend
<1>4. Holders' = [e \in Emails |-> IF e \in B THEN Holders[e] \cup {r} ELSE Holders[e]]
  BY <1>3 DEF Holders
<1>5. Accepted' = Accepted /\ Recorded' = Recorded /\ sends' = sends
  BY DEF Claim, Accepted, Recorded, Queued, Unsent, sendVars
<1>6. B \subseteq Accepted \ Recorded
  BY <1>1 DEF Accepted, Recorded
<1>7. Contract!Hand(r, B)
  BY <1>4, <1>5, <1>6 DEF Contract!Hand, Accepted, Holders, Recorded
<1> QED BY <1>7 DEF Contract!Next

LEMMA TransmitRefines ==
  ASSUME TypeOK, NEW r \in Runs, NEW e \in Emails, Transmit(r, e)
  PROVE  Contract!Next \/ UNCHANGED Contract!vars
<1>1. PICK w \in {"accepted", "rejected"} : SetWork(r, e, w)
  BY DEF Transmit
<1>2. ASSUME NEW d \in Emails
      PROVE  AboutToSend(d)' = IF d = e THEN AboutToSend(d) \ {r} ELSE AboutToSend(d)
  BY <1>1, SetWorkTodo DEF WorkStates
<1>3. Holders' = [Holders EXCEPT ![e] = @ \ {r}]
  BY <1>2 DEF Holders
<1>4. r \in Holders[e]
  BY DEF Transmit, Holders, AboutToSend
<1>5. Accepted' = Accepted /\ Recorded' = Recorded
  BY DEF Transmit, rowVars, Accepted, Recorded, Queued, Unsent
<1>6. CASE sends' = sends
  <2>1. Contract!Fail(r, e)
    BY <1>3, <1>4, <1>5, <1>6 DEF Contract!Fail, Accepted, Holders, Recorded
  <2> QED BY <2>1 DEF Contract!Next
<1>7. CASE sends' = [sends EXCEPT ![e] = @ + 1]
  <2>1. Contract!Deliver(r, e)
    BY <1>3, <1>4, <1>5, <1>7 DEF Contract!Deliver, Accepted, Holders, Recorded
  <2> QED BY <2>1 DEF Contract!Next
<1> QED BY <1>6, <1>7 DEF Transmit, Deliver, sendVars

LEMMA SettleRefines ==
  ASSUME TypeOK, AcceptInv, NEW r \in Runs, NEW e \in Emails,
         \/ PaMarkSent(r, e) \/ PaReadAttempts(r, e) \/ PaMarkFailed(r, e)
         \/ CfMarkSent(r, e) \/ CfMarkFailed(r, e)
  PROVE  Contract!Next \/ UNCHANGED Contract!vars
<1>1. work' = work \/ \E w \in WorkStates \ {"todo"} : SetWork(r, e, w)
  BY DEF PaMarkSent, PaReadAttempts, PaMarkFailed, CfMarkSent, CfMarkFailed, WorkStates
<1>2. work[r][e] # "todo" /\ sends' = sends /\ scheduledFor' = scheduledFor
  BY DEF PaMarkSent, PaReadAttempts, PaMarkFailed, CfMarkSent, CfMarkFailed, sendVars, rowVars
<1>3. Holders' = Holders
  BY <1>1, <1>2, HoldersSame, HoldersSettle
<1>4. Accepted' = Accepted
  BY <1>2 DEF Accepted, Queued
<1>5. \/ sentVia' = sentVia
      \/ work[r][e] = "accepted" /\ sentVia' = [sentVia EXCEPT ![e] = TransportOf(r)]
  BY DEF PaMarkSent, PaReadAttempts, PaMarkFailed, CfMarkSent, CfMarkFailed, RecordSent, rowVars
<1>6. CASE sentVia' = sentVia
  <2>1. Recorded' = Recorded
    BY <1>6 DEF Recorded, Unsent
  <2> QED BY <2>1, <1>2, <1>3, <1>4 DEF Contract!vars, Accepted, Holders, Recorded
<1>7. CASE work[r][e] = "accepted" /\ sentVia' = [sentVia EXCEPT ![e] = TransportOf(r)]
  <2>1. sends[e] > 0
    BY <1>7 DEF AcceptInv
  <2>2. Recorded' = Recorded \cup {e}
    BY <1>7 DEF Recorded, Unsent, TransportOf, TypeOK
  <2>3. Contract!Record(e)
    BY <2>1, <2>2, <1>2, <1>3, <1>4 DEF Contract!Record, Accepted, Holders, Recorded
  <2> QED BY <2>3 DEF Contract!Next
<1> QED BY <1>5, <1>6, <1>7

LEMMA CrashRefines ==
  ASSUME TypeOK, NEW r \in Runs, Crash(r)
  PROVE  Contract!Next \/ UNCHANGED Contract!vars
<1>1. ASSUME NEW d \in Emails PROVE AboutToSend(d)' = AboutToSend(d) \ {r}
  BY DEF Crash, AboutToSend, TypeOK
<1>2. Holders' = [d \in Emails |-> Holders[d] \ {r}]
  BY <1>1 DEF Holders
<1>3. Accepted' = Accepted /\ Recorded' = Recorded /\ sends' = sends
  BY DEF Crash, rowVars, sendVars, Accepted, Recorded, Queued, Unsent
<1>4. Contract!Drop(r)
  BY <1>2, <1>3 DEF Contract!Drop, Accepted, Holders, Recorded
<1> QED BY <1>4 DEF Contract!Next

LEMMA StutterRefines ==
  ASSUME UNCHANGED <<work, sends, scheduledFor, sentVia>>
  PROVE  UNCHANGED Contract!vars
<1>1. Holders' = Holders /\ Accepted' = Accepted /\ Recorded' = Recorded
  BY HoldersSame DEF Accepted, Recorded, Queued, Unsent
<1> QED BY <1>1 DEF Contract!vars, Accepted, Holders, Recorded

LEMMA NextRefines == TypeOK /\ AcceptInv /\ [Next]_vars => [Contract!Next]_(Contract!vars)
<1> SUFFICES ASSUME TypeOK, AcceptInv, [Next]_vars
             PROVE  Contract!Next \/ UNCHANGED Contract!vars
  OBVIOUS
<1>1. ASSUME NEW r \in Runs, PaStep(r) \/ CfStep(r)
      PROVE  Contract!Next \/ UNCHANGED Contract!vars
  BY <1>1, TransmitRefines, SettleRefines DEF PaStep, CfStep, PaSend, CfSend
<1>2. ASSUME NEW r \in Runs, ClaimExpires(r) PROVE UNCHANGED Contract!vars
  BY <1>2, StutterRefines DEF ClaimExpires, drainVars, sendVars
<1>3. ASSUME Admin PROVE UNCHANGED Contract!vars
  BY <1>3, StutterRefines DEF Admin, Retry, ViewStuck, Abandon, SetRoute, rowVars,
                              drainVars, sendVars
<1>4. CASE UNCHANGED vars
  BY <1>4, StutterRefines DEF vars, rowVars, drainVars, sendVars
<1> QED
  BY <1>1, <1>2, <1>3, <1>4, EnqueueRefines, ClaimRefines, CrashRefines
  DEF Next, PaClaim, CfClaim, Runs

\* The queue keeps the at-least-once contract of Outbox: see ImplementsOutbox.
THEOREM QueueImplementsOutbox == Spec => ImplementsOutbox
<1>1. Init => AcceptInv
  BY DEF Init, AcceptInv
<1>2. Init /\ [][Next]_vars => [](TypeOK /\ AcceptInv)
  BY <1>1, InitTypeOK, NextTypeOK, NextAcceptInv, PTL
<1> QED BY <1>2, InitRefines, NextRefines, PTL
        DEF Spec, ImplementsOutbox, Contract!Spec
=============================================================================
