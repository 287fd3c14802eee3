------------------------------- MODULE Outbox -------------------------------
(***************************************************************************)
(* What the outbound email queue promises the workers that enqueue into    *)
(* it, without claims, transports or attempts: an accepted email is handed *)
(* to senders until it is recorded as sent.  It is recorded only after a   *)
(* copy really went out, and once recorded it is handed to nobody again.   *)
(* Copies may be many (the queue is at-least-once); EmailQueue bounds them *)
(* separately.                                                             *)
(***************************************************************************)
EXTENDS Naturals

CONSTANTS Emails, Senders

VARIABLES
  accepted,  \* emails the queue took responsibility for
  holders,   \* [Emails -> SUBSET Senders]: who may still send a copy
  copies,    \* [Emails -> Nat]: copies that went out
  recorded   \* emails recorded as sent

vars == <<accepted, holders, copies, recorded>>

Init ==
  /\ accepted = {}
  /\ holders = [e \in Emails |-> {}]
  /\ copies = [e \in Emails |-> 0]
  /\ recorded = {}

Accept(e) ==
  /\ accepted' = accepted \cup {e}
  /\ UNCHANGED <<holders, copies, recorded>>

\* A sender takes a batch of accepted emails that are not recorded as sent.
Hand(s, B) ==
  /\ B \subseteq accepted \ recorded
  /\ holders' = [e \in Emails |-> IF e \in B THEN holders[e] \cup {s} ELSE holders[e]]
  /\ UNCHANGED <<accepted, copies, recorded>>

\* A holder uses up its turn: a copy goes out, or the attempt fails.
Deliver(s, e) ==
  /\ s \in holders[e]
  /\ holders' = [holders EXCEPT ![e] = @ \ {s}]
  /\ copies' = [copies EXCEPT ![e] = @ + 1]
  /\ UNCHANGED <<accepted, recorded>>

Fail(s, e) ==
  /\ s \in holders[e]
  /\ holders' = [holders EXCEPT ![e] = @ \ {s}]
  /\ UNCHANGED <<accepted, copies, recorded>>

\* A sender forgets everything it holds.
Drop(s) ==
  /\ holders' = [e \in Emails |-> holders[e] \ {s}]
  /\ UNCHANGED <<accepted, copies, recorded>>

Record(e) ==
  /\ copies[e] > 0
  /\ recorded' = recorded \cup {e}
  /\ UNCHANGED <<accepted, holders, copies>>

Next ==
  \/ \E e \in Emails : Accept(e) \/ Record(e)
  \/ \E s \in Senders :
       \/ \E B \in SUBSET Emails : Hand(s, B)
       \/ \E e \in Emails : Deliver(s, e) \/ Fail(s, e)
       \/ Drop(s)

Spec == Init /\ [][Next]_vars
=============================================================================
