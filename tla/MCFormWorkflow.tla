--------------------------- MODULE MCFormWorkflow ---------------------------
(***************************************************************************)
(* Instances of FormWorkflow for TLC.  Ask (email) -> Review; from Review  *)
(* to Tell (email) -> Done, to Rework, or back through Ask.  From Rework   *)
(* to Done with no mail, or back through Nudge and Ask, two email stages   *)
(* in a row, the first of which has nobody to tell.                        *)
(***************************************************************************)
EXTENDS FormWorkflow, TLC

CONSTANTS ask, tell, nudge, review, rework, done, ann, bob, root, p1, p2

MCTransitions ==
  ask :> {review} @@ tell :> {done} @@ nudge :> {ask} @@ done :> {} @@
  review :> {ask, tell, rework} @@ rework :> {done, nudge}

\* ann reviews p1, bob reviews p2; the other one reworks.
Reviewer(p) == IF p = p1 THEN ann ELSE bob
Reworker(p) == IF p = p1 THEN bob ELSE ann

MCPinned ==
  [p \in Payloads |-> review :> {Reviewer(p)} @@ rework :> {Reworker(p)}]

\* The newest version adds root to the reviewers.
MCCurrent ==
  [p \in Payloads |-> review :> {Reviewer(p), root} @@ rework :> {Reworker(p)}]

\* The reviewer is asked and the submitter, bob, is told.
MCRecipients ==
  [p \in Payloads |-> ask :> {Reviewer(p)} @@ tell :> {bob} @@ nudge :> {}]

RequestSymmetry == Permutations(Requests)
=============================================================================
