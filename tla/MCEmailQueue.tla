---------------------------- MODULE MCEmailQueue ----------------------------
(***************************************************************************)
(* Instances of EmailQueue for TLC.                                        *)
(***************************************************************************)
EXTENDS EmailQueue, TLC

CONSTANTS e1, e2, k1, k2

\* Two emails of different kinds, so that their routes differ.
MCTwoKinds == e1 :> k1 @@ e2 :> k2

\* One kind for every email.
MCOneKind == [e \in Emails |-> k1]

\* Claim ids of one transport are interchangeable.
RunSymmetry == Permutations(PaRuns) \cup Permutations(CfRuns)
=============================================================================
