---------------------------- MODULE MCClaimReview ----------------------------
(***************************************************************************)
(* Instances of ClaimReview for TLC.                                       *)
(***************************************************************************)
EXTENDS ClaimReview, TLC

RequestSymmetry == Permutations(Requests)
=============================================================================
