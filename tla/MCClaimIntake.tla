---------------------------- MODULE MCClaimIntake ----------------------------
(***************************************************************************)
(* Instances of ClaimIntake for TLC.                                       *)
(***************************************************************************)
EXTENDS ClaimIntake

TwoSlots == 1..2
=============================================================================
