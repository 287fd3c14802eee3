---------------------------- MODULE MCPromoTicket ---------------------------
(***************************************************************************)
(* Instances of PromoTicket for TLC.                                       *)
(***************************************************************************)
EXTENDS PromoTicket, TLC

MCSymmetry == Permutations(Calls) \cup Permutations(Users)
=============================================================================
