------------------------------ MODULE MCMxSweep -----------------------------
(***************************************************************************)
(* Instances of MxSweep for TLC.                                           *)
(***************************************************************************)
EXTENDS MxSweep

TwoOrders == 1..2
=============================================================================
