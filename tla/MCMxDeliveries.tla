--------------------------- MODULE MCMxDeliveries ---------------------------
(***************************************************************************)
(* Instances of MxDeliveries for TLC.                                      *)
(***************************************************************************)
EXTENDS MxDeliveries

CONSTANTS d1, d2, d3
=============================================================================
