----------------------------- MODULE MCMxMirror -----------------------------
(***************************************************************************)
(* Instances of MxMirror for TLC.                                          *)
(***************************************************************************)
EXTENDS MxMirror

CONSTANTS l1, l2
=============================================================================
