--------------------------- MODULE MCFormPublish ----------------------------
(* Instances of FormPublish for TLC. *)
EXTENDS FormPublish, TLC

RequestSymmetry == Permutations(Requests)
=============================================================================
