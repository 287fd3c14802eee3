---------------------------- MODULE MCSharedDraft ----------------------------
(***************************************************************************)
(* Instances of SharedDraft for TLC.                                       *)
(***************************************************************************)
EXTENDS SharedDraft, TLC

\* Every client is an account of its own.
MCAccount == [c \in Clients |-> c]

DraftSymmetry == Permutations(Clients) \cup Permutations(Slots)
=============================================================================
