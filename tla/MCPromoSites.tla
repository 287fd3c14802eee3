---------------------------- MODULE MCPromoSites ----------------------------
(***************************************************************************)
(* Instances of PromoSites for TLC.  The first site has an address of its  *)
(* own, the second none; one manager has them both.                        *)
(***************************************************************************)
EXTENDS PromoSites, TLC

CONSTANTS store, boss

OneManager == {"rm"}
OneSite == {1}
TwoSites == {1, 2}
MCContact ==
  [s \in Sites |-> "site" :> (IF s = 1 THEN store ELSE NoAddress) @@ "rm" :> boss]

RequestSymmetry == Permutations(Requests)
=============================================================================
