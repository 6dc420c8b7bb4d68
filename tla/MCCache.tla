------------------------------ MODULE MCCache ------------------------------
(* Instances of Cache for TLC. *)
EXTENDS Cache, TLC

MCOneVariant  == [f \in Fetchers |-> "en"]
MCTwoVariants == [f \in Fetchers |-> IF f = "f1" THEN "en" ELSE "fr"]
MCTTL         == [f \in Fetchers |-> IF f = "f1" THEN 2 ELSE 1]
MCSymmetry    == Permutations(Identities)
=============================================================================
