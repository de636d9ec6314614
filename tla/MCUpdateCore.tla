----------------------------- MODULE MCUpdateCore -----------------------------
(* Instances of the updater for TLC. *)
EXTENDS UpdateRefinement

MCMinimum == [r \in Release |-> r - 1]
=============================================================================
