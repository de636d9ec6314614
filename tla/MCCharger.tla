------------------------------ MODULE MCCharger ------------------------------
(* The charger with every fault; the cfg gives the constants. *)
EXTENDS ChargerRefinement
=============================================================================
