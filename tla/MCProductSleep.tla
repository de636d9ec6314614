--------------------------- MODULE MCProductSleep ---------------------------
(* Product sleep for TLC: every bound is a constant of ProductSleep.         *)
EXTENDS SleepRefinement
=============================================================================
