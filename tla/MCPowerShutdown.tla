--------------------------- MODULE MCPowerShutdown ---------------------------
(* The power daemon for TLC: every bound is a constant of PowerShutdown.     *)
EXTENDS ShutdownRefinement
=============================================================================
