------------------------- MODULE ShutdownRefinement --------------------------
(***************************************************************************)
(* The power daemon, its record, init and the two resets implement         *)
(* ShutdownPromise: one way to end for each boot, across every death of    *)
(* the daemon and every step that fails.                                   *)
(***************************************************************************)
EXTENDS PowerShutdown

(* What the daemon decided, or a dead one has left in its record.            *)
Goal == IF intent # Nothing THEN intent.action ELSE file.action

Boots == INSTANCE ShutdownPromise
           WITH goal <- Goal, recorded <- (file # Nothing), handed <- asked,
                guard <- watchdog, darkens <- powersOff, escape <- longPress

(* Once a record is there nothing but that end is promised, handed to init   *)
(* or made of the watchdog's reset, whoever asks and however often the       *)
(* daemon dies; and the long-press reset goes off only under a watchdog that *)
(* runs (coordinator.rs new, request; steps.rs execute, arm_watchdog).       *)
ImplementsShutdown == Boots!Spec
==============================================================================
