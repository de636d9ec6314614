---------------------------- MODULE GuardedEngine ----------------------------
(***************************************************************************)
(* A charging engine nobody has to trust its driver for.  It is switched   *)
(* on only for a source that was proven while it was off, and under a      *)
(* watchdog; the watchdog goes only after the engine, is served only while *)
(* nothing is wrong, and what was found wrong stays so until the cable is  *)
(* gone and the engine is off.  So a driver that fails from any point on   *)
(* leaves an engine that ends by itself.                                   *)
(***************************************************************************)
VARIABLES
  runs,     \* the engine is on
  guard,    \* its watchdog: "off", "armed", "expired"
  awake,    \* the CPU may not stop
  barred,   \* something is wrong
  proven,   \* the source is known
  present,  \* there is one, as last seen
  asleep    \* the system sleeps

vars == <<runs, guard, awake, barred, proven, present, asleep>>

Init == /\ runs = FALSE /\ guard = "off" /\ awake = FALSE /\ barred = FALSE
        /\ proven = FALSE /\ present = FALSE /\ asleep = FALSE

(* Something is found wrong or doubtful; nothing is found right.             *)
Doubt ==
  /\ barred => barred'
  /\ proven' => proven
  /\ UNCHANGED <<runs, guard, awake, asleep>>

Prove ==
  /\ ~runs /\ ~barred /\ ~asleep
  /\ proven'
  /\ UNCHANGED <<runs, guard, awake, barred, present, asleep>>

(* The engine is made ready: off, and under its watchdog, unless that fails. *)
Arm ==
  /\ proven /\ ~barred /\ ~asleep
  /\ runs' => runs /\ guard' = guard /\ barred'
  /\ awake'
  /\ ~barred' => guard' = "armed"
  /\ UNCHANGED <<proven, present, asleep>>

(* It may run although the switch is reported to have failed.                *)
Start ==
  /\ proven /\ ~barred /\ ~asleep /\ guard # "off" /\ awake
  /\ runs'
  /\ UNCHANGED <<guard, awake, proven, present, asleep>>

Serve ==
  /\ proven /\ ~barred /\ ~asleep
  /\ guard' = "armed"
  /\ UNCHANGED <<runs, awake, proven, present, asleep>>

(* A stop that fails leaves the watchdog and keeps the CPU awake; one that    *)
(* succeeds may let the system sleep, and without a source it may end what    *)
(* was wrong.                                                                *)
Stop ==
  /\ runs' => runs /\ guard' = guard /\ awake' /\ barred' /\ ~asleep'
  /\ guard' \in {guard, "off"}
  /\ barred /\ ~barred' => ~present'
  /\ proven' => proven

Expire ==
  /\ guard = "armed" /\ guard' = "expired" /\ ~runs'
  /\ UNCHANGED <<awake, barred, proven, present, asleep>>

Wake ==
  /\ asleep /\ ~asleep'
  /\ UNCHANGED <<runs, guard, awake, barred, proven, present>>

Next == Doubt \/ Prove \/ Arm \/ Start \/ Serve \/ Stop \/ Expire \/ Wake

Spec == Init /\ [][Next]_vars
==============================================================================
