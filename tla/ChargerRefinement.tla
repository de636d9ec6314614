-------------------------- MODULE ChargerRefinement --------------------------
(***************************************************************************)
(* The charger's driver implements GuardedEngine: the poll with its waits, *)
(* the owner's switch, sleep and shutdown only ever start, serve and stop  *)
(* the engines as that module allows.                                      *)
(***************************************************************************)
EXTENDS Charger

Engine == INSTANCE GuardedEngine
            WITH runs <- engines, guard <- wd, barred <- (fault = "latched"),
                 proven <- valid, present <- online, asleep <- paused

(* Whichever access fails and however late a poll comes: an engine is        *)
(* started under its watchdog for a source proven with the engines off, a    *)
(* faulty charge is not served, a fault outlives everything but the cable    *)
(* and a running engine, and no engine runs into a sleep (charger-policy.h;  *)
(* y2_charger_run, y2_charger_inhibit, y2_charger_prepare_pm).               *)
ImplementsEngine == Engine!Spec
==============================================================================
