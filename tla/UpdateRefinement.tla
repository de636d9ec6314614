--------------------------- MODULE UpdateRefinement ---------------------------
(***************************************************************************)
(* The updater implements UpdateSwitch: partitions, journal and accepted   *)
(* releases, seen through this mapping, switch whole releases in one step. *)
(***************************************************************************)
EXTENDS UpdateCore

(* The release the player is on.  While the images are written it is still *)
(* the one before: an interruption leads back to it.                       *)
runs == IF journal.state \in {"Installing", "RollingBack"} THEN journal.previous
        ELSE IF journal.state = "RescueRequired" THEN 0
        ELSE root

PhaseOf ==
  [s \in JournalState |->
     IF s \in {"Idle", "Failed", "RolledBack"} THEN "settled"
     ELSE IF s \in {"Queued", "BackingUp", "Installing"} THEN "offered"
     ELSE IF s = "PendingHealth" THEN "trial"
     ELSE IF s = "Acknowledged" THEN "confirmed"
     ELSE IF s = "RollbackPending" THEN "returning"
     ELSE IF s = "RollingBack" THEN "undone"
     ELSE "stuck"]

Switch == INSTANCE UpdateSwitch
            WITH before <- journal.previous, offer <- journal.sequence,
                 phase <- PhaseOf[journal.state], mark <- accepted.sequence

(* Seen from outside, every update is one step from a whole release to     *)
(* another one that was offered and admissible, and back at most to the    *)
(* release before it, whatever is interrupted (core.c: recover, restore,   *)
(* boot_check, ack).                                                       *)
ImplementsSwitch == Switch!Spec
=============================================================================
