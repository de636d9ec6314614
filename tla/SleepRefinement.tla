--------------------------- MODULE SleepRefinement ---------------------------
(***************************************************************************)
(* Product sleep implements SleepPromise: seen through this mapping, the   *)
(* helper's places, its guard and the receipt are one entry at a time on a *)
(* player that nobody watches.                                             *)
(***************************************************************************)
EXTENDS ProductSleep

(* The kernel as the helper's place shows it.                                *)
kernel == IF pc = "entering" THEN "entering"
          ELSE IF pc = "asleep" THEN "asleep"
          ELSE IF pc \in {"returned", "resumed"} THEN "back"
          ELSE "awake"

Promise == INSTANCE SleepPromise
             WITH quiet <- reborn.quiet, lit <- reborn.lit, silent <- (off = Radios),
                  doubt <- unproven, barred <- quarantined

(* Whatever is pressed, plugged in, refused or reset, the kernel is entered  *)
(* and slept in on a quiet, dark, silent player only, after the entry was    *)
(* recorded, and never again before it is known to be over; what bars the    *)
(* next sleep is lifted by that alone (helper.rs execute and finally,        *)
(* admission.rs).                                                            *)
ImplementsPromise == Promise!Spec
==============================================================================
