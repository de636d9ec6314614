--------------------------- MODULE RadioRefinement ---------------------------
(***************************************************************************)
(* The Bluetooth controller implements RadioPromise: whatever BlueZ        *)
(* answers, refuses, loses or does late, and whatever the ladder recovers. *)
(***************************************************************************)
EXTENDS RadioController

Owner == INSTANCE RadioPromise
           WITH wanted <- desired, asleep <- (sleep # "awake"), quiet <- (told = "ok"),
                on <- adapter, coming <- (pend = "on"), tapped <- asked,
                called <- {h \in Headsets : conn[h] # "no"},
                parted <- {h \in Headsets : "owner" \in bye[h]}

(* The controller calls no headset the owner disconnected and none during a  *)
(* sleep, parts with one only for another that was tapped, asks the adapter  *)
(* on only when it is wanted and nobody sleeps, and what a sleep was told of *)
(* the adapter holds until the wake (reconcile.rs reconcile_power,           *)
(* reconcile_sleep, reconcile_target; requests.rs).                          *)
ImplementsRadioPromise == Owner!Spec
==============================================================================
