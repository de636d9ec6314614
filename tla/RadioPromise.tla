---------------------------- MODULE RadioPromise -----------------------------
(***************************************************************************)
(* What the owner relies on of a Bluetooth controller that works on its    *)
(* own.  A headset that was disconnected is not called before it is tapped *)
(* or Bluetooth is switched on; no other headset is parted with unless the *)
(* owner tapped one; the adapter is asked on only when it is wanted and    *)
(* nobody sleeps; and an answer that it is down was true and stays true.   *)
(***************************************************************************)
CONSTANTS Headsets, None

VARIABLES
  wanted,   \* Bluetooth is switched on
  asleep,   \* a sleep began and no wake yet
  quiet,    \* the sleep was told that the adapter is down
  on,       \* the adapter is on
  coming,   \* it was asked on
  held,     \* the headsets the owner disconnected
  tapped,   \* the one the owner tapped, or None
  called,   \* the headsets a connect is under way for
  parted    \* the headsets that are asked to go

vars == <<wanted, asleep, quiet, on, coming, held, tapped, called, parted>>

Init == /\ wanted = TRUE /\ asleep = FALSE /\ quiet = FALSE
        /\ on = FALSE /\ coming = FALSE
        /\ held = {} /\ tapped = None /\ called = {} /\ parted = {}

(* What BlueZ and the headsets do at any time: what is under way ends, and   *)
(* an adapter that was asked on comes on.                                    *)
Ends == called' \subseteq called /\ parted' \subseteq parted /\ (coming' => coming)

World ==
  /\ Ends
  /\ on' => on \/ coming
  /\ UNCHANGED <<wanted, asleep, quiet, held, tapped>>

-----------------------------------------------------------------------------
(* The owner. *)

SwitchOn ==
  /\ wanted' /\ ~asleep' /\ ~quiet'
  /\ held' = {} /\ tapped' \in {tapped} \cup Headsets
  /\ Ends /\ on' => on
  /\ UNCHANGED called

SwitchOff ==
  /\ ~wanted' /\ tapped' = None
  /\ UNCHANGED <<asleep, quiet, on, coming, held, called, parted>>

Tap(h) ==
  /\ wanted
  /\ tapped' = h /\ held' = held \ {h}
  /\ UNCHANGED <<wanted, asleep, quiet, on, coming, called, parted>>

Hold(h) ==
  /\ held' = held \cup {h}
  /\ tapped' = IF tapped = h THEN None ELSE tapped
  /\ parted' \subseteq parted \cup {h}
  /\ UNCHANGED <<wanted, asleep, quiet, on, coming, called>>

-----------------------------------------------------------------------------
(* A sleep. *)

Sleep ==
  /\ asleep' /\ ~quiet'
  /\ UNCHANGED <<wanted, on, coming, held, tapped, called, parted>>

Answer ==
  /\ asleep \/ ~wanted
  /\ quiet' => ~on /\ ~coming
  /\ UNCHANGED <<wanted, asleep, on, coming, held, tapped, called, parted>>

Wake ==
  /\ ~asleep' /\ ~quiet'
  /\ UNCHANGED <<wanted, on, coming, held, tapped, called, parted>>

-----------------------------------------------------------------------------
(* What the controller does by itself. *)

Work ==
  /\ \A h \in called' \ called : h \notin held /\ ~asleep
  /\ \A h \in parted' \ parted : tapped \notin {None, h} /\ ~asleep
  /\ coming' => coming \/ (wanted /\ ~asleep)
  /\ quiet' => quiet \/ (asleep /\ ~on /\ ~coming /\ ~coming')
  /\ UNCHANGED <<wanted, asleep, on, held, tapped>>

Next == \/ World \/ SwitchOn \/ SwitchOff \/ Sleep \/ Answer \/ Wake \/ Work
        \/ \E h \in Headsets : Tap(h) \/ Hold(h)

Spec == Init /\ [][Next]_vars
==============================================================================
