----------------------------- MODULE SleepPromise -----------------------------
(***************************************************************************)
(* What product sleep promises its owner: the kernel is entered only on a  *)
(* player that is quiet, dark and silent, and stays so until the kernel    *)
(* has returned; an entry is recorded before it is tried; and until one    *)
(* that was tried is known to be over, through any reset, the player does  *)
(* not try another.                                                        *)
(***************************************************************************)
VARIABLES
  kernel,  \* "awake", "entering", "asleep", "back": returned, not proven yet
  quiet,   \* the application draws nothing and plays nothing
  lit,     \* the screen
  silent,  \* both radios are off
  doubt,   \* an entry was tried and is not known to be over
  barred   \* what survives a reset says that no entry may be tried

face == <<quiet, lit, silent>>
vars == <<kernel, face, doubt, barred>>

Init == /\ kernel = "awake" /\ quiet = FALSE /\ lit = TRUE /\ silent = FALSE
        /\ doubt = FALSE /\ barred = FALSE

awake == kernel = "awake" /\ kernel' = "awake"

(* The owner sees the screen of an application that is not quiet; a request  *)
(* also finds out that the bar outlived its doubt.                           *)
Show ==
  /\ awake /\ ~quiet
  /\ lit' \in BOOLEAN
  /\ barred' = barred \/ (~doubt /\ ~barred')
  /\ UNCHANGED <<quiet, silent, doubt>>

Hush ==
  /\ awake /\ ~lit /\ quiet' = TRUE
  /\ UNCHANGED <<lit, silent, doubt, barred>>

Silence ==
  /\ awake /\ quiet /\ ~lit
  /\ silent' = TRUE
  /\ UNCHANGED <<quiet, lit, doubt, barred>>

Bar ==
  /\ awake /\ quiet /\ ~lit /\ silent /\ ~doubt
  /\ barred' = TRUE
  /\ UNCHANGED <<face, doubt>>

Lift ==
  /\ awake /\ ~doubt
  /\ ~barred'
  /\ UNCHANGED <<face, doubt>>

Enter ==
  /\ kernel = "awake" /\ kernel' = "entering"
  /\ quiet /\ ~lit /\ silent /\ barred /\ ~doubt
  /\ doubt' = TRUE
  /\ UNCHANGED <<face, barred>>

Sleep ==
  /\ kernel = "entering" /\ kernel' = "asleep"
  /\ UNCHANGED <<face, doubt, barred>>

Wake ==
  /\ kernel = "asleep" /\ kernel' = "back"
  /\ UNCHANGED <<face, doubt, barred>>

(* Refused and undone, or returned and proven.                               *)
Prove ==
  /\ kernel \in {"entering", "back"} /\ kernel' = "awake"
  /\ doubt' = FALSE
  /\ UNCHANGED <<face, barred>>

Fail ==
  /\ kernel \in {"entering", "back"} /\ kernel' = "awake"
  /\ UNCHANGED <<face, doubt, barred>>

(* The application and the radios come back, each when it can.               *)
Return ==
  /\ awake /\ ~quiet' /\ lit' \in {lit, TRUE}
  /\ UNCHANGED <<silent, doubt, barred>>

Sound ==
  /\ awake /\ ~silent'
  /\ UNCHANGED <<quiet, lit, doubt, barred>>

(* A sleep the owner tried by hand, with everything back: it proves the rest. *)
Trial ==
  /\ awake
  /\ ~quiet' /\ lit' /\ ~silent' /\ ~doubt'
  /\ UNCHANGED barred

Reset ==
  /\ kernel' = "awake" /\ ~quiet' /\ lit' /\ ~silent'
  /\ UNCHANGED <<doubt, barred>>

Next == \/ Show \/ Hush \/ Silence \/ Bar \/ Lift
        \/ Enter \/ Sleep \/ Wake \/ Prove \/ Fail \/ Return \/ Sound \/ Trial \/ Reset

Spec == Init /\ [][Next]_vars
===============================================================================
