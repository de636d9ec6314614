--------------------------- MODULE ShutdownPromise ---------------------------
(***************************************************************************)
(* One way to end for one boot.  The first to decide decides; what has     *)
(* been recorded cannot be lost, withdrawn or exchanged, nothing else is   *)
(* promised, and init is given nothing else.  A guard that ends the boot   *)
(* by itself may be armed once there is a way, and only with it in place   *)
(* may the owner's own way out of a stall be given up.                     *)
(***************************************************************************)
VARIABLES
  power,     \* "on", "stalled", or how the last boot ended
  goal,      \* the way this boot is to end, or "none"
  recorded,  \* it outlives who decided it
  promised,  \* the ways somebody was promised
  handed,    \* what init was given, or "none"
  guard,     \* the guard is armed
  darkens,   \* it powers off, and does not restart
  escape     \* the owner can end the boot

vars == <<power, goal, recorded, promised, handed, guard, darkens, escape>>

Ways == {"poweroff", "reboot"}
Result(way) == IF way = "poweroff" THEN "off" ELSE "restarted"

Init == /\ power = "on" /\ goal = "none" /\ recorded = FALSE /\ promised = {}
        /\ handed = "none" /\ guard = FALSE /\ darkens = FALSE /\ escape = TRUE

Decide(way) ==
  /\ power = "on" /\ goal = "none"
  /\ goal' = way /\ recorded' \in BOOLEAN
  /\ promised' \in {promised, IF recorded' THEN promised \cup {way} ELSE promised}
  /\ UNCHANGED <<power, handed, guard, darkens, escape>>

Promise ==
  /\ goal # "none"
  /\ promised' = promised \cup {goal}
  /\ UNCHANGED <<power, goal, recorded, handed, guard, darkens, escape>>

Record ==
  /\ goal # "none" /\ recorded'
  /\ UNCHANGED <<power, goal, promised, handed, guard, darkens, escape>>

(* Only what could not be recorded goes with who decided it.                 *)
Lose ==
  /\ ~recorded /\ goal' = "none"
  /\ UNCHANGED <<power, recorded, promised, handed, guard, darkens, escape>>

Arm ==
  /\ goal # "none"
  /\ guard => guard'
  /\ darkens => darkens'
  /\ darkens' => darkens \/ goal = "poweroff"
  /\ UNCHANGED <<power, goal, recorded, promised, handed, escape>>

GiveUpEscape ==
  /\ guard /\ ~escape'
  /\ UNCHANGED <<power, goal, recorded, promised, handed, guard, darkens>>

HandOver ==
  /\ goal # "none" /\ handed' = goal
  /\ recorded => recorded'
  /\ UNCHANGED <<power, goal, promised, guard, darkens, escape>>

Stall ==
  /\ power = "on"
  /\ goal # "none" \/ handed # "none"
  /\ power' = "stalled"
  /\ UNCHANGED <<goal, recorded, promised, handed, guard, darkens, escape>>

End(end) ==
  /\ power \in {"on", "stalled"} /\ power' = end
  /\ goal' = "none" /\ recorded' = FALSE /\ handed' = "none"
  /\ guard' = FALSE /\ escape' = TRUE
  /\ UNCHANGED <<promised, darkens>>

EndsAsHanded == power = "on" /\ handed # "none" /\ End(Result(handed))
EndsByGuard  == guard /\ End(IF darkens THEN "off" ELSE "restarted")
EndsByOwner  == escape /\ End("cut")

Boot ==
  /\ power \notin {"on", "stalled"} /\ power' = "on"
  /\ promised' = {} /\ darkens' = FALSE
  /\ UNCHANGED <<goal, recorded, handed, guard, escape>>

Next == \/ \E way \in Ways : Decide(way)
        \/ Promise \/ Record \/ Lose \/ Arm \/ GiveUpEscape \/ HandOver \/ Stall
        \/ EndsAsHanded \/ EndsByGuard \/ EndsByOwner \/ Boot

Spec == Init /\ [][Next]_vars
==============================================================================
