------------------------------ MODULE DataLines ------------------------------
(***************************************************************************)
(* The USB data lines as their two users must share them.  Either the      *)
(* charger has them, to find out what is plugged in, or a session has      *)
(* them, or nobody, and they never pass from one to the other directly;    *)
(* what the charger found is said when it gives them back, a session is    *)
(* opened on its word alone and never after USB is over; and the PHY's     *)
(* clock is not touched while anyone uses them.                            *)
(***************************************************************************)
VARIABLES
  detecting,  \* the charger has the lines
  session,    \* the USB controller has them
  verdict,    \* the charger's word: the source carries data
  clock,      \* the PHY's clock runs
  over        \* a terminal fault: USB is over for this boot

vars == <<detecting, session, verdict, clock, over>>

Init == /\ detecting = FALSE /\ session = FALSE /\ verdict = FALSE
        /\ clock = TRUE /\ over = FALSE

Nobody == ~detecting /\ ~session

Detect ==
  /\ Nobody /\ ~over /\ ~verdict
  /\ detecting' /\ clock'
  /\ UNCHANGED <<session, verdict, over>>

Decide ==
  /\ detecting /\ ~detecting'
  /\ verdict' \in BOOLEAN
  /\ UNCHANGED <<session, clock, over>>

Retract ==
  /\ ~verdict'
  /\ UNCHANGED <<detecting, session, clock, over>>

Open ==
  /\ Nobody /\ ~over /\ verdict
  /\ session' /\ clock'
  /\ UNCHANGED <<detecting, verdict, over>>

Close ==
  /\ session /\ ~session'
  /\ UNCHANGED <<detecting, verdict, clock, over>>

Switch ==
  /\ Nobody /\ clock' \in BOOLEAN
  /\ UNCHANGED <<detecting, session, verdict, over>>

(* The fault may end the session at once or leave that to a later step.      *)
End ==
  /\ ~detecting /\ over'
  /\ session' \in {session, FALSE}
  /\ session => UNCHANGED clock
  /\ clock' \in BOOLEAN
  /\ UNCHANGED <<detecting, verdict>>

Next == Detect \/ Decide \/ Retract \/ Open \/ Close \/ Switch \/ End

Spec == Init /\ [][Next]_vars
==============================================================================
