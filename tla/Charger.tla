------------------------------- MODULE Charger -------------------------------
(***************************************************************************)
(* The charging engine of the MT6323 and its driver                        *)
(* (kernel/platform/mt6323-charger.c, charger-policy.h).  The engines are  *)
(* two bits of the PMIC; a watchdog of the PMIC, served by every poll,     *)
(* switches them off when the driver does not come back in four seconds.   *)
(* Every access may fail.  How much is charged, and when a charge is       *)
(* complete, is a choice here; module UsbSession has the classification of *)
(* the source.                                                             *)
(*                                                                         *)
(* A poll holds the driver's lock from PollBegins to PollEnds.  Each wait  *)
(* in it (the ADC, BC1.1), and each place where a stalled CPU would        *)
(* matter, ends an action.                                                 *)
(***************************************************************************)
EXTENDS Naturals

CONSTANTS
  Faults,          \* what may go wrong: see ChargerAssumption
  SourceRetries    \* Y2_SOURCE_RETRIES

ASSUME ChargerAssumption ==
  Faults \subseteq {"io", "electric", "budget", "source"} /\ SourceRetries \in Nat

VARIABLES
  cable, edge,        \* CHRDET, and its interrupt that is not handled yet
  electric,           \* over-voltage, heat, or no battery
  engines,            \* one of the two engine bits is set
  wd,                 \* the PMIC's charger watchdog: off, armed, expired
  age,                \* of last_pet_ms: fresh, or late (Y2_PET_LATE_MS)
  pc,                 \* where the poll is
  chq,                \* its work is queued
  fault,              \* none, source (Y2_FAULT_SOURCE alone), latched (any other)
  stopError, active, awake, online, valid, tries,  \* as in struct y2_charger
  changed,            \* source_changed
  inhibit,            \* behaviour is INHIBIT_CHARGE
  paused, stopping

world  == <<cable, edge, electric>>
pmic   == <<engines, wd>>
driver == <<fault, stopError, active, awake, online, valid, tries>>
owner  == <<inhibit, paused, stopping>>
vars   == <<world, pmic, age, pc, chq, driver, changed, owner>>

\* Both engines were verified off by y2_charger_probe.
Init ==
  /\ cable \in BOOLEAN /\ edge = FALSE /\ electric = FALSE
  /\ engines = FALSE /\ wd = "off" /\ age = "fresh"
  /\ pc = "idle" /\ chq = TRUE
  /\ fault = "none" /\ stopError = FALSE /\ active = FALSE /\ awake = FALSE
  /\ online = FALSE /\ valid = FALSE /\ tries = 0 /\ changed = FALSE
  /\ inhibit = FALSE /\ paused = FALSE /\ stopping = FALSE

MayFail(f) == IF f \in Faults THEN BOOLEAN ELSE {FALSE}

\* A fault beside Y2_FAULT_SOURCE is latched, whatever was there before.
Latch(f) == IF f THEN "latched" ELSE fault

-----------------------------------------------------------------------------
(* What the driver does to the engines. *)

\* Slip: the watchdog goes off with the engines, verified or not
StopBlind(failed) ==
  \/ ~failed /\ engines' = FALSE /\ wd' = "off"
  \/ failed /\ engines' \in {engines, FALSE} /\ wd' = "off"

\* y2_charge_stop: two attempts at the engines, and only when they read back
\* as off the watchdog.  It also fails when only the first attempt did.
Stop(failed) ==
  \/ ~failed /\ engines' = FALSE /\ wd' = "off"
  \/ failed /\ engines' = FALSE /\ wd' \in {wd, "off"}
  \/ failed /\ UNCHANGED pmic

\* y2_charger_inhibit: a stop that is not verified keeps the CPU awake and
\* latches a fault, so that nobody serves the watchdog.
Inhibited(failed, found) ==
  /\ Stop(failed)
  /\ stopError' = failed /\ active' = (active /\ failed) /\ awake' = failed
  /\ fault' = IF failed THEN "latched" ELSE found

-----------------------------------------------------------------------------
(* The poll. *)

Polls == chq /\ pc = "idle" /\ ~paused /\ ~stopping

PollEnds == pc' = "idle" /\ chq' = TRUE

\* paused or stopping: the work is not queued again
PollOut ==
  /\ chq /\ pc = "idle" /\ (paused \/ stopping) /\ chq' = FALSE
  /\ UNCHANGED <<world, pmic, age, pc, driver, changed, owner>>

\* A poll that comes late serves no watchdog: it latches a fault.
Overdue == active /\ age = "late"

SampleFails ==
  /\ Polls /\ "io" \in Faults
  /\ fault' = "latched" /\ online' \in {online, cable}
  /\ pc' = "inhibit" /\ chq' = FALSE
  /\ UNCHANGED <<world, pmic, age, stopError, active, awake, valid, tries, changed, owner>>

\* Slip: the faults go with the cable, whether or not the engines stopped
AbsentForgets ==
  /\ Polls /\ ~cable
  /\ online' = FALSE /\ valid' = FALSE /\ tries' = 0
  /\ \E failed \in MayFail("io") :
       /\ Stop(failed) /\ stopError' = failed /\ active' = (active /\ failed) /\ awake' = failed
       /\ fault' = "none"
  /\ PollEnds
  /\ UNCHANGED <<world, age, changed, owner>>

\* Without a cable the engines are stopped; a verified stop and good samples
\* (the voltage is a choice) end the session and its faults.
Absent ==
  /\ Polls /\ ~cable
  /\ online' = FALSE /\ valid' = FALSE /\ tries' = 0
  /\ \E failed \in MayFail("io"), recovered \in BOOLEAN :
       Inhibited(failed, IF recovered /\ ~electric THEN "none" ELSE Latch(Overdue))
  /\ PollEnds
  /\ UNCHANGED <<world, age, changed, owner>>

\* The bounded retry of a failed classification (when is a choice).
\* Slip: the retries are counted and not bounded
RetriesAlways == fault = "source" /\ ~Overdue
Retries == fault = "source" /\ ~Overdue /\ tries < SourceRetries

\* With a cable: the retry, the faults the samples show, the owner's wish,
\* and a source that is not proven.
Present ==
  /\ Polls /\ cable /\ online' = TRUE /\ chq' = FALSE
  /\ \E retried \in {FALSE, Retries},
        spent \in MayFail("budget") :
       /\ tries' = IF retried THEN tries + 1 ELSE tries
       /\ fault' = IF Overdue \/ electric \/ (active /\ wd = "expired") \/ spent THEN "latched"
                   ELSE IF retried THEN "none" ELSE fault
       /\ IF fault' # "none" \/ inhibit
          THEN pc' = "inhibit" /\ valid' = (valid /\ ~retried)
          ELSE /\ valid' = (valid /\ ~retried /\ ~changed)
               /\ pc' = IF valid' THEN "decide" ELSE "quiet"
  /\ UNCHANGED <<world, pmic, age, stopError, active, awake, changed, owner>>

\* y2_charger_detect stops the engines before it looks at the source.  A USB
\* session that still has the data lines refuses without a fault
\* (y2_usb_bc11_begin).
Quiet ==
  /\ pc = "quiet"
  /\ \E failed \in MayFail("io"), refused \in BOOLEAN, broken \in MayFail("source") :
       /\ Inhibited(failed, IF refused /\ broken THEN "source" ELSE fault)
       /\ pc' = IF failed \/ refused THEN "inhibit" ELSE "detect"
       /\ changed' = (changed /\ (failed \/ refused))
  /\ UNCHANGED <<world, age, chq, online, valid, tries, owner>>

\* Its end: proven, disturbed (no fault), or failed
Detected ==
  /\ pc = "detect"
  /\ \/ /\ cable /\ ~changed /\ valid' = TRUE /\ pc' = "resample" /\ UNCHANGED fault
     \/ /\ pc' = "inhibit" /\ UNCHANGED <<valid, fault>>
     \/ /\ "source" \in Faults /\ fault' = "source" /\ pc' = "inhibit" /\ UNCHANGED valid
  /\ UNCHANGED <<world, pmic, age, chq, stopError, active, awake, online, tries, changed, owner>>

Resample ==
  /\ pc = "resample"
  /\ \E failed \in MayFail("io") :
       /\ online' \in IF failed THEN {online, cable} ELSE {cable}
       /\ fault' = Latch(failed \/ electric)
  /\ pc' = IF fault' = "none" /\ online' THEN "decide" ELSE "inhibit"
  /\ UNCHANGED <<world, pmic, age, chq, stopError, active, awake, valid, tries, changed, owner>>

\* y2_charger_target is not zero
Eligible == valid /\ ~changed /\ online

\* Complete, held, or no current to be had: stop.  Else go on with the current
\* that runs, or stop verified and start with another one.
Decide ==
  /\ pc = "decide"
  /\ \/ pc' = "inhibit" /\ UNCHANGED <<pmic, driver>>
     \/ Eligible /\ active /\ pc' = "watch" /\ UNCHANGED <<pmic, driver>>
     \/ Eligible /\ ~active /\ pc' = "prepare" /\ UNCHANGED <<pmic, driver>>
     \/ /\ Eligible /\ active
        /\ \E failed \in MayFail("io") :
             /\ Inhibited(failed, fault)
             /\ pc' = IF failed THEN "inhibit" ELSE "prepare"
        /\ UNCHANGED <<online, valid, tries>>
  /\ UNCHANGED <<world, age, chq, changed, owner>>

\* The deadline begins before y2_charge_prepare, which stops the engines
\* again, programs them and arms the watchdog.
Prepare ==
  /\ pc = "prepare" /\ awake' = TRUE /\ age' = "fresh"
  /\ \/ /\ engines' = FALSE /\ wd' = "armed" /\ pc' = "recheck" /\ UNCHANGED fault
     \/ /\ pc' = "inhibit" /\ fault' = "latched"
        /\ \/ electric /\ Stop(FALSE)
           \/ "io" \in Faults /\ Stop(TRUE)
           \/ "io" \in Faults /\ engines' = FALSE /\ wd' \in {"off", "armed"}
  /\ UNCHANGED <<world, chq, stopError, active, online, valid, tries, changed, owner>>

\* Fresh samples after the preparation, the source, the deadline and the
\* watchdog's flag, right before the engines are switched on
Recheck ==
  /\ pc = "recheck"
  /\ \E failed \in MayFail("io") :
       /\ online' \in IF failed THEN {online, cable} ELSE {cable}
       /\ \/ /\ fault' = Latch(failed \/ electric) /\ pc' = "inhibit"
          \/ /\ valid /\ ~changed /\ online' /\ ~electric /\ (failed \/ age = "late" \/ wd # "armed")
             /\ fault' = "latched" /\ pc' = "inhibit"
          \/ /\ valid /\ ~changed /\ online' /\ ~electric /\ ~failed /\ age = "fresh" /\ wd = "armed"
             /\ UNCHANGED fault /\ pc' = "enable"
  /\ UNCHANGED <<world, pmic, age, chq, stopError, active, awake, valid, tries, changed, owner>>

\* The end of y2_charge_start: one engine bit after the other, each read back.
Enable ==
  /\ pc = "enable"
  /\ \/ /\ engines' = TRUE /\ active' = TRUE /\ pc' = "serve" /\ UNCHANGED fault
     \/ /\ "io" \in Faults /\ engines' \in BOOLEAN /\ fault' = "latched" /\ pc' = "inhibit"
        /\ UNCHANGED active
  /\ UNCHANGED <<world, wd, age, chq, stopError, awake, online, valid, tries, changed, owner>>

\* The registers of a charge that runs: engines on, watchdog armed, no flag.
\* The protections are read with them.
Runs == engines /\ wd = "armed"

Watch ==
  /\ pc = "watch"
  /\ \E failed \in MayFail("io") \cup {electric} : fault' = Latch(failed \/ ~Runs)
  /\ pc' = IF fault' = "none" THEN "serve" ELSE "inhibit"
  /\ UNCHANGED <<world, pmic, age, chq, stopError, active, awake, online, valid, tries, changed, owner>>

\* The allowance, the deadline and the flag once more before the service
Serve ==
  /\ pc = "serve"
  /\ \E failed \in MayFail("io") :
       \/ pc' = "inhibit" /\ UNCHANGED fault
       \/ /\ Eligible /\ fault' = Latch(age = "late" \/ ~Runs \/ failed)
          /\ pc' = IF fault' = "none" THEN "pet" ELSE "inhibit"
  /\ UNCHANGED <<world, pmic, age, chq, stopError, active, awake, online, valid, tries, changed, owner>>

\* y2_charge_pet, and the status read after it
Pet ==
  /\ pc = "pet"
  /\ \/ wd' = "armed" /\ age' = "fresh" /\ PollEnds /\ UNCHANGED fault
     \/ /\ "io" \in Faults /\ pc' = "inhibit" /\ fault' = "latched" /\ UNCHANGED chq
        /\ \/ wd' \in {wd, "armed"} /\ UNCHANGED age
           \/ wd' = "armed" /\ age' = "fresh"
  /\ UNCHANGED <<world, engines, stopError, active, awake, online, valid, tries, changed, owner>>

\* Slip: a stop that fails keeps the watchdog from firing in the meantime
PollInhibitsServed ==
  /\ pc = "inhibit"
  /\ \E failed \in MayFail("io") :
       Inhibited(failed, fault) /\ age' = IF failed THEN "fresh" ELSE age
  /\ PollEnds
  /\ UNCHANGED <<world, online, valid, tries, changed, owner>>

PollInhibits ==
  /\ pc = "inhibit"
  /\ \E failed \in MayFail("io") : Inhibited(failed, fault)
  /\ PollEnds
  /\ UNCHANGED <<world, age, online, valid, tries, changed, owner>>

Poll ==
  \/ PollOut \/ SampleFails \/ Absent \/ Present \/ Quiet \/ Detected \/ Resample \/ Decide
  \/ Prepare \/ Recheck \/ Enable \/ Watch \/ Serve \/ Pet \/ PollInhibits

-----------------------------------------------------------------------------
(* The owner, system sleep and shutdown; each takes the driver's lock. *)

Kicked == chq' = (chq \/ ~(paused \/ stopping))

\* Slip: the stop is left to the next poll
SetBehaviourLater ==
  /\ pc = "idle" /\ inhibit' = ~inhibit /\ Kicked
  /\ UNCHANGED <<world, pmic, age, pc, driver, changed, paused, stopping>>

\* y2_bat_set: charge_behaviour, and a lower ceiling, which stops at once
SetBehaviour ==
  /\ pc = "idle" /\ inhibit' = ~inhibit
  /\ IF inhibit' THEN \E failed \in MayFail("io") : Inhibited(failed, fault)
     ELSE UNCHANGED <<pmic, fault, stopError, active, awake>>
  /\ Kicked
  /\ UNCHANGED <<world, age, pc, online, valid, tries, changed, paused, stopping>>

LowerCeiling ==
  /\ pc = "idle"
  /\ \E failed \in MayFail("io") : Inhibited(failed, fault)
  /\ Kicked
  /\ UNCHANGED <<world, age, pc, online, valid, tries, changed, owner>>

\* y2_charger_prepare_pm: refused while charging or after a stop that failed
SleepPrepares ==
  /\ pc = "idle" /\ ~paused /\ ~active /\ ~stopError
  /\ \E failed \in MayFail("io") :
       /\ Inhibited(failed, fault)
       /\ paused' = ~failed /\ chq' = (chq /\ failed)
  /\ UNCHANGED <<world, age, pc, online, valid, tries, changed, inhibit, stopping>>

\* y2_charger_complete_pm
SleepCompletes ==
  /\ paused /\ paused' = FALSE /\ chq' = (chq \/ ~stopping)
  /\ UNCHANGED <<world, pmic, age, pc, driver, changed, inhibit, stopping>>

\* y2_charger_shutdown, y2_charger_quiesce
Shutdown ==
  /\ pc = "idle" /\ ~stopping /\ stopping' = TRUE /\ chq' = FALSE
  /\ \E failed \in MayFail("io") : Inhibited(failed, fault)
  /\ UNCHANGED <<world, age, pc, online, valid, tries, changed, inhibit, paused>>

-----------------------------------------------------------------------------
(* The cable, the interrupt, the battery and the clock. *)

CableChanges ==
  /\ cable' = ~cable /\ edge' = TRUE
  /\ UNCHANGED <<electric, pmic, age, pc, chq, driver, changed, owner>>

\* y2_charger_irq: kicks also a paused driver
Irq ==
  /\ edge /\ edge' = FALSE /\ changed' = TRUE
  /\ chq' = (chq \/ ~stopping)
  /\ UNCHANGED <<cable, electric, pmic, age, pc, driver, owner>>

Electrics ==
  /\ "electric" \in Faults /\ electric' = ~electric
  /\ UNCHANGED <<cable, edge, pmic, age, pc, chq, driver, changed, owner>>

\* Y2_PET_LATE_MS pass without a service: a stalled CPU, a long poll, no poll.
Delays ==
  /\ age = "fresh" /\ age' = "late"
  /\ UNCHANGED <<world, pmic, pc, chq, driver, changed, owner>>

\* The PMIC's four seconds: the engines go off.
Expires ==
  /\ wd = "armed" /\ age = "late"
  /\ wd' = "expired" /\ engines' = FALSE
  /\ UNCHANGED <<world, age, pc, chq, driver, changed, owner>>

\* y2_charger_input_changed: the budget of the USB session
InputChanges ==
  /\ ~stopping /\ ~chq /\ chq' = TRUE
  /\ UNCHANGED <<world, pmic, age, pc, driver, changed, owner>>

Next ==
  \/ PollOut \/ SampleFails \/ Absent \/ Present \/ Quiet \/ Detected \/ Resample \/ Decide
  \/ Prepare \/ Recheck \/ Enable \/ Watch \/ Serve \/ Pet \/ PollInhibits
  \/ SetBehaviour \/ LowerCeiling \/ SleepPrepares \/ SleepCompletes \/ Shutdown
  \/ CableChanges \/ Irq \/ InputChanges \/ Electrics \/ Delays \/ Expires

Spec == Init /\ [][Next]_vars

\* The work queue runs a queued poll to its end, also while a stalled CPU
\* delays it; time passes for a watchdog nobody serves.
Live ==
  /\ Spec /\ WF_vars(Poll) /\ WF_vars(Irq) /\ WF_vars(Expires)
  /\ WF_vars(fault = "latched" /\ Delays)
-----------------------------------------------------------------------------
Places == {"idle", "quiet", "detect", "resample", "decide", "prepare", "recheck", "enable",
           "watch", "serve", "pet", "inhibit"}

\* The classification is retried a bounded number of times per cable session.
TypeOK ==
  /\ cable \in BOOLEAN /\ edge \in BOOLEAN /\ electric \in BOOLEAN
  /\ engines \in BOOLEAN /\ wd \in {"off", "armed", "expired"} /\ age \in {"fresh", "late"}
  /\ pc \in Places /\ chq \in BOOLEAN /\ fault \in {"none", "source", "latched"}
  /\ stopError \in BOOLEAN /\ active \in BOOLEAN /\ awake \in BOOLEAN /\ online \in BOOLEAN
  /\ valid \in BOOLEAN /\ tries \in 0..SourceRetries /\ changed \in BOOLEAN
  /\ inhibit \in BOOLEAN /\ paused \in BOOLEAN /\ stopping \in BOOLEAN

\* "Never remove the watchdog's last defence until BOTH engines are confirmed
\* off" (charger-policy.h), and the player does not sleep on a running charge.
EnginesGuarded == engines => wd # "off" /\ awake /\ ~paused

\* Between two polls an engine runs for a source that was proven in this cable
\* session, wanted and watched, or its stop has just failed.
RunsForAReason ==
  pc = "idle" /\ engines =>
    stopError \/ (active /\ wd = "armed" /\ valid /\ ~inhibit /\ (cable \/ edge \/ changed))

\* A latched fault switches no engine on, and nothing but an absent cable and
\* a verified stop lifts it.
FaultHolds ==
  [][fault = "latched" =>
       /\ engines' => engines
       /\ fault' = "latched" \/ (~engines' /\ ~online')]_vars

\* A charge with a fault, without a cable or against the owner's wish ends,
\* by the PMIC's watchdog when the driver cannot stop it.  It cannot be
\* promised for an engine that was switched on after its watchdog had
\* expired, by a CPU that stalled between the last look and the switch.
Unwanted == fault = "latched" \/ inhibit \/ ~cable
SwitchedOnLate == engines /\ wd = "expired"
ChargingEnds == Unwanted ~> (~Unwanted \/ ~engines \/ SwitchedOnLate)
=============================================================================
