----------------------------- MODULE UsbSession -----------------------------
(***************************************************************************)
(* The cable, seen by its two owners in the kernel.  The charger           *)
(* (kernel/platform/mt6323-charger.c) samples CHRDET, classifies the       *)
(* source with BC1.1 and says whether it carries data.  The USB worker     *)
(* (kernel/platform/usb.c) samples CHRDET on its own and attaches or       *)
(* detaches the gadget.  They share the PHY, its bus clock, one mutex, two *)
(* flags and two notifications, and run beside the CHRDET interrupt, the   *)
(* owner's role requests, runtime PM and system sleep.                     *)
(*                                                                         *)
(* An action is what one thread does under one lock without waiting; a     *)
(* wait, and a flag another thread may change in between, ends the action. *)
(***************************************************************************)
EXTENDS Naturals

CONSTANTS
  Faults,              \* what may go wrong: see FaultsAssumption
  MaxFaults,           \* bound: how often something goes wrong
  MaxEvents,           \* bound: cable changes, requests and sleeps
  SourceRetries,       \* Y2_SOURCE_RETRIES
  MonitorTolerance,    \* Y2_USB_MONITOR_TOLERANCE
  ReconnectAttempts    \* Y2_USB_RECONNECT_ATTEMPTS

ASSUME FaultsAssumption ==
  Faults \subseteq {"clock", "switch", "sample", "register", "refuse", "session", "controller"}
ASSUME BoundsAssumption ==
  /\ MaxFaults \in Nat /\ MaxEvents \in Nat /\ SourceRetries \in Nat
  /\ MonitorTolerance \in Nat \ {0} /\ ReconnectAttempts \in Nat \ {0}

VARIABLES
  cable,      \* what is plugged in: nothing, a port that carries data, a wall charger
  edge,       \* a CHRDET interrupt not handled yet
  phase,      \* awake, frozen, prepared (USB), asleep (USB and charger), waking
  events, faults,  \* how much of the bounds is used
  \* the charger
  chq,        \* its work is queued
  chpc,       \* idle, begin (waits for the mutex), classify, end
  online, source, valid,  \* c->online, c->source, c->source_valid
  changed,    \* c->source_changed
  was,        \* old_online and old_source of the poll that runs
  found,      \* what y2_bc11_detect returned
  srcFault, tries,  \* FAULT_SOURCE and c->source_retries
  inhibit,    \* no classification: the owner's INHIBIT_CHARGE, or another latched fault
  notify,     \* a y2-usb-presence notification on its way
  \* the USB worker
  mutex,      \* y2_usb_lifecycle: free, charger, usb
  dataOk,     \* y2_usb_data_source
  uq,         \* its work is queued
  upc,        \* idle, act
  seen,       \* the CHRDET sample the worker acts on
  child,      \* the controller is registered
  attached,   \* a controller that is not y2_usb_detached
  held,       \* y2_usb_pm_held
  clock,      \* y2_usb_clock_enabled
  clockBad,   \* y2_usb_clock_failures is not zero
  role,       \* y2_requested_role
  result,     \* y2_live.result: a terminal fault
  finished,   \* y2_usb_finished
  reads, refusals  \* the tolerance counters

env     == <<cable, edge, phase, events, faults, inhibit>>
charger == <<chq, chpc, online, source, valid, changed, was, found, srcFault, tries, notify>>
usb     == <<uq, upc, seen, child, attached, held, role, result, finished, reads, refusals>>
shared  == <<mutex, dataOk, clock, clockBad>>
vars    == <<env, charger, usb, shared>>

Cables  == {"none", "host", "wall"}
Sources == {"unknown", "host", "wall"}

Init ==
  /\ cable \in Cables /\ edge = FALSE /\ phase = "awake" /\ events = 0 /\ faults = 0
  /\ chq = TRUE /\ chpc = "idle" /\ online = FALSE /\ source = "unknown" /\ valid = FALSE
  /\ changed = FALSE /\ was = <<FALSE, "unknown">> /\ found = "ok"
  /\ srcFault = FALSE /\ tries = 0 /\ inhibit = FALSE /\ notify = FALSE
  /\ mutex = "free" /\ dataOk = FALSE /\ uq = TRUE /\ upc = "idle" /\ seen = "unread"
  /\ child = FALSE /\ attached = FALSE /\ held = FALSE /\ clock = TRUE /\ clockBad = FALSE
  /\ role = "device" /\ result = FALSE /\ finished = FALSE /\ reads = 0 /\ refusals = 0

-----------------------------------------------------------------------------
(* What may fail, and the bus clock both drivers share. *)

Fails(f) == IF f \in Faults /\ faults < MaxFaults THEN BOOLEAN ELSE {FALSE}
Charge(failed) == faults' = IF failed THEN faults + 1 ELSE faults
Event == events < MaxEvents /\ events' = events + 1

\* y2_usb_sleeping, and the charger's paused
Sleeping == phase \in {"prepared", "asleep", "waking"}
Paused == phase = "asleep"

\* y2_usb_bus_restore gives the clock back unless a failure was counted;
\* a failing one counts it and may leave the clock on.
Refused(failed) == clockBad \/ (~clock /\ failed)
Restore(failed) ==
  /\ clockBad' = (clockBad \/ (~clock /\ failed))
  /\ IF ~clockBad /\ ~clock /\ failed THEN clock' \in BOOLEAN
     ELSE clock' = (clock \/ ~clockBad)

\* y2_usb_bus_gate: a gate that does not read back turns the clock on again
Gate(failed) ==
  /\ clockBad' = (clockBad \/ (clock /\ failed))
  /\ IF clock /\ failed THEN clock' \in BOOLEAN ELSE clock' = FALSE

Kicked == uq \/ (~finished /\ ~Sleeping)

-----------------------------------------------------------------------------
(* The cable and its interrupt. *)

CableChanges ==
  /\ Event
  /\ cable' \in IF cable = "none" THEN {"host", "wall"} ELSE {"none"}
  /\ edge' = TRUE
  /\ UNCHANGED <<phase, faults, inhibit, charger, usb, shared>>

\* Slip: only the verdict is taken back, not the detection that goes on
ChargerIrqRetracts ==
  /\ edge /\ edge' = FALSE /\ dataOk' = FALSE /\ chq' = TRUE
  /\ UNCHANGED <<cable, phase, events, faults, inhibit, chpc, online, source, valid, changed, was,
                 found, srcFault, tries, notify, usb, mutex, clock, clockBad>>

\* y2_charger_irq takes no lock: it may land between any two steps of a poll
ChargerIrq ==
  /\ edge /\ edge' = FALSE
  /\ changed' = TRUE /\ dataOk' = FALSE /\ chq' = TRUE
  /\ UNCHANGED <<cable, phase, events, faults, inhibit, chpc, online, source, valid, was, found,
                 srcFault, tries, notify, usb, mutex, clock, clockBad>>

-----------------------------------------------------------------------------
(* The charger's poll.  Its own lock is held from its first step to PollEnds. *)

NoLocals == was' = <<FALSE, "unknown">> /\ found' = "ok"

\* The end of y2_charger_poll: presence is announced only when it differs
\* from what it was when the poll began, and the work is queued again.
PollEnds(on, src, old) ==
  /\ chpc' = "idle" /\ chq' = TRUE /\ NoLocals
  /\ online' = on /\ source' = src
  /\ notify' = (notify \/ old # <<on, src>>)

PollPaused ==
  /\ chq /\ chpc = "idle" /\ Paused /\ chq' = FALSE
  /\ UNCHANGED <<env, chpc, online, source, valid, changed, was, found, srcFault, tries, notify,
                 usb, shared>>

\* No cable: the session is over.  A latched fault goes only with a safe, verified stop.
PollOffline ==
  /\ chq /\ chpc = "idle" /\ ~Paused /\ cable = "none"
  /\ valid' = FALSE /\ dataOk' = FALSE /\ tries' = 0
  /\ srcFault' \in {FALSE, srcFault}
  /\ PollEnds(FALSE, "unknown", <<online, source>>)
  /\ UNCHANGED <<env, changed, usb, mutex, clock, clockBad>>

\* The bounded retry of a failed classification, then the reasons not to
\* classify, then the classification of a source that is new or not proven.
Retried == srcFault /\ tries < SourceRetries
Proven == valid /\ ~Retried /\ ~changed

PollOnline ==
  /\ chq /\ chpc = "idle" /\ ~Paused /\ cable # "none"
  /\ srcFault' = (srcFault /\ ~Retried) /\ tries' = IF Retried THEN tries + 1 ELSE tries
  /\ IF srcFault' \/ inhibit
     THEN /\ valid' = (valid /\ ~Retried) /\ UNCHANGED dataOk
          /\ PollEnds(TRUE, source, <<online, source>>)
     ELSE IF Proven
     THEN /\ UNCHANGED <<valid, dataOk>>
          /\ PollEnds(TRUE, source, <<online, source>>)
     ELSE /\ chq' = FALSE /\ chpc' = "begin" /\ online' = TRUE
          /\ valid' = FALSE /\ dataOk' = FALSE /\ was' = <<online, source>>
          /\ UNCHANGED <<source, found, notify>>
  /\ UNCHANGED <<env, changed, usb, mutex, clock, clockBad>>

\* Slip: the live session is not asked about
MayDetectBeside == ~finished /\ ~result
MayDetect == ~finished /\ ~result /\ ~attached

\* y2_usb_bc11_begin refuses: a stopped USB (-ENODEV) or a live session
\* (-EAGAIN) is no fault of the source and is tried again by the next poll.
BeginRefused ==
  /\ chpc = "begin" /\ mutex = "free" /\ ~MayDetect
  /\ PollEnds(online, source, was)
  /\ UNCHANGED <<env, valid, changed, srcFault, tries, usb, shared>>

\* y2_usb_bc11_begin: the clock, then the PHY's BC1.1 switch; it returns with
\* the mutex held and, with a controller, a runtime-PM reference.
Begin ==
  /\ chpc = "begin" /\ mutex = "free" /\ MayDetect
  /\ \E clockFails \in Fails("clock"), switchFails \in Fails("switch") :
       LET refused == Refused(clockFails) IN
       /\ Charge((~clockBad /\ ~clock /\ clockFails) \/ (~refused /\ switchFails))
       /\ Restore(clockFails)
       /\ IF refused \/ switchFails
          THEN /\ srcFault' = TRUE /\ UNCHANGED <<changed, mutex>>
               /\ PollEnds(online, source, was)
          ELSE /\ mutex' = "charger" /\ chpc' = "classify" /\ changed' = FALSE
               /\ UNCHANGED <<chq, online, source, was, found, notify, srcFault>>
  /\ UNCHANGED <<cable, edge, phase, events, inhibit, valid, tries, dataOk, usb>>

\* y2_bc11_detect, and the look at source_changed after it
Classify ==
  /\ chpc = "classify" /\ chpc' = "end"
  /\ \E failed \in Fails("switch") :
       /\ Charge(failed)
       /\ source' = IF failed \/ cable = "none" THEN "unknown" ELSE cable
       /\ found' = IF cable = "none" THEN "gone"
                   ELSE IF failed THEN "failed"
                   ELSE IF changed THEN "again" ELSE "ok"
  /\ UNCHANGED <<cable, edge, phase, events, inhibit, chq, online, valid, changed, was,
                 srcFault, tries, notify, usb, shared>>

\* y2_usb_bc11_end writes the verdict over whatever the interrupt wrote since,
\* releases the mutex; a proven source is sampled once more.
End ==
  /\ chpc = "end"
  /\ \E failed \in Fails("switch") :
       /\ Charge(failed)
       /\ dataOk' = (found = "ok" /\ source = "host" /\ ~failed)
       /\ valid' = (found = "ok" /\ ~failed)
       /\ srcFault' = (found = "failed" \/ (found = "ok" /\ failed))
       /\ PollEnds(IF valid' THEN cable # "none" ELSE online, source, was)
  /\ mutex' = "free"
  /\ UNCHANGED <<cable, edge, phase, events, inhibit, changed, tries, usb, clock, clockBad>>

ChargerStep == PollPaused \/ PollOffline \/ PollOnline \/ BeginRefused \/ Begin \/ Classify \/ End

\* y2_usb_presence_changed
PresenceChanged ==
  /\ notify /\ notify' = FALSE /\ uq' = Kicked
  /\ UNCHANGED <<env, chq, chpc, online, source, valid, changed, was, found, srcFault, tries,
                 upc, seen, child, attached, held, role, result, finished, reads, refusals, shared>>

-----------------------------------------------------------------------------
(* The USB worker, under y2_usb_lifecycle. *)

WorkRuns == uq /\ upc = "idle" /\ mutex = "free" /\ phase = "awake"

\* y2_usb_finish: a controller that can be reached is detached and parked
Finishes ==
  /\ result' = TRUE /\ finished' = TRUE /\ held' = FALSE
  /\ attached' = (attached /\ clockBad)
  /\ mutex' = "free" /\ upc' = "idle" /\ seen' = "unread"

WorkAfterFinish ==
  /\ WorkRuns /\ finished /\ uq' = FALSE
  /\ UNCHANGED <<env, charger, upc, seen, child, attached, held, role, result, finished, reads,
                 refusals, shared>>

WorkFinishes ==
  /\ WorkRuns /\ ~finished /\ result
  /\ uq' = FALSE /\ Finishes
  /\ UNCHANGED <<env, charger, child, role, reads, refusals, dataOk, clock, clockBad>>

\* The tolerance of a row of failed samples.  Slip: one failure more
EndsUsbLate(failed) == failed /\ reads + 1 > MonitorTolerance
EndsUsb(failed) == failed /\ reads + 1 >= MonitorTolerance

\* One PMIC sample.  An absent cable disproves the source; a failed read is
\* tolerated, a row of them ends USB.
WorkSamples ==
  /\ WorkRuns /\ ~finished /\ ~result /\ uq' = FALSE
  /\ \E failed \in Fails("sample") :
       /\ Charge(failed)
       /\ IF EndsUsb(failed)
          THEN Finishes /\ UNCHANGED <<reads, dataOk>>
          ELSE /\ upc' = "act" /\ mutex' = "usb"
               /\ seen' = IF failed THEN "unread" ELSE IF cable = "none" THEN "absent" ELSE "present"
               /\ reads' = IF failed THEN reads + 1 ELSE 0
               /\ dataOk' = (dataOk /\ seen' # "absent")
               /\ UNCHANGED <<attached, held, result, finished>>
  /\ UNCHANGED <<cable, edge, phase, events, inhibit, charger, child, role, refusals, clock, clockBad>>

Acting == upc = "act"
Wanted == role = "device" /\ seen = "present" /\ dataOk

\* Slip: only a cable that is there is polled
WorkEndsUnread ==
  /\ uq' = (uq \/ seen = "present")
  /\ upc' = "idle" /\ mutex' = "free" /\ seen' = "unread"

\* The end of the worker ("again"): a sampled absence needs no timer, the
\* charger's notification wakes the worker; every other sample is polled.
WorkEnds ==
  /\ uq' = (uq \/ seen # "absent")
  /\ upc' = "idle" /\ mutex' = "free" /\ seen' = "unread"

\* First registration of the controller
Register ==
  /\ Acting /\ Wanted /\ ~child
  /\ \E clockFails \in Fails("clock"), failed \in Fails("register") :
       LET refused == Refused(clockFails) IN
       /\ Charge((~clockBad /\ ~clock /\ clockFails) \/ (~refused /\ failed))
       /\ Restore(clockFails)
       /\ IF refused \/ failed
          THEN /\ child' \in {FALSE, ~refused} /\ Finishes /\ UNCHANGED uq
          ELSE /\ child' = TRUE /\ attached' = TRUE /\ held' = TRUE
               /\ WorkEnds /\ UNCHANGED <<result, finished>>
  /\ UNCHANGED <<cable, edge, phase, events, inhibit, charger, role, reads, refusals, dataOk>>

\* y2_usb_detach: also gives the runtime-PM reference back
Detach ==
  /\ Acting /\ seen # "unread" /\ ~Wanted /\ attached
  /\ attached' = FALSE /\ held' = FALSE /\ WorkEnds
  /\ UNCHANGED <<env, charger, child, role, result, finished, reads, refusals, dataOk,
                 clock, clockBad>>

\* y2_usb_reconnect takes the runtime-PM reference first and keeps it when the
\* PHY or the controller is not ready; only a write-free refusal is retried.
Reconnect ==
  /\ Acting /\ Wanted /\ child /\ ~attached
  /\ \E clockFails \in Fails("clock"), refuse \in Fails("refuse"), broken \in Fails("session") :
       LET refused == clockBad \/ (~held /\ Refused(clockFails)) IN
       /\ Charge((~held /\ ~clockBad /\ ~clock /\ clockFails) \/ (~refused /\ (refuse \/ broken)))
       /\ IF held THEN UNCHANGED <<clock, clockBad>> ELSE Restore(clockFails)
       /\ refusals' = IF refused \/ (refuse /\ ~broken) THEN refusals + 1
                      ELSE IF broken THEN refusals ELSE 0
       /\ IF (~refused /\ broken) \/ refusals' >= ReconnectAttempts
          THEN Finishes /\ UNCHANGED uq
          ELSE /\ attached' = (~refused /\ ~refuse) /\ held' = (held \/ ~refused)
               /\ WorkEnds /\ UNCHANGED <<result, finished>>
  /\ UNCHANGED <<cable, edge, phase, events, inhibit, charger, child, role, reads, dataOk>>

\* Nothing to attach or to detach; without a controller the clock is gated,
\* and a gate that fails ends USB.
Settle ==
  /\ Acting
  /\ \/ seen = "unread"
     \/ ~Wanted /\ ~attached
     \/ Wanted /\ attached
  /\ \E failed \in Fails("clock") :
       /\ Charge(~child /\ clock /\ failed)
       /\ IF child THEN UNCHANGED <<clock, clockBad>> ELSE Gate(failed)
       /\ IF ~child /\ clock /\ failed
          THEN Finishes /\ UNCHANGED uq
          ELSE WorkEnds /\ UNCHANGED <<result, finished, attached, held>>
  /\ UNCHANGED <<cable, edge, phase, events, inhibit, charger, child, role, reads, refusals,
                 dataOk>>

UsbStep == WorkAfterFinish \/ WorkFinishes \/ WorkSamples \/ Register \/ Detach \/ Reconnect \/ Settle

-----------------------------------------------------------------------------
(* The owner, the controller and runtime PM. *)

\* y2_role_set: NONE detaches at once; a terminal fault refuses every request
RoleSet ==
  /\ Event /\ phase = "awake" /\ mutex = "free" /\ ~result
  /\ role' = IF role = "device" THEN "none" ELSE "device"
  /\ LET leaves == role' = "none" /\ attached IN
       attached' = (attached /\ ~leaves) /\ held' = (held /\ ~leaves)
  /\ uq' = Kicked
  /\ UNCHANGED <<cable, edge, phase, faults, inhibit, charger, upc, seen, child, result, finished,
                 reads, refusals, shared>>

\* The owner's charge_behaviour, which a latched electrical fault acts like
Inhibit ==
  /\ Event /\ phase = "awake" /\ chpc = "idle"
  /\ inhibit' = ~inhibit /\ chq' = TRUE
  /\ UNCHANGED <<cable, edge, phase, faults, chpc, online, source, valid, changed, was, found,
                 srcFault, tries, notify, usb, shared>>

\* An interrupt storm or a DMA bus error of a live session (y2_musb_interrupt)
ControllerFails ==
  /\ "controller" \in Faults /\ faults < MaxFaults /\ faults' = faults + 1
  /\ attached /\ ~result /\ result' = TRUE
  /\ UNCHANGED <<cable, edge, phase, events, inhibit, charger, uq, upc, seen, child, attached, held,
                 role, finished, reads, refusals, shared>>

\* Runtime PM gates a controller nobody holds (y2_musb_runtime_gate); the
\* charger holds it from Begin to End.  System PM keeps it from prepare on.
RuntimeSuspend ==
  /\ child /\ ~held /\ mutex # "charger" /\ clock /\ ~attached /\ ~Sleeping
  /\ \E failed \in Fails("clock") : Charge(failed) /\ Gate(failed)
  /\ UNCHANGED <<cable, edge, phase, events, inhibit, charger, usb, mutex, dataOk>>

-----------------------------------------------------------------------------
(* System sleep: the freezer stops the USB worker, then USB prepares, then  *)
(* its consumer the charger; completion goes the other way.                 *)

Freeze ==
  /\ Event /\ phase = "awake" /\ upc = "idle" /\ phase' = "frozen"
  /\ UNCHANGED <<cable, edge, faults, inhibit, charger, usb, shared>>

\* y2_usb_prepare: no work, no clock before the controller exists
PrepareUsb ==
  /\ phase = "frozen" /\ mutex = "free"
  /\ \E failed \in Fails("clock") :
       LET gates == ~child /\ ~finished /\ ~result IN
       /\ Charge(gates /\ clock /\ failed)
       /\ IF gates THEN Gate(failed) ELSE UNCHANGED <<clock, clockBad>>
       /\ IF gates /\ clock /\ failed
          THEN phase' = "awake" /\ uq' = (~finished)
          ELSE phase' = "prepared" /\ uq' = FALSE
  /\ UNCHANGED <<cable, edge, events, inhibit, charger, upc, seen, child, attached, held, role,
                 result, finished, reads, refusals, mutex, dataOk>>

\* y2_charger_prepare_pm: paused, its work cancelled
PrepareCharger ==
  /\ phase = "prepared" /\ chpc = "idle"
  /\ phase' = "asleep" /\ chq' = FALSE
  /\ UNCHANGED <<cable, edge, events, faults, inhibit, chpc, online, source, valid, changed, was,
                 found, srcFault, tries, notify, usb, shared>>

\* A charger that charges, or another device, refuses: USB completes again
SleepRefused ==
  /\ phase = "prepared" /\ phase' = "awake" /\ uq' = (uq \/ ~finished)
  /\ UNCHANGED <<cable, edge, events, faults, inhibit, charger, upc, seen, child, attached, held,
                 role, result, finished, reads, refusals, shared>>

\* y2_charger_complete_pm, then y2_usb_complete and the thaw
CompleteCharger ==
  /\ phase = "asleep" /\ phase' = "waking" /\ chq' = TRUE
  /\ UNCHANGED <<cable, edge, events, faults, inhibit, chpc, online, source, valid, changed, was,
                 found, srcFault, tries, notify, usb, shared>>

\* Slip: the worker is not queued again
CompleteUsbUnqueued ==
  /\ phase = "waking" /\ phase' = "awake"
  /\ UNCHANGED <<cable, edge, events, faults, inhibit, charger, usb, shared>>

CompleteUsb ==
  /\ phase = "waking" /\ phase' = "awake" /\ uq' = (uq \/ ~finished)
  /\ UNCHANGED <<cable, edge, events, faults, inhibit, charger, upc, seen, child, attached, held,
                 role, result, finished, reads, refusals, shared>>

PowerStep == PrepareUsb \/ PrepareCharger \/ SleepRefused \/ CompleteCharger \/ CompleteUsb

-----------------------------------------------------------------------------
Next ==
  \/ CableChanges \/ ChargerIrq \/ PresenceChanged
  \/ PollPaused \/ PollOffline \/ PollOnline \/ BeginRefused \/ Begin \/ Classify \/ End
  \/ WorkAfterFinish \/ WorkFinishes \/ WorkSamples \/ Register \/ Detach \/ Reconnect \/ Settle
  \/ RoleSet \/ Inhibit \/ ControllerFails \/ RuntimeSuspend
  \/ Freeze \/ PrepareUsb \/ PrepareCharger \/ SleepRefused \/ CompleteCharger \/ CompleteUsb

Spec == Init /\ [][Next]_vars

\* The kernel runs a queued work, delivers an interrupt and a notification,
\* expires the autosuspend timer and ends a suspend attempt.  A worker that
\* waits for the mutex gets it although the other keeps taking it: kernel
\* mutexes hand over to a waiter.
Live ==
  /\ Spec
  /\ WF_vars(ChargerIrq) /\ WF_vars(PresenceChanged) /\ WF_vars(RuntimeSuspend) /\ WF_vars(PowerStep)
  /\ SF_vars(ChargerStep) /\ SF_vars(UsbStep)
-----------------------------------------------------------------------------
EnvTypes ==
  /\ cable \in Cables /\ edge \in BOOLEAN
  /\ phase \in {"awake", "frozen", "prepared", "asleep", "waking"}
  /\ events \in 0..MaxEvents /\ faults \in 0..MaxFaults /\ inhibit \in BOOLEAN

ChargerTypes ==
  /\ chq \in BOOLEAN /\ chpc \in {"idle", "begin", "classify", "end"}
  /\ online \in BOOLEAN /\ source \in Sources /\ valid \in BOOLEAN /\ changed \in BOOLEAN
  /\ was \in BOOLEAN \X Sources /\ found \in {"ok", "again", "gone", "failed"}
  /\ srcFault \in BOOLEAN /\ tries \in 0..SourceRetries /\ notify \in BOOLEAN

UsbTypes ==
  /\ uq \in BOOLEAN /\ upc \in {"idle", "act"} /\ seen \in {"present", "absent", "unread"}
  /\ child \in BOOLEAN /\ attached \in BOOLEAN /\ held \in BOOLEAN
  /\ role \in {"device", "none"} /\ result \in BOOLEAN /\ finished \in BOOLEAN
  /\ reads \in 0..MonitorTolerance - 1 /\ refusals \in 0..ReconnectAttempts

SharedTypes ==
  /\ mutex \in {"free", "charger", "usb"} /\ dataOk \in BOOLEAN
  /\ clock \in BOOLEAN /\ clockBad \in BOOLEAN

\* The bounds say more than the types: the tolerance of failed samples and
\* the attempts to reconnect end USB before they are passed.
TypeOK == EnvTypes /\ ChargerTypes /\ UsbTypes /\ SharedTypes

\* The BC1.1 switch takes the data lines away from the controller: while it is
\* on no session is live and the PHY's clock runs.
SwitchNeedsQuiet == mutex = "charger" => ~attached /\ clock

\* "Carries data" said of a cable that does not is never left alone: the
\* interrupt, or the flag it leaves behind, is still there to take it back.
ProofIsFresh == dataOk /\ cable # "host" => edge \/ (changed /\ (chq \/ chpc # "idle" \/ Paused))

\* A live session is always watched: the worker runs, is queued, or system
\* sleep holds it back and queues it again.
AttachedIsWatched == attached => uq \/ Acting \/ Sleeping

\* A stopped USB has no live session, although the stop itself gives up on a
\* controller whose clock it cannot have.
StoppedIsDetached == finished => ~attached

\* A cable that stays and is proven to carry data gets its session.
HostIsFound ==
  <>[](cable = "host" /\ role = "device" /\ valid /\ ~changed /\ dataOk /\ phase = "awake" /\ ~result)
    => <>[](attached)

\* A reconnect that was refused keeps its runtime-PM reference: a worker that finds
\* the cable gone then has nothing to detach and gives nothing back.
KeptByRefusal == held /\ ~attached

\* A session ends with its cable or with a terminal fault, for good with the fault,
\* also one met while the worker acts on the sample before it; and without a cable
\* the bus clock ends up gated, unless a refused reconnect kept its reference
\* (usb.c y2_usb_worker, y2_usb_finish, y2_usb_bus_gate).
SessionEnds ==
  /\ <>[](cable = "none") => <>[](~attached)
  /\ result ~> [](~attached)
  /\ <>[](cable = "none" /\ phase = "awake" /\ ~clockBad /\ ~result /\ ~KeptByRefusal) => <>[](~clock)
=============================================================================
