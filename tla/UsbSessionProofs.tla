-------------------------- MODULE UsbSessionProofs --------------------------
(***************************************************************************)
(* What the charger and the USB worker keep between them, for every number *)
(* of faults, cable changes and retries: theorems of UsbSession!Spec.      *)
(*                                                                         *)
(* The four claims lean on each other.  No session beside the BC1.1 switch *)
(* needs that the mutex says where its two takers stand, and that a held   *)
(* reference keeps the clock; that a stopped USB is detached needs that a  *)
(* session never outlives a failed clock; that a stale verdict is always   *)
(* on its way to be taken back needs that a verdict exists only between    *)
(* polls and that what a detection found is true or already disturbed.     *)
(***************************************************************************)
EXTENDS UsbRefinement, TLAPS

\* The mutex is held by exactly the thread that is in the middle of its work.
LocksMatch ==
  /\ mutex = "charger" <=> chpc \in {"classify", "end"}
  /\ mutex = "usb" <=> upc = "act"
  /\ upc = "act" => phase = "awake" /\ ~finished

\* A worker that still runs has attempts left.
TriesLeft == ~finished => refusals < ReconnectAttempts

\* A held reference keeps the controller's clock, a session has both.
ClockKept ==
  /\ held => child /\ clock
  /\ attached => held /\ ~clockBad

\* The charger's poll always comes again, or waits for the end of the sleep.
PollReturns == chq \/ chpc # "idle" \/ Paused

\* There is no verdict while the source is being classified.
NoVerdictYet == chpc # "idle" => ~dataOk

\* What a detection found is true, or disturbed by an interrupt on its way or
\* noted in source_changed.
FoundIsFresh == chpc = "end" /\ found = "ok" /\ source = "host" /\ cable # "host" => edge \/ changed

StopIsFinal == finished => result

\* A fault is counted only while the bound allows one.
LEMMA ChargeTyped ==
  ASSUME EnvTypes, NEW a, a => faults < MaxFaults, Charge(a) PROVE faults' \in 0..MaxFaults
<1>1. CASE a
  BY <1>1, BoundsAssumption DEF EnvTypes, Charge
<1>2. CASE ~a
  BY <1>2 DEF EnvTypes, Charge
<1> QED
  BY <1>1, <1>2

\* What fails is decided by the faults that are left.
LEMMA FailsTyped ==
  ASSUME NEW f, NEW a \in Fails(f) PROVE a \in BOOLEAN /\ (a => faults < MaxFaults)
<1>1. CASE f \in Faults /\ faults < MaxFaults
  BY <1>1 DEF Fails
<1>2. CASE ~(f \in Faults /\ faults < MaxFaults)
  BY <1>2 DEF Fails
<1> QED
  BY <1>1, <1>2

\* Giving the clock back keeps its types.
LEMMA RestoreTyped ==
  ASSUME SharedTypes, NEW f \in BOOLEAN, Restore(f) PROVE clock' \in BOOLEAN /\ clockBad' \in BOOLEAN
<1>1. clockBad' \in BOOLEAN
  BY Zenon DEF Restore, SharedTypes
<1>2. clock' \in BOOLEAN
  <2>1. CASE ~clockBad /\ ~clock /\ f
    BY <2>1, Zenon DEF Restore
  <2>2. CASE ~(~clockBad /\ ~clock /\ f)
    BY <2>2, Zenon DEF Restore
  <2> QED
    BY <2>1, <2>2
<1> QED
  BY <1>1, <1>2

\* So does gating it.
LEMMA GateTyped ==
  ASSUME SharedTypes, NEW f \in BOOLEAN, Gate(f) PROVE clock' \in BOOLEAN /\ clockBad' \in BOOLEAN
<1>1. clockBad' \in BOOLEAN
  BY Zenon DEF Gate, SharedTypes
<1>2. clock' \in BOOLEAN
  <2>1. CASE clock /\ f
    BY <2>1, Zenon DEF Gate
  <2>2. CASE ~(clock /\ f)
    BY <2>2, Zenon DEF Gate
  <2> QED
    BY <2>1, <2>2
<1> QED
  BY <1>1, <1>2

\* What both ends of the worker change.
Left ==
  /\ upc' \in {"idle", "act"} /\ mutex' \in {"free", "charger", "usb"}
  /\ seen' \in {"present", "absent", "unread"}

\* The two ends of the worker keep the types of what they change.
LEMMA FinishTyped ==
  ASSUME Finishes
  PROVE Left /\ attached' \in BOOLEAN /\ held' \in BOOLEAN /\ result' \in BOOLEAN /\ finished' \in BOOLEAN
  BY Zenon DEF Finishes, Left

\* The worker ends.
LEMMA EndTyped == ASSUME WorkEnds PROVE Left /\ uq' \in BOOLEAN
  BY Zenon DEF WorkEnds, Left

\* What the end of a poll changes.
PollTypes ==
  /\ chpc' \in {"idle", "begin", "classify", "end"} /\ chq' \in BOOLEAN
  /\ was' \in BOOLEAN \X Sources /\ found' \in {"ok", "again", "gone", "failed"}
  /\ online' \in BOOLEAN /\ source' \in Sources /\ notify' \in BOOLEAN

\* The end of a poll keeps the types of what it changes.
LEMMA PollTyped ==
  ASSUME NEW on \in BOOLEAN, NEW src \in Sources, NEW old, PollEnds(on, src, old)
  PROVE PollTypes
<1>1. was' \in BOOLEAN \X Sources
  BY DEF PollEnds, NoLocals, Sources
<1>2. chpc' \in {"idle", "begin", "classify", "end"} /\ found' \in {"ok", "again", "gone", "failed"}
  BY Zenon DEF PollEnds, NoLocals
<1>3. chq' \in BOOLEAN /\ online' \in BOOLEAN /\ source' \in Sources /\ notify' \in BOOLEAN
  BY Zenon DEF PollEnds
<1> QED
  BY <1>1, <1>2, <1>3 DEF PollTypes

\* The charger's side of the type invariant: its poll and what interrupts it.
LEMMA ChargerTyped ==
  ASSUME TypeOK, ChargerStep \/ CableChanges \/ ChargerIrq \/ PresenceChanged PROVE TypeOK'
<1>1. CASE CableChanges
  <2>1. cable' \in Cables /\ events' \in 0..MaxEvents
    BY <1>1, BoundsAssumption DEF CableChanges, Event, Cables, TypeOK, EnvTypes, ChargerTypes, UsbTypes, SharedTypes
  <2>2. edge' \in BOOLEAN
    BY <1>1, Zenon DEF CableChanges
  <2>3. UNCHANGED <<phase, faults, inhibit, charger, usb, shared>>
    BY <1>1 DEF CableChanges
  <2> QED
    BY <2>1, <2>2, <2>3 DEF TypeOK, EnvTypes, ChargerTypes, UsbTypes, SharedTypes, env, charger, usb, shared
<1>2. CASE ChargerIrq
  <2>1. edge' \in BOOLEAN /\ changed' \in BOOLEAN /\ dataOk' \in BOOLEAN /\ chq' \in BOOLEAN
    BY <1>2, Zenon DEF ChargerIrq
  <2>2. UNCHANGED <<cable, phase, events, faults, inhibit, chpc, online, source, valid, was, found,
                    srcFault, tries, notify, usb, mutex, clock, clockBad>>
    BY <1>2 DEF ChargerIrq
  <2> QED
    BY <2>1, <2>2 DEF TypeOK, EnvTypes, ChargerTypes, UsbTypes, SharedTypes, env, charger, usb, shared
<1>3. CASE PresenceChanged
  <2>1. notify' \in BOOLEAN /\ uq' \in BOOLEAN
    BY <1>3, Zenon DEF PresenceChanged, Kicked
  <2>2. UNCHANGED <<env, chq, chpc, online, source, valid, changed, was, found, srcFault, tries,
                    upc, seen, child, attached, held, role, result, finished, reads, refusals, shared>>
    BY <1>3 DEF PresenceChanged
  <2> QED
    BY <2>1, <2>2 DEF TypeOK, EnvTypes, ChargerTypes, UsbTypes, SharedTypes, env, charger, usb, shared
<1>4. CASE PollPaused
  <2>1. chq' \in BOOLEAN
    BY <1>4, Zenon DEF PollPaused
  <2>2. UNCHANGED <<env, chpc, online, source, valid, changed, was, found, srcFault, tries, notify,
                    usb, shared>>
    BY <1>4 DEF PollPaused
  <2> QED
    BY <2>1, <2>2 DEF TypeOK, EnvTypes, ChargerTypes, UsbTypes, SharedTypes, env, charger, usb, shared
<1>5. CASE PollOffline
  <2>1. PollTypes
    <3>1. PollEnds(FALSE, "unknown", <<online, source>>)
      BY <1>5, Zenon DEF PollOffline
    <3>2. "unknown" \in Sources
      BY DEF Sources
    <3> QED
      BY <3>1, <3>2, PollTyped, Zenon
  <2>2. valid' \in BOOLEAN /\ dataOk' \in BOOLEAN
    BY <1>5, Zenon DEF PollOffline
  <2>3. srcFault' \in BOOLEAN
    BY <1>5, Zenon DEF PollOffline, TypeOK, EnvTypes, ChargerTypes, UsbTypes, SharedTypes
  <2>4. tries' \in 0..SourceRetries
    BY <1>5, BoundsAssumption DEF PollOffline
  <2>5. UNCHANGED <<env, changed, usb, mutex, clock, clockBad>>
    BY <1>5 DEF PollOffline
  <2> QED
    BY <2>1, <2>2, <2>3, <2>4, <2>5 DEF PollTypes, TypeOK, EnvTypes, ChargerTypes, UsbTypes, SharedTypes, env, charger, usb, shared
<1>6. CASE PollOnline
  <2>1. srcFault' \in BOOLEAN /\ tries' \in 0..SourceRetries
    <3>1. srcFault' \in BOOLEAN
      BY <1>6, Zenon DEF PollOnline
    <3>2. tries' \in 0..SourceRetries
      BY <1>6, BoundsAssumption DEF PollOnline, Retried, TypeOK, ChargerTypes
    <3> QED
      BY <3>1, <3>2
  <2>2. UNCHANGED <<env, changed, usb, mutex, clock, clockBad>>
    BY <1>6 DEF PollOnline
  <2>3. CASE PollEnds(TRUE, source, <<online, source>>)
    <3>1. PollTypes
      BY <2>3, PollTyped, Zenon DEF TypeOK, ChargerTypes
    <3>2. valid' \in BOOLEAN /\ dataOk' \in BOOLEAN
      BY <1>6, Zenon DEF PollOnline, TypeOK, EnvTypes, ChargerTypes, UsbTypes, SharedTypes
    <3> QED
      BY <2>1, <2>2, <3>1, <3>2 DEF PollTypes, TypeOK, EnvTypes, ChargerTypes, UsbTypes, SharedTypes, env, charger, usb, shared
  <2>4. CASE ~PollEnds(TRUE, source, <<online, source>>)
    <3>1. /\ chq' = FALSE /\ chpc' = "begin" /\ online' = TRUE /\ valid' = FALSE /\ dataOk' = FALSE
          /\ was' = <<online, source>> /\ UNCHANGED <<source, found, notify>>
      BY <1>6, <2>4, Zenon DEF PollOnline
    <3>2. chq' \in BOOLEAN /\ online' \in BOOLEAN /\ valid' \in BOOLEAN /\ dataOk' \in BOOLEAN
      BY <3>1, Zenon
    <3>3. was' \in BOOLEAN \X Sources /\ chpc' \in {"idle", "begin", "classify", "end"}
      BY <3>1 DEF TypeOK, ChargerTypes
    <3>4. UNCHANGED <<source, found, notify>>
      BY <3>1
    <3> QED
      BY <2>1, <2>2, <3>2, <3>3, <3>4 DEF TypeOK, EnvTypes, ChargerTypes, UsbTypes, SharedTypes, env, charger, usb, shared
  <2> QED
    BY <2>3, <2>4
<1>7. CASE BeginRefused
  <2>1. PollTypes
    <3>1. PollEnds(online, source, was)
      BY <1>7, Zenon DEF BeginRefused
    <3> QED
      BY <3>1, PollTyped, Zenon DEF TypeOK, ChargerTypes
  <2>2. UNCHANGED <<env, valid, changed, srcFault, tries, usb, shared>>
    BY <1>7 DEF BeginRefused
  <2> QED
    BY <2>1, <2>2 DEF PollTypes, TypeOK, EnvTypes, ChargerTypes, UsbTypes, SharedTypes, env, charger, usb, shared
<1>8. CASE Begin
  <2>1. PICK cf \in Fails("clock"), sf \in Fails("switch") :
          LET refused == Refused(cf) IN
          /\ Charge((~clockBad /\ ~clock /\ cf) \/ (~refused /\ sf))
          /\ Restore(cf)
          /\ IF refused \/ sf
             THEN /\ srcFault' = TRUE /\ UNCHANGED <<changed, mutex>>
                  /\ PollEnds(online, source, was)
             ELSE /\ mutex' = "charger" /\ chpc' = "classify" /\ changed' = FALSE
                  /\ UNCHANGED <<chq, online, source, was, found, notify, srcFault>>
    BY <1>8, Zenon DEF Begin
  <2>2. cf \in BOOLEAN /\ sf \in BOOLEAN /\ (cf \/ sf => faults < MaxFaults)
    BY FailsTyped
  <2>3. faults' \in 0..MaxFaults
    BY <2>1, <2>2, ChargeTyped DEF TypeOK
  <2>4. clock' \in BOOLEAN /\ clockBad' \in BOOLEAN
    BY <2>1, <2>2, RestoreTyped DEF TypeOK
  <2>5. UNCHANGED <<cable, edge, phase, events, inhibit, valid, tries, dataOk, usb>>
    BY <1>8 DEF Begin
  <2>6. CASE Refused(cf) \/ sf
    <3>1. srcFault' \in BOOLEAN
      BY <2>1, <2>6, Zenon
    <3>2. UNCHANGED <<changed, mutex>>
      BY <2>1, <2>6, Zenon
    <3>3. PollTypes
      BY <2>1, <2>6, PollTyped, Zenon DEF TypeOK, ChargerTypes
    <3> QED
      BY <2>3, <2>4, <2>5, <3>1, <3>2, <3>3 DEF PollTypes, TypeOK, EnvTypes, ChargerTypes, UsbTypes, SharedTypes, env, charger, usb, shared
  <2>7. CASE ~(Refused(cf) \/ sf)
    <3>1. changed' \in BOOLEAN
      BY <2>1, <2>7, Zenon
    <3>2. mutex' = "charger" /\ chpc' = "classify"
      BY <2>1, <2>7, Zenon
    <3>3. UNCHANGED <<chq, online, source, was, found, notify, srcFault>>
      BY <2>1, <2>7, Zenon
    <3> QED
      BY <2>3, <2>4, <2>5, <3>1, <3>2, <3>3 DEF TypeOK, EnvTypes, ChargerTypes, UsbTypes, SharedTypes, env, charger, usb, shared
  <2> QED
    BY <2>6, <2>7
<1>9. CASE Classify
  <2>1. PICK failed \in Fails("switch") :
          /\ Charge(failed)
          /\ source' = IF failed \/ cable = "none" THEN "unknown" ELSE cable
          /\ found' = IF cable = "none" THEN "gone"
                      ELSE IF failed THEN "failed"
                      ELSE IF changed THEN "again" ELSE "ok"
    BY <1>9, Zenon DEF Classify
  <2>2. faults' \in 0..MaxFaults
    BY <2>1, FailsTyped, ChargeTyped DEF TypeOK
  <2>3. source' \in Sources /\ found' \in {"ok", "again", "gone", "failed"}
    BY <2>1 DEF Sources, Cables, TypeOK, EnvTypes
  <2>4. chpc' = "end"
    BY <1>9 DEF Classify
  <2>5. UNCHANGED <<cable, edge, phase, events, inhibit, chq, online, valid, changed, was,
                    srcFault, tries, notify, usb, shared>>
    BY <1>9 DEF Classify
  <2> QED
    BY <2>2, <2>3, <2>4, <2>5 DEF TypeOK, EnvTypes, ChargerTypes, UsbTypes, SharedTypes, env, charger, usb, shared
<1>10. CASE End
  <2>1. PICK failed \in Fails("switch") :
          /\ Charge(failed)
          /\ dataOk' = (found = "ok" /\ source = "host" /\ ~failed)
          /\ valid' = (found = "ok" /\ ~failed)
          /\ srcFault' = (found = "failed" \/ (found = "ok" /\ failed))
          /\ PollEnds(IF valid' THEN cable # "none" ELSE online, source, was)
    BY <1>10, Zenon DEF End
  <2>2. faults' \in 0..MaxFaults
    BY <2>1, FailsTyped, ChargeTyped DEF TypeOK
  <2>3. dataOk' \in BOOLEAN /\ valid' \in BOOLEAN /\ srcFault' \in BOOLEAN
    BY <2>1, Zenon
  <2>4. PollTypes
    <3> DEFINE on == IF valid' THEN cable # "none" ELSE online
    <3>1. on \in BOOLEAN
      BY Zenon DEF TypeOK, ChargerTypes
    <3>2. source \in Sources
      BY DEF TypeOK, ChargerTypes
    <3>3. PollEnds(on, source, was)
      BY <2>1, Zenon
    <3> HIDE DEF on
    <3> QED
      BY <3>1, <3>2, <3>3, PollTyped, Zenon
  <2>5. mutex' = "free"
    BY <1>10 DEF End
  <2>6. UNCHANGED <<cable, edge, phase, events, inhibit, changed, tries, usb, clock, clockBad>>
    BY <1>10 DEF End
  <2> QED
    BY <2>2, <2>3, <2>4, <2>5, <2>6 DEF PollTypes, TypeOK, EnvTypes, ChargerTypes, UsbTypes, SharedTypes, env, charger, usb, shared
<1> QED
  BY <1>1, <1>2, <1>3, <1>4, <1>5, <1>6, <1>7, <1>8, <1>9, <1>10 DEF ChargerStep

\* The worker's side.  That a worker still runs while attempts are left bounds
\* the refusals.
LEMMA UsbTyped ==
  ASSUME TypeOK, LocksMatch, TriesLeft, UsbStep PROVE TypeOK'
<1>1. CASE WorkAfterFinish
  <2>1. uq' \in BOOLEAN
    BY <1>1, Zenon DEF WorkAfterFinish
  <2>2. UNCHANGED <<env, charger, upc, seen, child, attached, held, role, result, finished, reads,
                    refusals, shared>>
    BY <1>1 DEF WorkAfterFinish
  <2> QED
    BY <2>1, <2>2 DEF TypeOK, EnvTypes, ChargerTypes, UsbTypes, SharedTypes, env, charger, usb, shared
<1>2. CASE WorkFinishes
  <2>1. uq' \in BOOLEAN
    BY <1>2, Zenon DEF WorkFinishes
  <2>2. Left /\ attached' \in BOOLEAN /\ held' \in BOOLEAN /\ result' \in BOOLEAN /\ finished' \in BOOLEAN
    BY <1>2, FinishTyped, Zenon DEF WorkFinishes
  <2>3. UNCHANGED <<env, charger, child, role, reads, refusals, dataOk, clock, clockBad>>
    BY <1>2 DEF WorkFinishes
  <2> QED
    BY <2>1, <2>2, <2>3 DEF Left, TypeOK, EnvTypes, ChargerTypes, UsbTypes, SharedTypes, env, charger, usb, shared
<1>3. CASE WorkSamples
  <2>1. PICK failed \in Fails("sample") :
          /\ Charge(failed)
          /\ IF EndsUsb(failed)
             THEN Finishes /\ UNCHANGED <<reads, dataOk>>
             ELSE /\ upc' = "act" /\ mutex' = "usb"
                  /\ seen' = IF failed THEN "unread" ELSE IF cable = "none" THEN "absent" ELSE "present"
                  /\ reads' = IF failed THEN reads + 1 ELSE 0
                  /\ dataOk' = (dataOk /\ seen' # "absent")
                  /\ UNCHANGED <<attached, held, result, finished>>
    BY <1>3, Zenon DEF WorkSamples
  <2>2. faults' \in 0..MaxFaults /\ failed \in BOOLEAN
    BY <2>1, FailsTyped, ChargeTyped DEF TypeOK
  <2>3. uq' \in BOOLEAN
    BY <1>3, Zenon DEF WorkSamples
  <2>4. UNCHANGED <<cable, edge, phase, events, inhibit, charger, child, role, refusals, clock, clockBad>>
    BY <1>3 DEF WorkSamples
  <2>5. CASE EndsUsb(failed)
    <3>1. Left /\ attached' \in BOOLEAN /\ held' \in BOOLEAN /\ result' \in BOOLEAN /\ finished' \in BOOLEAN
      BY <2>1, <2>5, FinishTyped, Zenon
    <3>2. UNCHANGED <<reads, dataOk>>
      BY <2>1, <2>5, Zenon
    <3> QED
      BY <2>2, <2>3, <2>4, <3>1, <3>2 DEF Left, TypeOK, EnvTypes, ChargerTypes, UsbTypes, SharedTypes, env, charger, usb, shared
  <2>6. CASE ~EndsUsb(failed)
    <3>1. upc' = "act" /\ mutex' = "usb" /\ UNCHANGED <<attached, held, result, finished>>
      BY <2>1, <2>6, Zenon
    <3>2. seen' = (IF failed THEN "unread" ELSE IF cable = "none" THEN "absent" ELSE "present")
      BY <2>1, <2>6, Zenon
    <3>3. seen' \in {"present", "absent", "unread"}
      BY <3>2
    <3>4. dataOk' \in BOOLEAN
      BY <2>1, <2>6, Zenon
    <3>5. reads' = IF failed THEN reads + 1 ELSE 0
      BY <2>1, <2>6, Zenon
    <3>6. reads' \in 0..MonitorTolerance - 1
      BY <2>6, <3>5, BoundsAssumption DEF EndsUsb, TypeOK, UsbTypes
    <3> QED
      BY <2>2, <2>3, <2>4, <3>1, <3>3, <3>4, <3>6 DEF TypeOK, EnvTypes, ChargerTypes, UsbTypes, SharedTypes, env, charger, usb, shared
  <2> QED
    BY <2>5, <2>6
<1>4. CASE Register
  <2>1. PICK cf \in Fails("clock"), failed \in Fails("register") :
          LET refused == Refused(cf) IN
          /\ Charge((~clockBad /\ ~clock /\ cf) \/ (~refused /\ failed))
          /\ Restore(cf)
          /\ IF refused \/ failed
             THEN /\ child' \in {FALSE, ~refused} /\ Finishes /\ UNCHANGED uq
             ELSE /\ child' = TRUE /\ attached' = TRUE /\ held' = TRUE
                  /\ WorkEnds /\ UNCHANGED <<result, finished>>
    BY <1>4, Zenon DEF Register
  <2>2. cf \in BOOLEAN /\ failed \in BOOLEAN /\ (cf \/ failed => faults < MaxFaults)
    BY FailsTyped
  <2>3. faults' \in 0..MaxFaults
    BY <2>1, <2>2, ChargeTyped DEF TypeOK
  <2>4. clock' \in BOOLEAN /\ clockBad' \in BOOLEAN
    BY <2>1, <2>2, RestoreTyped DEF TypeOK
  <2>5. UNCHANGED <<cable, edge, phase, events, inhibit, charger, role, reads, refusals, dataOk>>
    BY <1>4 DEF Register
  <2>6. CASE Refused(cf) \/ failed
    <3>1. child' \in BOOLEAN
      BY <2>1, <2>6, Zenon
    <3>2. Left /\ attached' \in BOOLEAN /\ held' \in BOOLEAN /\ result' \in BOOLEAN /\ finished' \in BOOLEAN
      BY <2>1, <2>6, FinishTyped, Zenon
    <3>3. UNCHANGED uq
      BY <2>1, <2>6, Zenon
    <3> QED
      BY <2>3, <2>4, <2>5, <3>1, <3>2, <3>3 DEF Left, TypeOK, EnvTypes, ChargerTypes, UsbTypes, SharedTypes, env, charger, usb, shared
  <2>7. CASE ~(Refused(cf) \/ failed)
    <3>1. child' \in BOOLEAN /\ attached' \in BOOLEAN /\ held' \in BOOLEAN
      BY <2>1, <2>7, Zenon
    <3>2. Left /\ uq' \in BOOLEAN
      BY <2>1, <2>7, EndTyped, Zenon
    <3>3. UNCHANGED <<result, finished>>
      BY <2>1, <2>7, Zenon
    <3> QED
      BY <2>3, <2>4, <2>5, <3>1, <3>2, <3>3 DEF Left, TypeOK, EnvTypes, ChargerTypes, UsbTypes, SharedTypes, env, charger, usb, shared
  <2> QED
    BY <2>6, <2>7
<1>5. CASE Detach
  <2>1. attached' \in BOOLEAN /\ held' \in BOOLEAN
    BY <1>5, Zenon DEF Detach
  <2>2. Left /\ uq' \in BOOLEAN
    BY <1>5, EndTyped, Zenon DEF Detach
  <2>3. UNCHANGED <<env, charger, child, role, result, finished, reads, refusals, dataOk, clock, clockBad>>
    BY <1>5 DEF Detach
  <2> QED
    BY <2>1, <2>2, <2>3 DEF Left, TypeOK, EnvTypes, ChargerTypes, UsbTypes, SharedTypes, env, charger, usb, shared
<1>6. CASE Reconnect
  <2> DEFINE refused(cf) == clockBad \/ (~held /\ Refused(cf))
  <2>1. PICK cf \in Fails("clock"), refuse \in Fails("refuse"), broken \in Fails("session") :
          /\ Charge((~held /\ ~clockBad /\ ~clock /\ cf) \/ (~refused(cf) /\ (refuse \/ broken)))
          /\ IF held THEN UNCHANGED <<clock, clockBad>> ELSE Restore(cf)
          /\ refusals' = IF refused(cf) \/ (refuse /\ ~broken) THEN refusals + 1
                         ELSE IF broken THEN refusals ELSE 0
          /\ IF (~refused(cf) /\ broken) \/ refusals' >= ReconnectAttempts
             THEN Finishes /\ UNCHANGED uq
             ELSE /\ attached' = (~refused(cf) /\ ~refuse) /\ held' = (held \/ ~refused(cf))
                  /\ WorkEnds /\ UNCHANGED <<result, finished>>
    BY <1>6, Zenon DEF Reconnect
  <2> HIDE DEF refused
  <2>2. /\ cf \in BOOLEAN /\ refuse \in BOOLEAN /\ broken \in BOOLEAN
        /\ cf \/ refuse \/ broken => faults < MaxFaults
    BY FailsTyped
  <2>3. faults' \in 0..MaxFaults
    BY <2>1, <2>2, ChargeTyped DEF TypeOK
  <2>4. clock' \in BOOLEAN /\ clockBad' \in BOOLEAN
    <3>1. CASE held
      BY <2>1, <3>1, Zenon DEF TypeOK, SharedTypes
    <3>2. CASE ~held
      BY <2>1, <2>2, <3>2, RestoreTyped, Zenon DEF TypeOK
    <3> QED
      BY <3>1, <3>2
  <2>5. refusals' \in 0..ReconnectAttempts
    <3>1. refusals \in 0..ReconnectAttempts /\ refusals < ReconnectAttempts
      BY <1>6 DEF Reconnect, Acting, LocksMatch, TriesLeft, TypeOK, UsbTypes
    <3>2. refusals' \in {refusals + 1, refusals, 0}
      BY <2>1
    <3> QED
      BY <3>1, <3>2, BoundsAssumption
  <2>6. UNCHANGED <<cable, edge, phase, events, inhibit, charger, child, role, reads, dataOk>>
    BY <1>6 DEF Reconnect
  <2>7. CASE (~refused(cf) /\ broken) \/ refusals' >= ReconnectAttempts
    <3>1. Left /\ attached' \in BOOLEAN /\ held' \in BOOLEAN /\ result' \in BOOLEAN /\ finished' \in BOOLEAN
      BY <2>1, <2>7, FinishTyped, Zenon
    <3>2. UNCHANGED uq
      BY <2>1, <2>7, Zenon
    <3> QED
      BY <2>3, <2>4, <2>5, <2>6, <3>1, <3>2 DEF Left, TypeOK, EnvTypes, ChargerTypes, UsbTypes, SharedTypes, env, charger, usb, shared
  <2>8. CASE ~((~refused(cf) /\ broken) \/ refusals' >= ReconnectAttempts)
    <3>1. attached' \in BOOLEAN /\ held' \in BOOLEAN
      BY <2>1, <2>8, Zenon
    <3>2. Left /\ uq' \in BOOLEAN
      BY <2>1, <2>8, EndTyped, Zenon
    <3>3. UNCHANGED <<result, finished>>
      BY <2>1, <2>8, Zenon
    <3> QED
      BY <2>3, <2>4, <2>5, <2>6, <3>1, <3>2, <3>3 DEF Left, TypeOK, EnvTypes, ChargerTypes, UsbTypes, SharedTypes, env, charger, usb, shared
  <2> QED
    BY <2>7, <2>8
<1>7. CASE Settle
  <2>1. PICK failed \in Fails("clock") :
          /\ Charge(~child /\ clock /\ failed)
          /\ IF child THEN UNCHANGED <<clock, clockBad>> ELSE Gate(failed)
          /\ IF ~child /\ clock /\ failed
             THEN Finishes /\ UNCHANGED uq
             ELSE WorkEnds /\ UNCHANGED <<result, finished, attached, held>>
    BY <1>7, Zenon DEF Settle
  <2>2. failed \in BOOLEAN /\ (failed => faults < MaxFaults)
    BY FailsTyped
  <2>3. faults' \in 0..MaxFaults
    BY <2>1, <2>2, ChargeTyped DEF TypeOK
  <2>4. clock' \in BOOLEAN /\ clockBad' \in BOOLEAN
    <3>1. CASE child
      BY <2>1, <3>1, Zenon DEF TypeOK, SharedTypes
    <3>2. CASE ~child
      BY <2>1, <2>2, <3>2, GateTyped, Zenon DEF TypeOK
    <3> QED
      BY <3>1, <3>2
  <2>5. UNCHANGED <<cable, edge, phase, events, inhibit, charger, child, role, reads, refusals, dataOk>>
    BY <1>7 DEF Settle
  <2>6. CASE ~child /\ clock /\ failed
    <3>1. Left /\ attached' \in BOOLEAN /\ held' \in BOOLEAN /\ result' \in BOOLEAN /\ finished' \in BOOLEAN
      BY <2>1, <2>6, FinishTyped, Zenon
    <3>2. UNCHANGED uq
      BY <2>1, <2>6, Zenon
    <3> QED
      BY <2>3, <2>4, <2>5, <3>1, <3>2 DEF Left, TypeOK, EnvTypes, ChargerTypes, UsbTypes, SharedTypes, env, charger, usb, shared
  <2>7. CASE ~(~child /\ clock /\ failed)
    <3>1. Left /\ uq' \in BOOLEAN
      BY <2>1, <2>7, EndTyped, Zenon
    <3>2. UNCHANGED <<result, finished, attached, held>>
      BY <2>1, <2>7, Zenon
    <3> QED
      BY <2>3, <2>4, <2>5, <3>1, <3>2 DEF Left, TypeOK, EnvTypes, ChargerTypes, UsbTypes, SharedTypes, env, charger, usb, shared
  <2> QED
    BY <2>6, <2>7
<1> QED
  BY <1>1, <1>2, <1>3, <1>4, <1>5, <1>6, <1>7 DEF UsbStep

\* The owner, the controller, runtime PM and system sleep.
OutsideStep == RoleSet \/ Inhibit \/ ControllerFails \/ RuntimeSuspend \/ Freeze \/ PowerStep

LEMMA OutsideTyped ==
  ASSUME TypeOK, OutsideStep PROVE TypeOK'
<1>1. CASE RoleSet
  <2>1. events' \in 0..MaxEvents /\ role' \in {"device", "none"}
    BY <1>1, BoundsAssumption DEF RoleSet, Event, TypeOK, EnvTypes, ChargerTypes, UsbTypes, SharedTypes
  <2>2. attached' \in BOOLEAN /\ held' \in BOOLEAN /\ uq' \in BOOLEAN
    BY <1>1, Zenon DEF RoleSet, Kicked
  <2>3. UNCHANGED <<cable, edge, phase, faults, inhibit, charger, upc, seen, child, result, finished,
                    reads, refusals, shared>>
    BY <1>1 DEF RoleSet
  <2> QED
    BY <2>1, <2>2, <2>3 DEF TypeOK, EnvTypes, ChargerTypes, UsbTypes, SharedTypes, env, charger, usb, shared
<1>2. CASE Inhibit
  <2>1. events' \in 0..MaxEvents
    BY <1>2, BoundsAssumption DEF Inhibit, Event, TypeOK, EnvTypes, ChargerTypes, UsbTypes, SharedTypes
  <2>2. inhibit' \in BOOLEAN /\ chq' \in BOOLEAN
    BY <1>2, Zenon DEF Inhibit
  <2>3. UNCHANGED <<cable, edge, phase, faults, chpc, online, source, valid, changed, was, found,
                    srcFault, tries, notify, usb, shared>>
    BY <1>2 DEF Inhibit
  <2> QED
    BY <2>1, <2>2, <2>3 DEF TypeOK, EnvTypes, ChargerTypes, UsbTypes, SharedTypes, env, charger, usb, shared
<1>3. CASE ControllerFails
  <2>1. faults' \in 0..MaxFaults
    BY <1>3, BoundsAssumption DEF ControllerFails, TypeOK, EnvTypes, ChargerTypes, UsbTypes, SharedTypes
  <2>2. result' \in BOOLEAN
    BY <1>3, Zenon DEF ControllerFails
  <2>3. UNCHANGED <<cable, edge, phase, events, inhibit, charger, uq, upc, seen, child, attached, held,
                    role, finished, reads, refusals, shared>>
    BY <1>3 DEF ControllerFails
  <2> QED
    BY <2>1, <2>2, <2>3 DEF TypeOK, EnvTypes, ChargerTypes, UsbTypes, SharedTypes, env, charger, usb, shared
<1>4. CASE RuntimeSuspend
  <2>1. PICK failed \in Fails("clock") : Charge(failed) /\ Gate(failed)
    BY <1>4, Zenon DEF RuntimeSuspend
  <2>2. failed \in BOOLEAN /\ (failed => faults < MaxFaults)
    BY FailsTyped
  <2>3. faults' \in 0..MaxFaults
    BY <2>1, <2>2, ChargeTyped DEF TypeOK
  <2>4. clock' \in BOOLEAN /\ clockBad' \in BOOLEAN
    BY <2>1, <2>2, GateTyped, Zenon DEF TypeOK
  <2>5. UNCHANGED <<cable, edge, phase, events, inhibit, charger, usb, mutex, dataOk>>
    BY <1>4 DEF RuntimeSuspend
  <2> QED
    BY <2>3, <2>4, <2>5 DEF TypeOK, EnvTypes, ChargerTypes, UsbTypes, SharedTypes, env, charger, usb, shared
<1>5. CASE Freeze
  <2>1. events' \in 0..MaxEvents /\ phase' = "frozen"
    BY <1>5, BoundsAssumption DEF Freeze, Event, TypeOK, EnvTypes, ChargerTypes, UsbTypes, SharedTypes
  <2>2. UNCHANGED <<cable, edge, faults, inhibit, charger, usb, shared>>
    BY <1>5 DEF Freeze
  <2> QED
    BY <2>1, <2>2 DEF TypeOK, EnvTypes, ChargerTypes, UsbTypes, SharedTypes, env, charger, usb, shared
<1>6. CASE PrepareUsb
  <2> DEFINE gates == ~child /\ ~finished /\ ~result
  <2>1. PICK failed \in Fails("clock") :
          /\ Charge(gates /\ clock /\ failed)
          /\ IF gates THEN Gate(failed) ELSE UNCHANGED <<clock, clockBad>>
          /\ IF gates /\ clock /\ failed
             THEN phase' = "awake" /\ uq' = (~finished)
             ELSE phase' = "prepared" /\ uq' = FALSE
    BY <1>6, Zenon DEF PrepareUsb
  <2> HIDE DEF gates
  <2>2. failed \in BOOLEAN /\ (failed => faults < MaxFaults)
    BY FailsTyped
  <2>3. faults' \in 0..MaxFaults
    BY <2>1, <2>2, ChargeTyped DEF TypeOK
  <2>4. clock' \in BOOLEAN /\ clockBad' \in BOOLEAN
    <3>1. CASE gates
      BY <2>1, <2>2, <3>1, GateTyped, Zenon DEF TypeOK
    <3>2. CASE ~gates
      BY <2>1, <3>2, Zenon DEF TypeOK, SharedTypes
    <3> QED
      BY <3>1, <3>2
  <2>5. uq' \in BOOLEAN
    BY <2>1, Zenon
  <2>6. phase' \in {"awake", "prepared"}
    BY <2>1, Zenon
  <2>7. UNCHANGED <<cable, edge, events, inhibit, charger, upc, seen, child, attached, held, role,
                    result, finished, reads, refusals, mutex, dataOk>>
    BY <1>6 DEF PrepareUsb
  <2> QED
    BY <2>3, <2>4, <2>5, <2>6, <2>7 DEF TypeOK, EnvTypes, ChargerTypes, UsbTypes, SharedTypes, env, charger, usb, shared
<1>7. CASE PrepareCharger
  <2>1. chq' \in BOOLEAN
    BY <1>7, Zenon DEF PrepareCharger
  <2>2. phase' = "asleep"
    BY <1>7 DEF PrepareCharger
  <2>3. UNCHANGED <<cable, edge, events, faults, inhibit, chpc, online, source, valid, changed, was,
                    found, srcFault, tries, notify, usb, shared>>
    BY <1>7 DEF PrepareCharger
  <2> QED
    BY <2>1, <2>2, <2>3 DEF TypeOK, EnvTypes, ChargerTypes, UsbTypes, SharedTypes, env, charger, usb, shared
<1>8. CASE CompleteCharger
  <2>1. chq' \in BOOLEAN
    BY <1>8, Zenon DEF CompleteCharger
  <2>2. phase' = "waking"
    BY <1>8 DEF CompleteCharger
  <2>3. UNCHANGED <<cable, edge, events, faults, inhibit, chpc, online, source, valid, changed, was,
                    found, srcFault, tries, notify, usb, shared>>
    BY <1>8 DEF CompleteCharger
  <2> QED
    BY <2>1, <2>2, <2>3 DEF TypeOK, EnvTypes, ChargerTypes, UsbTypes, SharedTypes, env, charger, usb, shared
<1>9. CASE SleepRefused \/ CompleteUsb
  <2>1. uq' \in BOOLEAN
    BY <1>9, Zenon DEF SleepRefused, CompleteUsb
  <2>2. phase' = "awake"
    BY <1>9 DEF SleepRefused, CompleteUsb
  <2>3. UNCHANGED <<cable, edge, events, faults, inhibit, charger, upc, seen, child, attached, held,
                    role, result, finished, reads, refusals, shared>>
    BY <1>9 DEF SleepRefused, CompleteUsb
  <2> QED
    BY <2>1, <2>2, <2>3 DEF TypeOK, EnvTypes, ChargerTypes, UsbTypes, SharedTypes, env, charger, usb, shared
<1> QED
  BY <1>1, <1>2, <1>3, <1>4, <1>5, <1>6, <1>7, <1>8, <1>9 DEF OutsideStep, PowerStep

\* Next, by who takes the step.
LEMMA Actors ==
  ASSUME [Next]_vars
  PROVE \/ ChargerStep \/ CableChanges \/ ChargerIrq \/ PresenceChanged
        \/ UsbStep \/ OutsideStep \/ UNCHANGED vars
  BY DEF Next, ChargerStep, UsbStep, OutsideStep, PowerStep

\* Every step keeps the types.
LEMMA TypeStep ==
  ASSUME TypeOK, LocksMatch, TriesLeft, [Next]_vars PROVE TypeOK'
<1>1. CASE UNCHANGED vars
  BY <1>1 DEF vars, env, charger, usb, shared, TypeOK, EnvTypes, ChargerTypes, UsbTypes, SharedTypes
<1> QED
  BY <1>1, Actors, ChargerTyped, UsbTyped, OutsideTyped

-----------------------------------------------------------------------------
(* The verdict: what the charger says of the cable. *)

Verdict == PollReturns /\ NoVerdictYet /\ FoundIsFresh /\ ProofIsFresh

\* Whoever leaves the poll alone can only take the verdict back.
LEMMA VerdictLeft ==
  ASSUME Verdict, UNCHANGED <<chq, chpc, found, source, changed, cable, edge>>, Paused => Paused',
         dataOk' => dataOk
  PROVE Verdict'
  BY Zenon DEF Verdict, PollReturns, NoVerdictYet, FoundIsFresh, ProofIsFresh

\* The worker leaves the poll alone; only its sample of an absent cable takes the verdict back.
LEMMA UsbVerdict ==
  ASSUME Verdict, UsbStep PROVE Verdict'
<1>1. UNCHANGED <<chq, chpc, found, source, changed, cable, edge, phase>>
  BY DEF UsbStep, WorkAfterFinish, WorkFinishes, WorkSamples, Register, Detach, Reconnect, Settle, env, charger, usb, shared
<1>2. dataOk' => dataOk
  <2>1. CASE WorkSamples
    <3>1. \/ UNCHANGED dataOk
          \/ dataOk' = (dataOk /\ seen' # "absent")
      BY <2>1, Zenon DEF WorkSamples
    <3> QED
      BY <3>1, Zenon
  <2>2. CASE ~WorkSamples
    <3>1. UNCHANGED dataOk
      BY <2>2 DEF UsbStep, WorkAfterFinish, WorkFinishes, Register, Detach, Reconnect, Settle, shared
    <3> QED
      BY <3>1
  <2> QED
    BY <2>1, <2>2
<1> QED
  BY <1>1, <1>2, VerdictLeft DEF Paused

\* So do the owner, the controller and system sleep, which holds the poll back and lets it come again.
LEMMA OutsideVerdict ==
  ASSUME Verdict, OutsideStep PROVE Verdict'
<1>1. CASE Inhibit
  <2>1. chq' /\ UNCHANGED <<chpc, found, source, changed, cable, edge, phase, dataOk>>
    BY <1>1, Zenon DEF Inhibit, shared
  <2> QED
    BY <2>1, Zenon DEF Verdict, PollReturns, NoVerdictYet, FoundIsFresh, ProofIsFresh, Paused
<1>2. CASE PrepareCharger
  <2>1. phase' = "asleep" /\ UNCHANGED <<chpc, found, source, changed, cable, edge, dataOk>>
    BY <1>2, Zenon DEF PrepareCharger, shared
  <2> QED
    BY <2>1, Zenon DEF Verdict, PollReturns, NoVerdictYet, FoundIsFresh, ProofIsFresh, Paused
<1>3. CASE CompleteCharger
  <2>1. chq' /\ UNCHANGED <<chpc, found, source, changed, cable, edge, dataOk>>
    BY <1>3, Zenon DEF CompleteCharger, shared
  <2> QED
    BY <2>1, Zenon DEF Verdict, PollReturns, NoVerdictYet, FoundIsFresh, ProofIsFresh
<1>4. CASE RoleSet \/ ControllerFails \/ RuntimeSuspend \/ Freeze \/ PrepareUsb \/ SleepRefused \/ CompleteUsb
  <2>1. UNCHANGED <<chq, chpc, found, source, changed, cable, edge, dataOk>>
    BY <1>4 DEF RoleSet, ControllerFails, RuntimeSuspend, Freeze, PrepareUsb, SleepRefused, CompleteUsb, env, charger, usb, shared
  <2>2. Paused => Paused'
    BY <1>4 DEF RoleSet, ControllerFails, RuntimeSuspend, Freeze, PrepareUsb, SleepRefused, CompleteUsb, Paused
  <2> QED
    BY <2>1, <2>2, VerdictLeft
<1> QED
  BY <1>1, <1>2, <1>3, <1>4 DEF OutsideStep, PowerStep

\* A poll that ends without a verdict, or with a true one, and queues the next.
LEMMA PollVerdict ==
  ASSUME NEW on, NEW src, NEW old, PollEnds(on, src, old),
         dataOk' /\ cable' # "host" => edge' \/ changed'
  PROVE Verdict'
<1>1. chpc' = "idle" /\ chq'
  BY Zenon DEF PollEnds
<1> QED
  BY <1>1 DEF Verdict, PollReturns, NoVerdictYet, FoundIsFresh, ProofIsFresh

\* The poll itself, and the cable and its interrupt around it.
LEMMA ChargerVerdict ==
  ASSUME Verdict, ChargerStep \/ CableChanges \/ ChargerIrq \/ PresenceChanged PROVE Verdict'
<1> USE DEF Verdict, PollReturns, NoVerdictYet, FoundIsFresh, ProofIsFresh
<1>1. CASE CableChanges
  <2>1. edge' /\ UNCHANGED <<chq, chpc, phase, dataOk>>
    BY <1>1, Zenon DEF CableChanges, charger, shared
  <2> QED
    BY <2>1, Zenon DEF Paused
<1>2. CASE ChargerIrq
  <2>1. changed' /\ ~dataOk' /\ chq'
    BY <1>2, Zenon DEF ChargerIrq
  <2> QED
    BY <2>1, Zenon
<1>3. CASE PresenceChanged
  <2>1. UNCHANGED <<chq, chpc, found, source, changed, cable, edge, phase, dataOk>>
    BY <1>3 DEF PresenceChanged, env, shared
  <2> QED
    BY <2>1, VerdictLeft DEF Paused
<1>4. CASE PollPaused
  <2>1. Paused' /\ UNCHANGED <<chpc, found, source, changed, cable, edge, dataOk>>
    BY <1>4 DEF PollPaused, Paused, env, shared
  <2> QED
    BY <2>1, Zenon
<1>5. CASE PollOffline
  <2>1. ~dataOk' /\ PollEnds(FALSE, "unknown", <<online, source>>)
    BY <1>5, Zenon DEF PollOffline
  <2> QED
    BY <2>1, PollVerdict, Zenon
<1>6. CASE PollOnline
  <2>1. \/ UNCHANGED dataOk /\ PollEnds(TRUE, source, <<online, source>>)
        \/ chpc' = "begin" /\ ~dataOk'
    BY <1>6, Zenon DEF PollOnline
  <2>2. UNCHANGED <<cable, edge, changed>>
    BY <1>6 DEF PollOnline, env
  <2>3. CASE UNCHANGED dataOk /\ PollEnds(TRUE, source, <<online, source>>)
    BY <2>2, <2>3, PollVerdict, Zenon
  <2>4. CASE chpc' = "begin" /\ ~dataOk'
    BY <2>4
  <2> QED
    BY <2>1, <2>3, <2>4
<1>7. CASE BeginRefused
  <2>1. PollEnds(online, source, was)
    BY <1>7, Zenon DEF BeginRefused
  <2>2. UNCHANGED <<cable, edge, changed, dataOk>>
    BY <1>7 DEF BeginRefused, env, shared
  <2> QED
    BY <2>1, <2>2, PollVerdict, Zenon
<1>8. CASE Begin
  <2>1. ~dataOk' 
    <3>1. chpc = "begin" /\ UNCHANGED dataOk
      BY <1>8 DEF Begin
    <3> QED
      BY <3>1
  <2>2. PollEnds(online, source, was) \/ chpc' = "classify"
    BY <1>8, Zenon DEF Begin
  <2>3. CASE PollEnds(online, source, was)
    BY <2>1, <2>3, PollVerdict, Zenon
  <2>4. CASE chpc' = "classify"
    BY <2>1, <2>4
  <2> QED
    BY <2>2, <2>3, <2>4
<1>9. CASE Classify
  <2>1. /\ chpc = "classify" /\ chpc' = "end"
        /\ UNCHANGED <<cable, edge, changed, dataOk>>
    BY <1>9 DEF Classify, shared
  <2>2. found' = "ok" => ~changed /\ source' = cable
    BY <1>9 DEF Classify
  <2> QED
    BY <2>1, <2>2
<1>10. CASE End
  <2>1. /\ chpc = "end" /\ UNCHANGED <<cable, edge, changed>>
        /\ \E on : PollEnds(on, source, was)
    BY <1>10, Zenon DEF End
  <2>2. dataOk' => found = "ok" /\ source = "host"
    BY <1>10, Zenon DEF End
  <2> QED
    BY <2>1, <2>2, PollVerdict, Zenon
<1> QED
  BY <1>1, <1>2, <1>3, <1>4, <1>5, <1>6, <1>7, <1>8, <1>9, <1>10 DEF ChargerStep

\* Every step keeps the verdict true or on its way to be taken back.
LEMMA VerdictStep ==
  ASSUME Verdict, [Next]_vars PROVE Verdict'
<1>1. CASE UNCHANGED vars
  BY <1>1, VerdictLeft DEF vars, env, charger, usb, shared, Paused
<1> QED
  BY <1>1, Actors, ChargerVerdict, UsbVerdict, OutsideVerdict

-----------------------------------------------------------------------------
(* The session: what the worker and the charger leave each other. *)

Session ==
  /\ LocksMatch /\ TriesLeft /\ ClockKept /\ StopIsFinal
  /\ SwitchNeedsQuiet /\ AttachedIsWatched /\ StoppedIsDetached

\* A clock that is on stays on when it is given back, and is on afterwards
\* unless that was refused.
LEMMA RestoreGives ==
  ASSUME NEW f, Restore(f) PROVE (clock => clock') /\ (~Refused(f) => clock' /\ ~clockBad')
<1>1. CASE ~clockBad /\ ~clock /\ f
  BY <1>1, Zenon DEF Refused
<1>2. CASE ~(~clockBad /\ ~clock /\ f)
  <2>1. clock' = (clock \/ ~clockBad) /\ clockBad' = (clockBad \/ (~clock /\ f))
    BY <1>2, Zenon DEF Restore
  <2> QED
    BY <1>2, <2>1, Zenon DEF Refused
<1> QED
  BY <1>1, <1>2

\* The end that stops USB: a session never had a failed clock, so it is detached.
LEMMA FinishKeeps ==
  ASSUME Session, Finishes, mutex # "charger", UNCHANGED chpc PROVE Session'
<1>1. finished' /\ result' /\ ~held' /\ ~attached' /\ mutex' = "free" /\ upc' = "idle"
  BY Zenon DEF Finishes, Session, ClockKept
<1> QED
  BY <1>1 DEF Session, LocksMatch, TriesLeft, ClockKept, StopIsFinal, SwitchNeedsQuiet, AttachedIsWatched, StoppedIsDetached

\* The end that goes on.
LEMMA EndKeeps ==
  ASSUME Session, upc = "act", WorkEnds, UNCHANGED <<chpc, phase, finished>>,
         refusals' < ReconnectAttempts, attached' => uq', ClockKept'
  PROVE Session'
<1>1. mutex' = "free" /\ upc' = "idle" /\ ~finished' /\ phase' = "awake"
  BY Zenon DEF WorkEnds, Session, LocksMatch
<1>2. chpc' \notin {"classify", "end"}
  BY DEF Session, LocksMatch
<1> QED
  BY <1>1, <1>2 DEF Session, LocksMatch, TriesLeft, ClockKept, StopIsFinal, SwitchNeedsQuiet, AttachedIsWatched, StoppedIsDetached

\* Whoever leaves the worker and the mutex alone can only turn the clock on.
LEMMA SessionLeft ==
  ASSUME Session, UNCHANGED <<mutex, chpc, upc, finished, refusals, attached, child>>,
         phase' = phase \/ (upc # "act" /\ ~Sleeping), held' = held, clock => clock',
         attached => (clockBad' <=> clockBad), result => result', uq => uq'
  PROVE Session'
<1>1. phase' = phase \/ upc # "act"
  OBVIOUS
<1>2. attached => uq' \/ Acting' \/ Sleeping'
  BY Zenon DEF Session, AttachedIsWatched, Acting, Sleeping
<1>3. LocksMatch'
  BY <1>1, Zenon DEF Session, LocksMatch
<1> QED
  BY <1>2, <1>3, Zenon DEF Session, LocksMatch, TriesLeft, ClockKept, StopIsFinal, SwitchNeedsQuiet, AttachedIsWatched, StoppedIsDetached

\* The worker: every way through it ends with FinishKeeps or EndKeeps.
LEMMA UsbSessionStep ==
  ASSUME TypeOK, Session, UsbStep PROVE Session'
<1>1. CASE WorkAfterFinish
  <2>1. finished /\ ~attached
    BY <1>1 DEF WorkAfterFinish, Session, StoppedIsDetached
  <2>2. UNCHANGED <<mutex, chpc, upc, finished, refusals, attached, child, phase, held, clock, clockBad, result>>
    BY <1>1 DEF WorkAfterFinish, env, charger, usb, shared
  <2> QED
    BY <2>1, <2>2 DEF Session, LocksMatch, TriesLeft, ClockKept, StopIsFinal, SwitchNeedsQuiet, AttachedIsWatched, StoppedIsDetached
<1>2. CASE WorkFinishes
  <2>1. Finishes /\ mutex # "charger" /\ UNCHANGED chpc
    BY <1>2, Zenon DEF WorkFinishes, WorkRuns, charger
  <2> QED
    BY <2>1, FinishKeeps
<1>3. CASE WorkSamples
  <2>1. mutex = "free" /\ upc = "idle" /\ phase = "awake" /\ ~finished
    BY <1>3 DEF WorkSamples, WorkRuns
  <2>2. UNCHANGED <<chpc, phase, refusals, child, clock, clockBad>>
    BY <1>3 DEF WorkSamples, charger
  <2>3. \/ Finishes
        \/ upc' = "act" /\ mutex' = "usb" /\ UNCHANGED <<attached, held, result, finished>>
    BY <1>3, Zenon DEF WorkSamples
  <2>4. CASE Finishes
    BY <2>1, <2>2, <2>4, FinishKeeps
  <2>5. CASE upc' = "act" /\ mutex' = "usb" /\ UNCHANGED <<attached, held, result, finished>>
    BY <2>1, <2>2, <2>5 DEF Session, LocksMatch, TriesLeft, ClockKept, StopIsFinal, SwitchNeedsQuiet, AttachedIsWatched, StoppedIsDetached, Acting
  <2> QED
    BY <2>3, <2>4, <2>5
<1>4. CASE Register
  <2>1. PICK cf \in Fails("clock"), failed \in Fails("register") :
          LET refused == Refused(cf) IN
          /\ Restore(cf)
          /\ IF refused \/ failed
             THEN /\ child' \in {FALSE, ~refused} /\ Finishes /\ UNCHANGED uq
             ELSE /\ child' = TRUE /\ attached' = TRUE /\ held' = TRUE
                  /\ WorkEnds /\ UNCHANGED <<result, finished>>
    BY <1>4, Zenon DEF Register
  <2>2. upc = "act" /\ seen = "present" /\ mutex = "usb"
    BY <1>4 DEF Register, Acting, Wanted, Session, LocksMatch
  <2>3. UNCHANGED <<chpc, phase, refusals>>
    BY <1>4 DEF Register, charger
  <2>4. CASE Refused(cf) \/ failed
    <3>1. Finishes
      BY <2>1, <2>4, Zenon
    <3> QED
      BY <2>2, <2>3, <3>1, FinishKeeps
  <2>5. CASE ~(Refused(cf) \/ failed)
    <3>1. child' /\ attached' /\ held' /\ WorkEnds /\ UNCHANGED <<result, finished>>
      BY <2>1, <2>5, Zenon
    <3>2. clock' /\ ~clockBad'
      BY <2>1, <2>5, RestoreGives, Zenon
    <3>3. uq'
      <4>1. uq' = (uq \/ seen # "absent")
        BY <3>1, Zenon DEF WorkEnds
      <4>2. seen # "absent"
        BY <2>2
      <4> QED
        BY <4>1, <4>2, Zenon
    <3>4. refusals' < ReconnectAttempts
      BY <2>2, <2>3 DEF Session, LocksMatch, TriesLeft
    <3>5. ClockKept'
      BY <3>1, <3>2, Zenon DEF ClockKept
    <3> QED
      BY <2>2, <2>3, <3>1, <3>3, <3>4, <3>5, EndKeeps
  <2> QED
    BY <2>4, <2>5
<1>5. CASE Detach
  <2>1. upc = "act" /\ WorkEnds /\ ~attached' /\ ~held' /\ UNCHANGED <<chpc, phase, finished, refusals>>
    BY <1>5, Zenon DEF Detach, Acting, env, charger
  <2>2. refusals' < ReconnectAttempts
    BY <2>1 DEF Session, LocksMatch, TriesLeft
  <2>3. ClockKept'
    BY <2>1, Zenon DEF ClockKept
  <2> QED
    BY <2>1, <2>2, <2>3, EndKeeps
<1>6. CASE Reconnect
  <2> DEFINE refused(cf) == clockBad \/ (~held /\ Refused(cf))
  <2>1. PICK cf \in Fails("clock"), refuse \in Fails("refuse"), broken \in Fails("session") :
          /\ IF held THEN UNCHANGED <<clock, clockBad>> ELSE Restore(cf)
          /\ IF (~refused(cf) /\ broken) \/ refusals' >= ReconnectAttempts
             THEN Finishes /\ UNCHANGED uq
             ELSE /\ attached' = (~refused(cf) /\ ~refuse) /\ held' = (held \/ ~refused(cf))
                  /\ WorkEnds /\ UNCHANGED <<result, finished>>
    BY <1>6, Zenon DEF Reconnect
  <2> HIDE DEF refused
  <2>2. upc = "act" /\ seen = "present" /\ child /\ mutex = "usb"
    BY <1>6 DEF Reconnect, Acting, Wanted, Session, LocksMatch
  <2>3. UNCHANGED <<chpc, phase, child>>
    BY <1>6 DEF Reconnect, charger
  <2>4. CASE (~refused(cf) /\ broken) \/ refusals' >= ReconnectAttempts
    <3>1. Finishes
      BY <2>1, <2>4, Zenon
    <3> QED
      BY <2>2, <2>3, <3>1, FinishKeeps
  <2>5. CASE ~((~refused(cf) /\ broken) \/ refusals' >= ReconnectAttempts)
    <3>1. /\ attached' = (~refused(cf) /\ ~refuse) /\ held' = (held \/ ~refused(cf))
          /\ WorkEnds /\ UNCHANGED <<result, finished>>
      BY <2>1, <2>5, Zenon
    <3>2. refusals' < ReconnectAttempts
      <4>1. UsbTypes'
        BY TypeStep, UsbTyped DEF TypeOK, Session
      <4> QED
        BY <2>5, <4>1, BoundsAssumption DEF UsbTypes
    <3>3. uq'
      <4>1. uq' = (uq \/ seen # "absent")
        BY <3>1, Zenon DEF WorkEnds
      <4>2. seen # "absent"
        BY <2>2
      <4> QED
        BY <4>1, <4>2, Zenon
    <3>4. CASE held
      <4>1. clock' /\ (clockBad' <=> clockBad)
        BY <2>1, <3>4, Zenon DEF Session, ClockKept
      <4>2. attached' => ~clockBad
        BY <3>1, Zenon DEF refused
      <4>3. ClockKept'
        BY <2>2, <2>3, <3>1, <3>4, <4>1, <4>2, Zenon DEF ClockKept
      <4> QED
        BY <2>2, <2>3, <3>1, <3>2, <3>3, <4>3, EndKeeps
    <3>5. CASE ~held
      <4>1. ~refused(cf) => clock' /\ ~clockBad'
        BY <2>1, <3>5, RestoreGives, Zenon DEF refused
      <4>2. ClockKept'
        BY <2>2, <2>3, <3>1, <3>5, <4>1, Zenon DEF ClockKept
      <4> QED
        BY <2>2, <2>3, <3>1, <3>2, <3>3, <4>2, EndKeeps
    <3> QED
      BY <3>4, <3>5
  <2> QED
    BY <2>4, <2>5
<1>7. CASE Settle
  <2>1. PICK failed \in Fails("clock") :
          /\ IF child THEN UNCHANGED <<clock, clockBad>> ELSE Gate(failed)
          /\ IF ~child /\ clock /\ failed
             THEN Finishes /\ UNCHANGED uq
             ELSE WorkEnds /\ UNCHANGED <<result, finished, attached, held>>
    BY <1>7, Zenon DEF Settle
  <2>2. upc = "act" /\ mutex = "usb"
    BY <1>7 DEF Settle, Acting, Session, LocksMatch
  <2>3. UNCHANGED <<chpc, phase, child, refusals>>
    BY <1>7 DEF Settle, charger
  <2>4. CASE ~child /\ clock /\ failed
    <3>1. Finishes
      BY <2>1, <2>4, Zenon
    <3> QED
      BY <2>2, <2>3, <3>1, FinishKeeps
  <2>5. CASE ~(~child /\ clock /\ failed)
    <3>1. WorkEnds /\ UNCHANGED <<result, finished, attached, held>>
      BY <2>1, <2>5, Zenon
    <3>2. refusals' < ReconnectAttempts
      BY <2>2, <2>3 DEF Session, LocksMatch, TriesLeft
    <3>3. attached => seen # "absent"
      BY <1>7, Zenon DEF Settle, Wanted
    <3>4. attached' => uq'
      BY <3>1, <3>3, Zenon DEF WorkEnds
    <3>5. ClockKept'
      <4>1. child => UNCHANGED <<clock, clockBad>>
        BY <2>1, Zenon
      <4> QED
        BY <2>3, <3>1, <4>1 DEF Session, ClockKept
    <3> QED
      BY <2>2, <2>3, <3>1, <3>2, <3>4, <3>5, EndKeeps
  <2> QED
    BY <2>4, <2>5
<1> QED
  BY <1>1, <1>2, <1>3, <1>4, <1>5, <1>6, <1>7 DEF UsbStep

\* The owner may end a session; sleep holds the worker back and queues it again.
LEMMA OutsideSession ==
  ASSUME Session, OutsideStep PROVE Session'
<1>1. CASE RoleSet
  <2>1. /\ UNCHANGED <<phase, upc, child, finished, refusals, mutex, clock, clockBad, chpc>>
        /\ mutex = "free"
    BY <1>1 DEF RoleSet, charger, shared
  <2>2. (attached' => attached) /\ (held' => held) /\ (attached' => (held' <=> held)) /\ (result' <=> result)
    BY <1>1, Zenon DEF RoleSet
  <2>3. uq => uq'
    BY <1>1, Zenon DEF RoleSet, Kicked
  <2> QED
    BY <2>1, <2>2, <2>3, Zenon DEF Session, LocksMatch, TriesLeft, ClockKept, StopIsFinal, SwitchNeedsQuiet, AttachedIsWatched, StoppedIsDetached, Acting, Sleeping
<1>2. CASE Inhibit \/ ControllerFails
  <2>1. UNCHANGED <<mutex, chpc, upc, finished, refusals, attached, child, phase, held, clock, clockBad, uq>>
    BY <1>2 DEF Inhibit, ControllerFails, env, charger, usb, shared
  <2>2. result => result'
    BY <1>2 DEF Inhibit, ControllerFails, usb
  <2> QED
    BY <2>1, <2>2, SessionLeft, Zenon
<1>3. CASE RuntimeSuspend
  <2>1. /\ UNCHANGED <<mutex, chpc, upc, finished, refusals, attached, child, phase, held, uq, result>>
        /\ ~held /\ ~attached /\ mutex # "charger"
    BY <1>3, Zenon DEF RuntimeSuspend, env, charger, usb, shared
  <2> QED
    BY <2>1 DEF Session, LocksMatch, TriesLeft, ClockKept, StopIsFinal, SwitchNeedsQuiet, AttachedIsWatched, StoppedIsDetached
<1>4. CASE Freeze
  <2>1. /\ UNCHANGED <<mutex, chpc, upc, finished, refusals, attached, child, held, clock, clockBad, uq, result>>
        /\ phase = "awake" /\ upc # "act"
    BY <1>4 DEF Freeze, env, charger, usb, shared
  <2>2. ~Sleeping
    BY <2>1 DEF Sleeping
  <2> QED
    BY <2>1, <2>2, SessionLeft, Zenon
<1>5. CASE PrepareUsb
  <2>1. /\ UNCHANGED <<mutex, chpc, upc, finished, refusals, attached, child, held, result>>
        /\ mutex = "free"
    BY <1>5 DEF PrepareUsb, charger
  <2>2. child => UNCHANGED <<clock, clockBad>>
    BY <1>5, Zenon DEF PrepareUsb
  <2>3. phase' = "prepared" \/ (phase' = "awake" /\ uq' = (~finished))
    BY <1>5, Zenon DEF PrepareUsb
  <2>4. Sleeping' \/ (finished \/ uq')
    BY <2>3 DEF Sleeping
  <2>5. LocksMatch' /\ TriesLeft' /\ StopIsFinal' /\ SwitchNeedsQuiet' /\ StoppedIsDetached'
    BY <2>1 DEF Session, LocksMatch, TriesLeft, ClockKept, StopIsFinal, SwitchNeedsQuiet, AttachedIsWatched, StoppedIsDetached
  <2>6. ClockKept'
    BY <2>1, <2>2 DEF Session, ClockKept
  <2>7. AttachedIsWatched'
    BY <2>1, <2>4, Zenon DEF Session, AttachedIsWatched, StoppedIsDetached
  <2> QED
    BY <2>5, <2>6, <2>7 DEF Session
<1>6. CASE PowerStep /\ ~PrepareUsb
  <2>1. /\ UNCHANGED <<mutex, chpc, upc, finished, refusals, attached, child, held, clock, clockBad, result>>
        /\ phase # "awake"
    BY <1>6 DEF PowerStep, PrepareCharger, SleepRefused, CompleteCharger, CompleteUsb, env, charger, usb, shared
  <2>2. Sleeping' \/ uq' = (uq \/ ~finished)
    BY <1>6, Zenon DEF PowerStep, PrepareCharger, SleepRefused, CompleteCharger, CompleteUsb, Sleeping
  <2>3. LocksMatch' /\ TriesLeft' /\ ClockKept' /\ StopIsFinal' /\ SwitchNeedsQuiet' /\ StoppedIsDetached'
    BY <2>1 DEF Session, LocksMatch, TriesLeft, ClockKept, StopIsFinal, SwitchNeedsQuiet, AttachedIsWatched, StoppedIsDetached
  <2>4. AttachedIsWatched'
    BY <2>1, <2>2, Zenon DEF Session, AttachedIsWatched, StoppedIsDetached
  <2> QED
    BY <2>3, <2>4 DEF Session
<1> QED
  BY <1>1, <1>2, <1>3, <1>4, <1>5, <1>6 DEF OutsideStep

\* The charger takes the mutex only without a session and turns the clock on for its switch.
LEMMA ChargerSession ==
  ASSUME TypeOK, Session, ChargerStep \/ CableChanges \/ ChargerIrq \/ PresenceChanged PROVE Session'
<1>1. /\ UNCHANGED <<phase, upc, child, attached, held, result, finished, refusals>>
      /\ uq => uq'
  <2>1. CASE PresenceChanged
    BY <2>1, Zenon DEF PresenceChanged, Kicked, env, charger, usb, shared
  <2>2. CASE ~PresenceChanged
    <3>1. UNCHANGED usb
      BY <2>2, Zenon DEF ChargerStep, CableChanges, ChargerIrq, PollPaused, PollOffline, PollOnline, BeginRefused,
         Begin, Classify, End
    <3>2. UNCHANGED phase
      BY <2>2 DEF ChargerStep, CableChanges, ChargerIrq, PollPaused, PollOffline, PollOnline, BeginRefused,
         Begin, Classify, End, env
    <3> QED
      BY <3>1, <3>2 DEF usb
  <2> QED
    BY <2>1, <2>2
<1>2. CASE Begin
  <2>1. PICK cf \in Fails("clock"), sf \in Fails("switch") :
          /\ Restore(cf)
          /\ IF Refused(cf) \/ sf
             THEN UNCHANGED mutex /\ PollEnds(online, source, was)
             ELSE mutex' = "charger" /\ chpc' = "classify"
    BY <1>2, Zenon DEF Begin
  <2>2. mutex = "free" /\ ~attached
    BY <1>2, Zenon DEF Begin, MayDetect
  <2>3. clock => clock'
    BY <2>1, RestoreGives, Zenon
  <2>4. CASE Refused(cf) \/ sf
    <3>1. mutex' = "free" /\ chpc' = "idle"
      BY <2>1, <2>2, <2>4, Zenon DEF PollEnds
    <3> QED
      BY <1>1, <2>2, <2>3, <3>1 DEF Session, LocksMatch, TriesLeft, ClockKept, StopIsFinal, SwitchNeedsQuiet, AttachedIsWatched, StoppedIsDetached
  <2>5. CASE ~(Refused(cf) \/ sf)
    <3>1. mutex' = "charger" /\ chpc' = "classify" /\ clock'
      BY <2>1, <2>5, RestoreGives, Zenon
    <3> QED
      BY <1>1, <2>2, <3>1 DEF Session, LocksMatch, TriesLeft, ClockKept, StopIsFinal, SwitchNeedsQuiet, AttachedIsWatched, StoppedIsDetached
  <2> QED
    BY <2>4, <2>5
<1>3. CASE End
  <2>1. mutex' = "free" /\ chpc = "end" /\ UNCHANGED <<clock, clockBad>>
    BY <1>3 DEF End
  <2>2. chpc' = "idle"
    BY <1>3, Zenon DEF End, PollEnds
  <2>3. mutex = "charger"
    BY <2>1 DEF Session, LocksMatch
  <2>4. ~attached
    BY <2>3 DEF Session, SwitchNeedsQuiet
  <2> QED
    BY <1>1, <2>1, <2>2, <2>3, <2>4 DEF Session, LocksMatch, TriesLeft, ClockKept, StopIsFinal, SwitchNeedsQuiet, AttachedIsWatched, StoppedIsDetached
<1>4. CASE ChargerStep /\ ~Begin /\ ~End
  <2>1. UNCHANGED <<mutex, clock, clockBad>>
    BY <1>4, Zenon DEF ChargerStep, PollPaused, PollOffline, PollOnline, BeginRefused, Classify, shared
  <2>2. (chpc \in {"classify", "end"}) <=> (chpc' \in {"classify", "end"})
    BY <1>4 DEF ChargerStep, PollPaused, PollOffline, PollOnline, BeginRefused, Classify, PollEnds
  <2>3. AttachedIsWatched'
    BY <1>1, Zenon DEF Session, AttachedIsWatched, Acting, Sleeping
  <2> QED
    BY <1>1, <2>1, <2>2, <2>3 DEF Session, LocksMatch, TriesLeft, ClockKept, StopIsFinal, SwitchNeedsQuiet,
       StoppedIsDetached
<1>5. CASE CableChanges \/ ChargerIrq \/ PresenceChanged
  <2>1. UNCHANGED <<mutex, chpc, clock, clockBad>>
    BY <1>5, Zenon DEF CableChanges, ChargerIrq, PresenceChanged, env, charger, usb, shared
  <2> QED
    BY <1>1, <2>1, SessionLeft, Zenon
<1> QED
  BY <1>2, <1>3, <1>4, <1>5

\* Every step keeps what the two drivers leave each other.
LEMMA SessionStep ==
  ASSUME TypeOK, Session, [Next]_vars PROVE Session'
<1>1. CASE UNCHANGED vars
  BY <1>1, SessionLeft, Zenon DEF vars, env, charger, usb, shared
<1> QED
  BY <1>1, Actors, ChargerSession, UsbSessionStep, OutsideSession

-----------------------------------------------------------------------------
\* The state both drivers are probed into.
LEMMA Start == Init => TypeOK /\ Verdict /\ Session
<1> SUFFICES ASSUME Init PROVE TypeOK /\ Verdict /\ Session
  OBVIOUS
<1>1. EnvTypes
  <2>1. edge \in BOOLEAN /\ inhibit \in BOOLEAN
    BY Zenon DEF Init
  <2>2. /\ cable \in Cables /\ phase = "awake"
        /\ events \in 0..MaxEvents /\ faults \in 0..MaxFaults
    BY BoundsAssumption DEF Init
  <2> QED
    BY <2>1, <2>2 DEF EnvTypes
<1>2. ChargerTypes
  <2>1. /\ chq \in BOOLEAN /\ online \in BOOLEAN /\ valid \in BOOLEAN /\ changed \in BOOLEAN
        /\ srcFault \in BOOLEAN /\ notify \in BOOLEAN
    BY Zenon DEF Init
  <2>2. was \in BOOLEAN \X Sources /\ source \in Sources
    BY DEF Init, Sources
  <2>3. chpc = "idle" /\ found = "ok" /\ tries \in 0..SourceRetries
    BY BoundsAssumption DEF Init
  <2> QED
    BY <2>1, <2>2, <2>3 DEF ChargerTypes
<1>3. UsbTypes
  <2>1. /\ uq \in BOOLEAN /\ child \in BOOLEAN /\ attached \in BOOLEAN /\ held \in BOOLEAN
        /\ result \in BOOLEAN /\ finished \in BOOLEAN
    BY Zenon DEF Init
  <2>2. /\ upc = "idle" /\ seen = "unread" /\ role = "device"
        /\ reads \in 0..MonitorTolerance - 1 /\ refusals \in 0..ReconnectAttempts
    BY BoundsAssumption DEF Init
  <2> QED
    BY <2>1, <2>2 DEF UsbTypes
<1>4. SharedTypes
  BY Zenon DEF Init, SharedTypes
<1>5. Verdict
  BY DEF Init, Verdict, PollReturns, NoVerdictYet, FoundIsFresh, ProofIsFresh
<1>6. Session
  BY BoundsAssumption DEF Init, Session, LocksMatch, TriesLeft, ClockKept, StopIsFinal, SwitchNeedsQuiet, AttachedIsWatched, StoppedIsDetached
<1> QED
  BY <1>1, <1>2, <1>3, <1>4, <1>5, <1>6 DEF TypeOK

\* The inductive invariant, in the three parts that were kept separately.
LEMMA Inductive == Spec => [](TypeOK /\ Verdict /\ Session)
<1>1. TypeOK /\ Verdict /\ Session /\ [Next]_vars => (TypeOK /\ Verdict /\ Session)'
  BY TypeStep, VerdictStep, SessionStep DEF Session
<1> QED
  BY Start, <1>1, PTL DEF Spec

\* The variables of both drivers keep their types; the tolerance of failed
\* samples and the attempts to reconnect are never passed.
THEOREM TypeCorrect == Spec => []TypeOK
  BY Inductive, PTL

\* No session beside the BC1.1 switch, and the switch has its clock.
THEOREM QuietWhileSwitched == Spec => []SwitchNeedsQuiet
<1>1. Session => SwitchNeedsQuiet
  BY DEF Session
<1> QED
  BY <1>1, Inductive, PTL

\* A verdict a cable change made false is on its way to be taken back.
THEOREM VerdictFresh == Spec => []ProofIsFresh
<1>1. Verdict => ProofIsFresh
  BY DEF Verdict
<1> QED
  BY <1>1, Inductive, PTL

\* A live session always has a worker that comes again.
THEOREM SessionWatched == Spec => []AttachedIsWatched
<1>1. Session => AttachedIsWatched
  BY DEF Session
<1> QED
  BY <1>1, Inductive, PTL

\* A stopped USB is detached, also when its clock failed.
THEOREM StopDetaches == Spec => []StoppedIsDetached
<1>1. Session => StoppedIsDetached
  BY DEF Session
<1> QED
  BY <1>1, Inductive, PTL

-----------------------------------------------------------------------------
(* The data lines: every step of the two drivers is one of DataLines, or none *)
(* of its business.                                                           *)

\* A worker that meets a terminal fault in the middle of its work has a session.
FaultSeen == upc = "act" /\ result => attached

LEMMA FaultStep ==
  ASSUME Session, FaultSeen, [Next]_vars PROVE FaultSeen'
<1>1. CASE UsbStep
  <2>1. CASE WorkSamples
    <3>1. ~result /\ (Finishes \/ UNCHANGED result)
      BY <2>1, Zenon DEF WorkSamples
    <3>2. Finishes => upc' = "idle"
      BY Zenon DEF Finishes
    <3> QED
      BY <3>1, <3>2 DEF FaultSeen
  <2>2. CASE WorkAfterFinish
    BY <2>2 DEF WorkAfterFinish, WorkRuns, FaultSeen
  <2>3. CASE WorkFinishes \/ Register \/ Detach \/ Reconnect \/ Settle
    <3>1. Finishes \/ WorkEnds
      BY <2>3, Zenon DEF WorkFinishes, Register, Detach, Reconnect, Settle
    <3>2. upc' = "idle"
      BY <3>1, Zenon DEF Finishes, WorkEnds
    <3> QED
      BY <3>2 DEF FaultSeen
  <2> QED
    BY <1>1, <2>1, <2>2, <2>3 DEF UsbStep
<1>2. CASE RoleSet
  BY <1>2 DEF RoleSet, Session, LocksMatch, FaultSeen
<1>3. CASE ControllerFails
  BY <1>3 DEF ControllerFails, FaultSeen
<1>4. CASE Inhibit \/ RuntimeSuspend \/ Freeze \/ PowerStep
  <2>1. UNCHANGED <<upc, result, attached>>
    BY <1>4 DEF Inhibit, RuntimeSuspend, Freeze, PowerStep, PrepareUsb, PrepareCharger, SleepRefused,
       CompleteCharger, CompleteUsb, usb
  <2> QED
    BY <2>1 DEF FaultSeen
<1>5. CASE ChargerStep \/ CableChanges \/ ChargerIrq \/ PresenceChanged \/ UNCHANGED vars
  <2>1. UNCHANGED <<upc, result, attached>>
    BY <1>5 DEF ChargerStep, CableChanges, ChargerIrq, PresenceChanged, PollPaused, PollOffline, PollOnline,
       BeginRefused, Begin, Classify, End, usb, vars
  <2> QED
    BY <2>1 DEF FaultSeen
<1> QED
  BY <1>1, <1>2, <1>3, <1>4, <1>5, Actors DEF OutsideStep

\* A step that leaves the users of the lines and their clock alone.
LEMMA LinesLeft ==
  ASSUME UNCHANGED <<mutex, attached, clock, result>>, dataOk' = dataOk \/ ~dataOk'
  PROVE [Lines!Next]_Lines!vars
<1>1. CASE dataOk' = dataOk
  BY <1>1 DEF Lines!vars
<1>2. CASE ~dataOk'
  <2>1. Lines!Retract
    BY <1>2 DEF Lines!Retract
  <2> QED
    BY <2>1 DEF Lines!Next
<1> QED
  BY <1>1, <1>2

\* The clock is switched while nobody has the lines.
LEMMA LinesSwitch ==
  ASSUME TypeOK', mutex # "charger", mutex' # "charger", ~attached,
         UNCHANGED <<attached, dataOk, result>>
  PROVE [Lines!Next]_Lines!vars
<1>1. clock' \in BOOLEAN
  BY DEF TypeOK, SharedTypes
<1>2. (mutex' = "charger") = (mutex = "charger")
  OBVIOUS
<1>3. Lines!Switch
  BY <1>1, <1>2 DEF Lines!Switch, Lines!Nobody
<1> QED
  BY <1>3 DEF Lines!Next

\* The end that stops USB.
LEMMA LinesEnd ==
  ASSUME TypeOK', Session, Finishes, mutex # "charger", UNCHANGED dataOk, attached => UNCHANGED clock
  PROVE [Lines!Next]_Lines!vars
<1>1. result' /\ mutex' = "free" /\ attached' = FALSE
  BY Zenon DEF Finishes, Session, ClockKept
<1>2. (mutex' = "charger") = (mutex = "charger")
  BY <1>1
<1>3. clock' \in BOOLEAN
  BY DEF TypeOK, SharedTypes
<1>4. Lines!End
  BY <1>1, <1>2, <1>3 DEF Lines!End
<1> QED
  BY <1>4 DEF Lines!Next

\* A session is opened.
LEMMA LinesOpen ==
  ASSUME mutex # "charger", mutex' # "charger", ~attached, attached', ~result, dataOk, clock',
         UNCHANGED <<dataOk, result>>
  PROVE [Lines!Next]_Lines!vars
<1>1. (mutex' = "charger") = (mutex = "charger")
  OBVIOUS
<1>2. Lines!Open
  BY <1>1 DEF Lines!Open, Lines!Nobody
<1> QED
  BY <1>2 DEF Lines!Next

\* Without a controller, or without the lines, the worker meets no fault.
LEMMA NoFaultYet ==
  ASSUME FaultSeen, upc = "act", ~attached PROVE ~result
  BY DEF FaultSeen

LEMMA UsbLines ==
  ASSUME TypeOK, TypeOK', Session, FaultSeen, UsbStep PROVE [Lines!Next]_Lines!vars
<1>1. CASE WorkAfterFinish
  BY <1>1, LinesLeft DEF WorkAfterFinish, shared
<1>2. CASE WorkFinishes
  <2>1. Finishes /\ mutex # "charger" /\ UNCHANGED <<dataOk, clock>>
    BY <1>2, Zenon DEF WorkFinishes, WorkRuns
  <2> QED
    BY <2>1, LinesEnd
<1>3. CASE WorkSamples
  <2>1. mutex = "free" /\ UNCHANGED clock
    BY <1>3 DEF WorkSamples, WorkRuns
  <2>2. \/ Finishes /\ UNCHANGED dataOk
        \/ /\ mutex' = "usb" /\ dataOk' = (dataOk /\ seen' # "absent")
           /\ UNCHANGED <<attached, result>>
    BY <1>3, Zenon DEF WorkSamples
  <2>3. CASE Finishes /\ UNCHANGED dataOk
    BY <2>1, <2>3, LinesEnd
  <2>4. CASE /\ mutex' = "usb" /\ dataOk' = (dataOk /\ seen' # "absent")
             /\ UNCHANGED <<attached, result>>
    <3>1. (mutex' = "charger") = (mutex = "charger")
      BY <2>1, <2>4
    <3>2. CASE seen' = "absent"
      <4>1. ~dataOk'
        BY <2>4, <3>2
      <4>2. Lines!Retract
        BY <2>1, <2>4, <3>1, <4>1 DEF Lines!Retract
      <4> QED
        BY <4>2 DEF Lines!Next
    <3>3. CASE seen' # "absent"
      <4>1. dataOk' = dataOk
        <5>1. dataOk \in BOOLEAN
          BY DEF TypeOK, SharedTypes
        <5> QED
          BY <2>4, <3>3, <5>1
      <4> QED
        BY <2>1, <2>4, <3>1, <4>1 DEF Lines!vars
    <3> QED
      BY <3>2, <3>3
  <2> QED
    BY <2>2, <2>3, <2>4
<1>4. CASE Register
  <2>1. PICK cf \in Fails("clock"), failed \in Fails("register") :
          LET refused == Refused(cf) IN
          /\ Restore(cf)
          /\ IF refused \/ failed
             THEN /\ child' \in {FALSE, ~refused} /\ Finishes /\ UNCHANGED uq
             ELSE /\ child' = TRUE /\ attached' = TRUE /\ held' = TRUE
                  /\ WorkEnds /\ UNCHANGED <<result, finished>>
    BY <1>4, Zenon DEF Register
  <2>2. upc = "act" /\ mutex = "usb" /\ dataOk /\ ~child /\ UNCHANGED dataOk
    BY <1>4 DEF Register, Acting, Wanted, Session, LocksMatch
  <2>3. ~attached
    BY <2>2 DEF Session, ClockKept
  <2>4. CASE Refused(cf) \/ failed
    <3>1. Finishes
      BY <2>1, <2>4, Zenon
    <3> QED
      BY <2>2, <2>3, <3>1, LinesEnd
  <2>5. CASE ~(Refused(cf) \/ failed)
    <3>1. attached' /\ WorkEnds /\ UNCHANGED result
      BY <2>1, <2>5, Zenon
    <3>2. clock'
      BY <2>1, <2>5, RestoreGives, Zenon
    <3>3. mutex' = "free"
      BY <3>1, Zenon DEF WorkEnds
    <3> QED
      BY <2>2, <2>3, <3>1, <3>2, <3>3, NoFaultYet, LinesOpen
  <2> QED
    BY <2>4, <2>5
<1>5. CASE Detach
  <2>1. upc = "act" /\ WorkEnds /\ attached /\ ~attached' /\ UNCHANGED <<dataOk, clock, result>>
    BY <1>5, Zenon DEF Detach, Acting
  <2>2. mutex = "usb" /\ mutex' = "free"
    BY <2>1, Zenon DEF WorkEnds, Session, LocksMatch
  <2>3. (mutex' = "charger") = (mutex = "charger")
    BY <2>2
  <2>4. Lines!Close
    BY <2>1, <2>3 DEF Lines!Close
  <2> QED
    BY <2>4 DEF Lines!Next
<1>6. CASE Reconnect
  <2> DEFINE refused(cf) == clockBad \/ (~held /\ Refused(cf))
  <2>1. PICK cf \in Fails("clock"), refuse \in Fails("refuse"), broken \in Fails("session") :
          /\ IF held THEN UNCHANGED <<clock, clockBad>> ELSE Restore(cf)
          /\ IF (~refused(cf) /\ broken) \/ refusals' >= ReconnectAttempts
             THEN Finishes /\ UNCHANGED uq
             ELSE /\ attached' = (~refused(cf) /\ ~refuse) /\ held' = (held \/ ~refused(cf))
                  /\ WorkEnds /\ UNCHANGED <<result, finished>>
    BY <1>6, Zenon DEF Reconnect
  <2> HIDE DEF refused
  <2>2. upc = "act" /\ mutex = "usb" /\ dataOk /\ ~attached /\ UNCHANGED dataOk
    BY <1>6 DEF Reconnect, Acting, Wanted, Session, LocksMatch
  <2>3. CASE (~refused(cf) /\ broken) \/ refusals' >= ReconnectAttempts
    <3>1. Finishes
      BY <2>1, <2>3, Zenon
    <3> QED
      BY <2>2, <3>1, LinesEnd
  <2>4. CASE ~((~refused(cf) /\ broken) \/ refusals' >= ReconnectAttempts)
    <3>1. attached' = (~refused(cf) /\ ~refuse) /\ WorkEnds /\ UNCHANGED result
      BY <2>1, <2>4, Zenon
    <3>2. mutex' = "free"
      BY <3>1, Zenon DEF WorkEnds
    <3>3. CASE attached'
      <4>1. ~refused(cf)
        BY <3>1, <3>3, Zenon
      <4>2. CASE held
        <5>1. clock /\ UNCHANGED clock
          BY <2>1, <4>2, Zenon DEF Session, ClockKept
        <5> QED
          BY <2>2, <3>1, <3>2, <3>3, <5>1, NoFaultYet, LinesOpen
      <4>3. CASE ~held
        <5>1. clock'
          BY <2>1, <4>1, <4>3, RestoreGives, Zenon DEF refused
        <5> QED
          BY <2>2, <3>1, <3>2, <3>3, <5>1, NoFaultYet, LinesOpen
      <4> QED
        BY <4>2, <4>3
    <3>4. CASE ~attached'
      <4>1. attached' = attached
        BY <2>2, <3>4 DEF TypeOK, UsbTypes
      <4> QED
        BY <2>2, <3>1, <3>2, <4>1, LinesSwitch
    <3> QED
      BY <3>3, <3>4
  <2> QED
    BY <2>3, <2>4
<1>7. CASE Settle
  <2>1. PICK failed \in Fails("clock") :
          /\ IF child THEN UNCHANGED <<clock, clockBad>> ELSE Gate(failed)
          /\ IF ~child /\ clock /\ failed
             THEN Finishes /\ UNCHANGED uq
             ELSE WorkEnds /\ UNCHANGED <<result, finished, attached, held>>
    BY <1>7, Zenon DEF Settle
  <2>2. upc = "act" /\ mutex = "usb" /\ UNCHANGED dataOk
    BY <1>7 DEF Settle, Acting, Session, LocksMatch
  <2>3. attached => UNCHANGED clock
    <3>1. attached => child
      BY DEF Session, ClockKept
    <3> QED
      BY <2>1, <3>1, Zenon
  <2>4. CASE ~child /\ clock /\ failed
    <3>1. Finishes
      BY <2>1, <2>4, Zenon
    <3> QED
      BY <2>2, <2>3, <3>1, LinesEnd
  <2>5. CASE ~(~child /\ clock /\ failed)
    <3>1. WorkEnds /\ UNCHANGED <<result, attached>>
      BY <2>1, <2>5, Zenon
    <3>2. mutex' = "free"
      BY <3>1, Zenon DEF WorkEnds
    <3>3. (mutex' = "charger") = (mutex = "charger")
      BY <2>2, <3>2
    <3>4. CASE attached
      BY <2>2, <2>3, <3>1, <3>3, <3>4 DEF Lines!vars
    <3>5. CASE ~attached
      BY <2>2, <3>1, <3>2, <3>5, LinesSwitch
    <3> QED
      BY <3>4, <3>5
  <2> QED
    BY <2>4, <2>5
<1> QED
  BY <1>1, <1>2, <1>3, <1>4, <1>5, <1>6, <1>7 DEF UsbStep

\* The charger has the lines from Begin to End, and nothing of theirs but the verdict besides.
LEMMA ChargerLines ==
  ASSUME TypeOK, TypeOK', Verdict, Session,
         ChargerStep \/ CableChanges \/ ChargerIrq \/ PresenceChanged
  PROVE [Lines!Next]_Lines!vars
<1>1. CASE Begin
  <2>1. PICK cf \in Fails("clock"), sf \in Fails("switch") :
          /\ Restore(cf)
          /\ IF Refused(cf) \/ sf THEN UNCHANGED mutex ELSE mutex' = "charger"
    BY <1>1, Zenon DEF Begin
  <2>2. mutex = "free" /\ ~attached /\ ~result /\ chpc = "begin"
    BY <1>1, Zenon DEF Begin, MayDetect
  <2>3. UNCHANGED <<attached, dataOk, result>>
    BY <1>1 DEF Begin, usb
  <2>4. CASE Refused(cf) \/ sf
    <3>1. mutex' = "free"
      BY <2>1, <2>2, <2>4, Zenon
    <3> QED
      BY <2>2, <2>3, <3>1, LinesSwitch
  <2>5. CASE ~(Refused(cf) \/ sf)
    <3>1. mutex' = "charger" /\ clock'
      BY <2>1, <2>5, RestoreGives, Zenon
    <3>2. ~dataOk
      BY <2>2 DEF Verdict, NoVerdictYet
    <3>3. Lines!Detect
      BY <2>2, <2>3, <3>1, <3>2 DEF Lines!Detect, Lines!Nobody
    <3> QED
      BY <3>3 DEF Lines!Next
  <2> QED
    BY <2>4, <2>5
<1>2. CASE End
  <2>1. mutex' = "free" /\ chpc = "end" /\ UNCHANGED <<attached, clock, result>>
    BY <1>2 DEF End, usb
  <2>2. mutex = "charger"
    BY <2>1 DEF Session, LocksMatch
  <2>3. dataOk' \in BOOLEAN
    BY DEF TypeOK, SharedTypes
  <2>4. Lines!Decide
    BY <2>1, <2>2, <2>3 DEF Lines!Decide
  <2> QED
    BY <2>4 DEF Lines!Next
<1>3. CASE ChargerIrq \/ PollOffline
  <2>1. UNCHANGED <<mutex, attached, clock, result>> /\ ~dataOk'
    BY <1>3 DEF ChargerIrq, PollOffline, usb
  <2> QED
    BY <2>1, LinesLeft
<1>4. CASE PollOnline
  <2>1. UNCHANGED <<mutex, attached, clock, result>>
    BY <1>4 DEF PollOnline, usb
  <2>2. UNCHANGED dataOk \/ dataOk' = FALSE
    BY <1>4, Zenon DEF PollOnline
  <2> QED
    BY <2>1, <2>2, LinesLeft
<1>5. CASE CableChanges \/ PresenceChanged \/ PollPaused \/ BeginRefused \/ Classify
  <2>1. UNCHANGED <<mutex, attached, clock, result, dataOk>>
    BY <1>5 DEF CableChanges, PresenceChanged, PollPaused, BeginRefused, Classify, usb, shared
  <2> QED
    BY <2>1, LinesLeft
<1> QED
  BY <1>1, <1>2, <1>3, <1>4, <1>5 DEF ChargerStep

\* The owner closes a session, the controller fails in one, power management
\* switches the clock when nobody needs it.
LEMMA OutsideLines ==
  ASSUME TypeOK, TypeOK', Session, OutsideStep PROVE [Lines!Next]_Lines!vars
<1>1. CASE RoleSet
  <2>1. UNCHANGED <<mutex, clock, dataOk, result>>
    BY <1>1 DEF RoleSet, shared
  <2>2. attached' => attached
    BY <1>1, Zenon DEF RoleSet
  <2>3. CASE attached' = attached
    BY <2>1, <2>3, LinesLeft
  <2>4. CASE attached' # attached
    <3>1. attached /\ ~attached'
      BY <2>2, <2>4 DEF TypeOK, UsbTypes
    <3>2. Lines!Close
      BY <2>1, <3>1 DEF Lines!Close
    <3> QED
      BY <3>2 DEF Lines!Next
  <2> QED
    BY <2>3, <2>4
<1>2. CASE ControllerFails
  <2>1. attached /\ result' /\ UNCHANGED <<mutex, attached, clock, dataOk>>
    BY <1>2 DEF ControllerFails, shared
  <2>2. mutex # "charger"
    BY <2>1 DEF Session, SwitchNeedsQuiet
  <2>3. clock' \in BOOLEAN
    BY DEF TypeOK, SharedTypes
  <2>4. Lines!End
    BY <2>1, <2>2, <2>3 DEF Lines!End
  <2> QED
    BY <2>4 DEF Lines!Next
<1>3. CASE RuntimeSuspend
  <2>1. mutex # "charger" /\ ~attached /\ UNCHANGED <<mutex, attached, dataOk, result>>
    BY <1>3, Zenon DEF RuntimeSuspend, usb
  <2> QED
    BY <2>1, LinesSwitch
<1>4. CASE PrepareUsb
  <2>1. mutex = "free" /\ UNCHANGED <<mutex, attached, dataOk, result>>
    BY <1>4 DEF PrepareUsb
  <2>2. CASE attached
    <3>1. child
      BY <2>2 DEF Session, ClockKept
    <3>2. UNCHANGED clock
      BY <1>4, <3>1, Zenon DEF PrepareUsb
    <3> QED
      BY <2>1, <3>2, LinesLeft
  <2>3. CASE ~attached
    BY <2>1, <2>3, LinesSwitch
  <2> QED
    BY <2>2, <2>3
<1>5. CASE Inhibit \/ Freeze \/ PrepareCharger \/ SleepRefused \/ CompleteCharger \/ CompleteUsb
  <2>1. UNCHANGED <<mutex, attached, clock, result, dataOk>>
    BY <1>5 DEF Inhibit, Freeze, PrepareCharger, SleepRefused, CompleteCharger, CompleteUsb, usb, shared
  <2> QED
    BY <2>1, LinesLeft
<1> QED
  BY <1>1, <1>2, <1>3, <1>4, <1>5 DEF OutsideStep, PowerStep

\* Whatever fails, is plugged in or suspended between two of their steps: the
\* two drivers share the data lines as DataLines says.
THEOREM SharesLines == Spec => ImplementsLines
<1>1. Init => Lines!Init /\ FaultSeen
  BY DEF Init, Lines!Init, FaultSeen
<1>2. Session /\ FaultSeen /\ [Next]_vars => FaultSeen'
  BY FaultStep
<1>3. /\ TypeOK /\ Verdict /\ Session /\ FaultSeen /\ TypeOK' /\ [Next]_vars
      => [Lines!Next]_Lines!vars
  <2>1. ASSUME UNCHANGED vars PROVE [Lines!Next]_Lines!vars
    BY <2>1, LinesLeft DEF vars, usb, shared
  <2> QED
    BY <2>1, Actors, ChargerLines, UsbLines, OutsideLines
<1> QED
  BY <1>1, <1>2, <1>3, Inductive, PTL DEF Spec, ImplementsLines, Lines!Spec
=============================================================================
