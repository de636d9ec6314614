----------------------------- MODULE RadioProofs -----------------------------
(***************************************************************************)
(* What the Bluetooth controller keeps, for any number of headsets, tries, *)
(* budgets and failures: theorems of RadioController!Spec.                 *)
(*                                                                         *)
(* A headset that is held gets no episode because every trigger goes to    *)
(* Target, which is never a held one.  An honest answer to a sleep stays   *)
(* true because no power-on is on its way then (StaysOff), and a pass asks *)
(* for one only when Bluetooth is wanted and no sleep is under way.        *)
(***************************************************************************)
EXTENDS RadioRefinement, TLAPS

\* Where the thread is.
Stages == {"drain", "edges", "expire", "cancel", "reconcile"}

\* The bound on what happens is kept.
LEMMA EventTyped == ASSUME TypeOK, Event \/ Calm PROVE events' \in 0..MaxEvents
  BY RadioAssumption DEF TypeOK, Event, Calm

\* The small numbers a handler writes are in range.
LEMMA Bounds == 0 \in 0..Tries /\ 0 \in 0..QuickDrops /\ 0 \in 0..2 /\ 1 \in 0..2 /\ 2 \in 0..2
  BY RadioAssumption

\* No episode is one of the episodes.
LEMMA NoEpisode == "none" \in Episodes
  BY DEF Episodes

\* Every headset has a record.
LEMMA RecordOf == ASSUME TypeOK PROVE \A h \in Headsets : rec[h] \in Record
  BY DEF TypeOK

\* Writing one record keeps the types of all.
LEMMA RecordUpdated ==
  ASSUME TypeOK, NEW h, NEW r \in Record PROVE [rec EXCEPT ![h] = r] \in [Headsets -> Record]
  BY DEF TypeOK

\* An episode has between one try and Tries.
LEMMA LimitTyped == ASSUME NEW e PROVE Limit(e) \in 1..Tries
  BY RadioAssumption DEF Limit

\* A new record is a record.
LEMMA FreshTyped == Fresh \in Record
  BY Bounds, NoEpisode, Zenon DEF Fresh, Record

\* A trigger starts an episode or none.
LEMMA StartTyped == ASSUME NEW trigger PROVE Start(trigger) \in Episodes
  BY DEF Start, Episodes

\* A trigger keeps the type of a record.
LEMMA TriggeredTyped ==
  ASSUME NEW r \in Record, NEW trigger
  PROVE  Triggered(r, trigger) \in Record
<1>1. (IF trigger \in {"power_on", "user"} THEN 0 ELSE r.drops) \in 0..QuickDrops
  BY Bounds DEF Record
<1> QED
  BY <1>1, StartTyped, Bounds, Zenon DEF Triggered, Record

\* A failed try keeps the type of a record.
LEMMA TryFailedTyped == ASSUME NEW r \in Record PROVE TryFailed(r) \in Record
<1>1. [r EXCEPT !.wait = TRUE] \in Record
  BY Zenon DEF Record
<1>2. [r EXCEPT !.parked = TRUE, !.episode = "none", !.tries = 0, !.wait = FALSE] \in Record
  BY NoEpisode, Bounds, Zenon DEF Record
<1> QED
  BY <1>1, <1>2, Zenon DEF TryFailed

\* The headset to keep connected is one, or none.
LEMMA TargetTyped == ASSUME TypeOK PROVE Target \in Headsets \cup {None}
  BY DEF Target, TypeOK

\* The end of BlueZ keeps the types of the world.
LEMMA BluezGoneTyped ==
  ASSUME TypeOK, BluezGone
  PROVE  /\ bluez' \in BOOLEAN /\ adapter' \in BOOLEAN /\ pend' \in {"none", "on", "off", "dead"}
         /\ page' \in [Headsets -> BOOLEAN] /\ link' \in [Headsets -> Links]
         /\ bye' \in [Headsets -> SUBSET {"cancel", "owner"}]
         /\ signal' \in [Headsets -> Ends \cup {NoReason}]
  BY DEF BluezGone, TypeOK, Links

\* A step that is taken had budget left.
LEMMA ChooseTyped ==
  ASSUME NEW wanted, Choose(wanted) # "none"
  PROVE  Choose(wanted) \in Rungs /\ used[Choose(wanted)] < Budget
  BY DEF Choose, Left, Rungs

\* A recovery keeps the types of what it changes; no step passes its budget.
LEMMA RecoverTyped ==
  ASSUME TypeOK, NEW wanted, NEW h, NEW look \in BOOLEAN, Recover(wanted, h, look)
  PROVE  /\ failed' \in BOOLEAN /\ used' \in [Rungs -> 0..Budget]
         /\ cycle' \in {"no", "on", "old"} /\ dirty' \in BOOLEAN
         /\ bluez' \in BOOLEAN /\ adapter' \in BOOLEAN /\ pend' \in {"none", "on", "off", "dead"}
         /\ page' \in [Headsets -> BOOLEAN] /\ link' \in [Headsets -> Links]
         /\ bye' \in [Headsets -> SUBSET {"cancel", "owner"}]
         /\ signal' \in [Headsets -> Ends \cup {NoReason}]
<1> DEFINE step == Choose(wanted)
<1>1. failed' \in BOOLEAN /\ dirty' \in BOOLEAN
  BY Zenon DEF Recover
<1>2. used' \in [Rungs -> 0..Budget]
  <2>1. used' = [r \in Rungs |-> IF r = step THEN used[r] + 1 ELSE used[r]]
    BY DEF Recover
  <2>2. \A r \in Rungs : r = step => used[r] < Budget
    BY ChooseTyped DEF Rungs
  <2> HIDE DEF step
  <2>3. ASSUME NEW r \in Rungs PROVE (IF r = step THEN used[r] + 1 ELSE used[r]) \in 0..Budget
    BY <2>2, RadioAssumption DEF TypeOK
  <2> QED
    BY <2>1, <2>3
<1>3. cycle' \in {"no", "on", "old"}
  BY DEF Recover, TypeOK
<1>4. CASE step = "bluez_restart"
  <2>1. BluezGone
    BY <1>4, Zenon DEF Recover
  <2> QED
    BY <1>1, <1>2, <1>3, <2>1, BluezGoneTyped
<1>5. CASE step # "bluez_restart"
  <2>1. UNCHANGED world
    BY <1>5, Zenon DEF Recover
  <2>2. bye' = bye \/ Disconnect(h, "cancel")
    BY <1>5, Zenon DEF Recover
  <2>3. bye' \in [Headsets -> SUBSET {"cancel", "owner"}]
    BY <2>2 DEF Disconnect, TypeOK
  <2> QED
    BY <1>1, <1>2, <1>3, <2>1, <2>3 DEF TypeOK, world
<1> QED
  BY <1>4, <1>5

\* A cancelled connect keeps the types of the records.
LEMMA CancelConnectTyped ==
  ASSUME TypeOK, NEW h \in Headsets, CancelConnect(h)
  PROVE  rec' \in [Headsets -> Record]
<1> DEFINE t == TryFailed(rec[h])
           r == [t EXCEPT !.connecting = FALSE, !.in_progress = FALSE,
                          !.since = FALSE, !.cancels = AtMost(@ + 1, 2)]
<1>1. t \in Record
  BY TryFailedTyped DEF TypeOK
<1>2. rec' = [rec EXCEPT ![h] = r]
  BY Zenon DEF CancelConnect
<1>3. r \in Record
  <2> HIDE DEF t
  <2>1. AtMost(t.cancels + 1, 2) \in 0..2
    BY <1>1 DEF Record, AtMost
  <2> QED
    BY <1>1, <2>1, Zenon DEF Record
<1> QED
  BY <1>2, <1>3, RecordUpdated

\* Every step keeps the types.
LEMMA NextTyped == ASSUME TypeOK, [Next]_vars PROVE TypeOK'
<1>1. CASE PowerOn
  <2>1. /\ desired' \in BOOLEAN /\ overdue' \in BOOLEAN /\ failed' \in BOOLEAN
       /\ dirty' \in BOOLEAN /\ run' \in BOOLEAN
    BY <1>1, Zenon DEF PowerOn, SwitchOn, Asked
  <2>2. /\ sleep' \in {"awake", "going", "down"}
       /\ told' \in {"none", "ok", "racing", "late"} /\ held' \in SUBSET Headsets
    BY <1>1 DEF PowerOn, SwitchOn
  <2>3. power' \in [failures : 0..MaxFailures, wait : BOOLEAN]
    BY <1>1 DEF PowerOn, SwitchOn, TypeOK
  <2>4. used' \in [Rungs -> 0..Budget]
    BY <1>1, RadioAssumption DEF PowerOn, SwitchOn
  <2>5. /\ bluez' \in BOOLEAN /\ adapter' \in BOOLEAN
       /\ pend' \in {"none", "on", "off", "dead"} /\ page' \in [Headsets -> BOOLEAN]
       /\ link' \in [Headsets -> Links] /\ signal' \in [Headsets -> Ends \cup {NoReason}]
       /\ bye' \in [Headsets -> SUBSET {"cancel", "owner"}]
    <3>1. CASE failed \/ ~seen.known
      BY <1>1, <3>1, BluezGoneTyped DEF PowerOn, SwitchOn
    <3>2. CASE ~(failed \/ ~seen.known)
      BY <1>1, <3>2 DEF PowerOn, SwitchOn, world, TypeOK
    <3> QED
      BY <3>1, <3>2
  <2>6. events' \in 0..MaxEvents
    BY <1>1, EventTyped DEF PowerOn, Asked
  <2>7. UNCHANGED <<preferred, asked, seen, at, stuck, rec, reasons, cycle, powerCall, conn>>
    BY <1>1 DEF PowerOn, Asked
  <2> QED
    BY <2>1, <2>2, <2>3, <2>4, <2>5, <2>6, <2>7 DEF TypeOK, Stages
<1>2. CASE PowerOff
  <2>1. desired' \in BOOLEAN /\ dirty' \in BOOLEAN /\ run' \in BOOLEAN
    BY <1>2, Zenon DEF PowerOff, Asked
  <2>2. asked' \in Headsets \cup {None}
    BY <1>2 DEF PowerOff
  <2>3. power' \in [failures : 0..MaxFailures, wait : BOOLEAN]
    BY <1>2 DEF PowerOff, TypeOK
  <2>4. events' \in 0..MaxEvents
    BY <1>2, EventTyped DEF PowerOff, Asked
  <2>5. UNCHANGED <<preferred, held, sleep, overdue, told, seen, at, stuck, rec, reasons, cycle,
                 used, failed, powerCall, conn, bye, bluez, adapter, pend, page, link,
                 signal>>
    BY <1>2 DEF PowerOff, Asked, sleeping, recovery, world
  <2> QED
    BY <2>1, <2>2, <2>3, <2>4, <2>5 DEF TypeOK, Stages
<1>3. CASE Quiesce
  <2>1. dirty' \in BOOLEAN /\ run' \in BOOLEAN /\ overdue' \in BOOLEAN
    BY <1>3, Zenon DEF Quiesce, Asked, TypeOK
  <2>2. /\ sleep' \in {"awake", "going", "down"}
       /\ told' \in {"none", "ok", "racing", "late"}
    BY <1>3 DEF Quiesce, Done, TypeOK
  <2>3. power' \in [failures : 0..MaxFailures, wait : BOOLEAN]
    BY <1>3 DEF Quiesce, TypeOK
  <2>4. events' \in 0..MaxEvents
    BY <1>3, EventTyped DEF Quiesce, Asked
  <2>5. UNCHANGED <<desired, preferred, asked, held, seen, at, stuck, rec, reasons, cycle, used,
                 failed, powerCall, conn, bye, bluez, adapter, pend, page, link,
                 signal>>
    BY <1>3 DEF Quiesce, Asked, wish, recovery, world
  <2> QED
    BY <2>1, <2>2, <2>3, <2>4, <2>5 DEF TypeOK, Stages
<1>4. CASE Restore
  <2>1. dirty' \in BOOLEAN /\ run' \in BOOLEAN /\ overdue' \in BOOLEAN
    BY <1>4, Zenon DEF Restore, Asked
  <2>2. /\ sleep' \in {"awake", "going", "down"}
       /\ told' \in {"none", "ok", "racing", "late"}
    BY <1>4 DEF Restore
  <2>3. events' \in 0..MaxEvents
    BY <1>4, EventTyped DEF Restore, Asked
  <2>4. UNCHANGED <<desired, preferred, asked, held, seen, at, stuck, rec, reasons, power,
                 cycle, used, failed, powerCall, conn, bye, bluez, adapter, pend, page,
                 link, signal>>
    BY <1>4 DEF Restore, Asked, wish, recovery, world
  <2> QED
    BY <2>1, <2>2, <2>3, <2>4 DEF TypeOK, Stages
<1>5. ASSUME NEW h \in Headsets, Connect(h) PROVE TypeOK'
  <2>1. /\ desired' \in BOOLEAN /\ overdue' \in BOOLEAN /\ failed' \in BOOLEAN
       /\ dirty' \in BOOLEAN /\ run' \in BOOLEAN
    BY <1>5, Zenon DEF Connect, SwitchOn, sleeping, Asked, TypeOK
  <2>2. /\ sleep' \in {"awake", "going", "down"}
       /\ told' \in {"none", "ok", "racing", "late"}
    BY <1>5 DEF Connect, SwitchOn, sleeping, TypeOK
  <2>3. asked' \in Headsets \cup {None} /\ held' \in SUBSET Headsets
    BY <1>5 DEF Connect, TypeOK
  <2>4. power' \in [failures : 0..MaxFailures, wait : BOOLEAN]
    BY <1>5 DEF Connect, SwitchOn, TypeOK
  <2>5. used' \in [Rungs -> 0..Budget]
    BY <1>5, RadioAssumption DEF Connect, SwitchOn, TypeOK
  <2>6. rec' \in [Headsets -> Record]
    <3>1. Triggered(rec[h], "user") \in Record
      BY TriggeredTyped DEF TypeOK
    <3> QED
      BY <1>5, <3>1, RecordUpdated DEF Connect
  <2>7. /\ bluez' \in BOOLEAN /\ adapter' \in BOOLEAN
       /\ pend' \in {"none", "on", "off", "dead"} /\ page' \in [Headsets -> BOOLEAN]
       /\ link' \in [Headsets -> Links] /\ signal' \in [Headsets -> Ends \cup {NoReason}]
       /\ bye' \in [Headsets -> SUBSET {"cancel", "owner"}]
    <3>1. CASE ~desired /\ (failed \/ ~seen.known)
      BY <1>5, <3>1, BluezGoneTyped DEF Connect, SwitchOn
    <3>2. CASE ~(~desired /\ (failed \/ ~seen.known))
      BY <1>5, <3>2 DEF Connect, SwitchOn, world, TypeOK
    <3> QED
      BY <3>1, <3>2
  <2>8. events' \in 0..MaxEvents
    BY <1>5, EventTyped DEF Connect, Asked
  <2>9. UNCHANGED <<preferred, seen, at, stuck, reasons, cycle, powerCall, conn>>
    BY <1>5 DEF Connect, Asked
  <2> QED
    BY <2>1, <2>2, <2>3, <2>4, <2>5, <2>6, <2>7, <2>8, <2>9 DEF TypeOK, Stages
<1>6. ASSUME NEW h \in Headsets, UserDisconnect(h) PROVE TypeOK'
  <2>1. run' \in BOOLEAN /\ dirty' \in BOOLEAN
    BY <1>6, Zenon DEF UserDisconnect
  <2>2. held' \in SUBSET Headsets /\ asked' \in Headsets \cup {None}
    BY <1>6 DEF UserDisconnect, TypeOK
  <2>3. rec' \in [Headsets -> Record]
    <3>1. [rec[h] EXCEPT !.episode = "none", !.tries = 0, !.wait = FALSE] \in Record
      BY RecordOf, Bounds, NoEpisode, Zenon DEF Record
    <3>2. rec' = [rec EXCEPT ![h] = [rec[h] EXCEPT !.episode = "none", !.tries = 0, !.wait = FALSE]]
      BY <1>6, Zenon DEF UserDisconnect
    <3> QED
      BY <3>1, <3>2, RecordUpdated
  <2>4. reasons' \in [Headsets -> Ends \cup {NoReason}]
    BY <1>6 DEF UserDisconnect, TypeOK, Ends
  <2>5. bye' \in [Headsets -> SUBSET {"cancel", "owner"}]
    BY <1>6 DEF UserDisconnect, Disconnect, TypeOK
  <2>6. events' \in 0..MaxEvents
    BY <1>6, EventTyped DEF UserDisconnect
  <2>7. UNCHANGED <<desired, preferred, sleep, overdue, told, seen, at, stuck, power, cycle,
                 used, failed, powerCall, conn, bluez, adapter, pend, page, link,
                 signal>>
    BY <1>6 DEF UserDisconnect, sleeping, recovery, world
  <2> QED
    BY <2>1, <2>2, <2>3, <2>4, <2>5, <2>6, <2>7 DEF TypeOK, Stages
<1>7. CASE PowerAnswered
  <2>1. run' \in BOOLEAN /\ dirty' \in BOOLEAN
    BY <1>7, Zenon DEF PowerAnswered, Arrives
  <2>2. powerCall' \in {"none", "on", "off"}
    BY <1>7 DEF PowerAnswered
  <2>3. power' \in [failures : 0..MaxFailures, wait : BOOLEAN]
    BY <1>7, RadioAssumption DEF PowerAnswered, TypeOK
  <2>4. events' \in 0..MaxEvents
    BY <1>7, EventTyped DEF PowerAnswered
  <2>5. UNCHANGED <<desired, preferred, asked, held, sleep, overdue, told, seen, at, stuck, rec,
                 reasons, cycle, used, failed, conn, bye, bluez, adapter, pend, page,
                 link, signal>>
    BY <1>7 DEF PowerAnswered, Arrives, wish, sleeping, recovery, world
  <2> QED
    BY <2>1, <2>2, <2>3, <2>4, <2>5 DEF TypeOK, Stages
<1>8. ASSUME NEW late \in BOOLEAN, PowerFailed(late) PROVE TypeOK'
  <2>1. run' \in BOOLEAN
    BY <1>8, Zenon DEF PowerFailed, Arrives
  <2>2. powerCall' \in {"none", "on", "off"}
    BY <1>8 DEF PowerFailed
  <2>3. power' \in [failures : 0..MaxFailures, wait : BOOLEAN]
    BY <1>8, RadioAssumption DEF PowerFailed, AtMost, TypeOK
  <2>4. /\ failed' \in BOOLEAN /\ used' \in [Rungs -> 0..Budget]
       /\ cycle' \in {"no", "on", "old"} /\ dirty' \in BOOLEAN /\ bluez' \in BOOLEAN
       /\ adapter' \in BOOLEAN /\ pend' \in {"none", "on", "off", "dead"}
       /\ page' \in [Headsets -> BOOLEAN] /\ link' \in [Headsets -> Links]
       /\ bye' \in [Headsets -> SUBSET {"cancel", "owner"}]
       /\ signal' \in [Headsets -> Ends \cup {NoReason}]
    <3> DEFINE restart == powerCall = "on" /\ AtMost(power.failures + 1, MaxFailures) = MaxFailures
    <3>1. CASE restart
      BY <1>8, <3>1, RecoverTyped DEF PowerFailed
    <3>2. CASE ~restart
      <4>1. failed' \in BOOLEAN /\ dirty' \in BOOLEAN /\ bluez' \in BOOLEAN /\ adapter' \in BOOLEAN
        BY <1>8, <3>2, Zenon DEF PowerFailed, recovery, TypeOK
      <4>2. /\ pend' \in {"none", "on", "off", "dead"}
            /\ UNCHANGED <<used, cycle, page, link, bye, signal>>
        BY <1>8, <3>2 DEF PowerFailed, recovery, TypeOK
      <4> QED
        BY <4>1, <4>2 DEF TypeOK
    <3> QED
      BY <3>1, <3>2
  <2>5. events' \in 0..MaxEvents
    BY <1>8, EventTyped DEF PowerFailed
  <2>6. UNCHANGED <<desired, preferred, asked, held, sleep, overdue, told, seen, at, stuck, rec,
                 reasons, conn>>
    BY <1>8 DEF PowerFailed, Arrives, wish, sleeping
  <2> QED
    BY <2>1, <2>2, <2>3, <2>4, <2>5, <2>6 DEF TypeOK, Stages
<1>9. ASSUME NEW h \in Headsets, ConnectAnswered(h) PROVE TypeOK'
  <2>1. run' \in BOOLEAN /\ dirty' \in BOOLEAN
    BY <1>9, Zenon DEF ConnectAnswered, Arrives
  <2>2. conn' \in [Headsets -> {"no", "sent", "made"}]
    BY <1>9 DEF ConnectAnswered, TypeOK
  <2>3. rec' \in [Headsets -> Record]
    <3>1. CASE ConnectOk(h)
      <4>1. [rec[h] EXCEPT !.connecting = FALSE, !.episode = "none", !.tries = 0, !.wait = FALSE,
                           !.parked = FALSE] \in Record
        BY RecordOf, Bounds, NoEpisode, Zenon DEF Record
      <4>2. rec' = [rec EXCEPT ![h] = [rec[h] EXCEPT !.connecting = FALSE, !.episode = "none",
                                                     !.tries = 0, !.wait = FALSE, !.parked = FALSE]]
        BY <3>1, Zenon DEF ConnectOk
      <4> QED
        BY <4>1, <4>2, RecordUpdated
    <3>2. CASE ConnectAlready(h)
      <4>1. [rec[h] EXCEPT !.connecting = FALSE] \in Record
        BY RecordOf, Zenon DEF Record
      <4>2. rec' = [rec EXCEPT ![h] = [rec[h] EXCEPT !.connecting = FALSE]]
        BY <3>2, Zenon DEF ConnectAlready
      <4> QED
        BY <4>1, <4>2, RecordUpdated
    <3>3. CASE ConnectBusy(h)
      <4>1. [rec[h] EXCEPT !.in_progress = TRUE, !.connecting = TRUE, !.aged = FALSE] \in Record
        BY RecordOf, Zenon DEF Record
      <4>2. rec' = [rec EXCEPT ![h] = [rec[h] EXCEPT !.in_progress = TRUE, !.connecting = TRUE,
                                                     !.aged = FALSE]]
        BY <3>3, Zenon DEF ConnectBusy
      <4> QED
        BY <4>1, <4>2, RecordUpdated
    <3>4. CASE ConnectError(h)
      <4> DEFINE r == [rec[h] EXCEPT !.connecting = FALSE, !.in_progress = FALSE]
      <4>1. r \in Record
        BY RecordOf, Zenon DEF Record
      <4>2. rec' = [rec EXCEPT ![h] = IF seen.link[h] # "down" THEN r ELSE TryFailed(r)]
        BY <3>4, Zenon DEF ConnectError
      <4> HIDE DEF r
      <4> QED
        BY <4>1, <4>2, TryFailedTyped, RecordUpdated
    <3> QED
      BY <1>9, <3>1, <3>2, <3>3, <3>4 DEF ConnectAnswered
  <2>4. page' \in [Headsets -> BOOLEAN]
    BY <1>9 DEF ConnectAnswered, ConnectOk, ConnectAlready, ConnectBusy, ConnectError, TypeOK
  <2>5. events' \in 0..MaxEvents
    BY <1>9, EventTyped DEF ConnectAnswered, ConnectOk, ConnectAlready, ConnectBusy, ConnectError
  <2>6. UNCHANGED <<desired, preferred, asked, held, sleep, overdue, told, seen, at, stuck,
                 reasons, power, cycle, used, failed, powerCall, bye, bluez, adapter,
                 pend, link, signal>>
    BY <1>9 DEF ConnectAnswered, Arrives, wish, sleeping, recovery
  <2> QED
    BY <2>1, <2>2, <2>3, <2>4, <2>5, <2>6 DEF TypeOK, Stages
<1>10. ASSUME NEW h \in Headsets, ConnectLate(h) PROVE TypeOK'
  <2>1. run' \in BOOLEAN
    BY <1>10, Zenon DEF ConnectLate, Arrives
  <2>2. conn' \in [Headsets -> {"no", "sent", "made"}]
    BY <1>10 DEF ConnectLate, TypeOK
  <2>3. rec' \in [Headsets -> Record]
    BY <1>10, CancelConnectTyped DEF ConnectLate
  <2>4. /\ failed' \in BOOLEAN /\ used' \in [Rungs -> 0..Budget]
       /\ cycle' \in {"no", "on", "old"} /\ dirty' \in BOOLEAN /\ bluez' \in BOOLEAN
       /\ adapter' \in BOOLEAN /\ pend' \in {"none", "on", "off", "dead"}
       /\ page' \in [Headsets -> BOOLEAN] /\ link' \in [Headsets -> Links]
       /\ bye' \in [Headsets -> SUBSET {"cancel", "owner"}]
       /\ signal' \in [Headsets -> Ends \cup {NoReason}]
    <3>1. dirty \in BOOLEAN
      BY DEF TypeOK
    <3> QED
      BY <1>10, <3>1, RecoverTyped DEF ConnectLate, CancelConnect
  <2>5. events' \in 0..MaxEvents
    BY <1>10, EventTyped DEF ConnectLate
  <2>6. UNCHANGED <<desired, preferred, asked, held, sleep, overdue, told, seen, at, stuck,
                 reasons, power, powerCall>>
    BY <1>10 DEF ConnectLate, Arrives, wish, sleeping
  <2> QED
    BY <2>1, <2>2, <2>3, <2>4, <2>5, <2>6 DEF TypeOK, Stages
<1>11. ASSUME NEW h \in Headsets, Disconnected(h) PROVE TypeOK'
  <2>1. run' \in BOOLEAN /\ dirty' \in BOOLEAN
    BY <1>11, Zenon DEF Disconnected, Arrives
  <2>2. /\ reasons' \in [Headsets -> Ends \cup {NoReason}]
       /\ signal' \in [Headsets -> Ends \cup {NoReason}]
    BY <1>11 DEF Disconnected, Ends, TypeOK
  <2>3. events' \in 0..MaxEvents
    BY <1>11, EventTyped DEF Disconnected
  <2>4. UNCHANGED <<desired, preferred, asked, held, sleep, overdue, told, seen, at, stuck, rec,
                 power, cycle, used, failed, powerCall, conn, bye, bluez, adapter, pend,
                 page, link>>
    BY <1>11 DEF Disconnected, Arrives, wish, sleeping, recovery, calls
  <2> QED
    BY <2>1, <2>2, <2>3, <2>4 DEF TypeOK, Stages
<1>12. CASE Observe
  <2>1. run' \in BOOLEAN /\ dirty' \in BOOLEAN
    BY <1>12, Zenon DEF Observe
  <2>2. seen' \in [known : BOOLEAN, on : BOOLEAN, link : [Headsets -> Links]]
    BY <1>12 DEF Observe, TypeOK
  <2>3. at' \in Stages
    BY <1>12 DEF Observe, Stages
  <2>4. rec' \in [Headsets -> Record]
    <3>1. [g \in Headsets |-> Fresh] \in [Headsets -> Record]
      BY FreshTyped
    <3>2. Triggered(rec[Target], "power_on") \in Record \/ Target = None
      BY TriggeredTyped, TargetTyped DEF TypeOK
    <3>3. \/ rec' = [g \in Headsets |-> Fresh]
          \/ rec' = rec
          \/ Target # None /\ rec' = [rec EXCEPT ![Target] = Triggered(rec[Target], "power_on")]
      BY <1>12, Zenon DEF Observe
    <3> QED
      BY <3>1, <3>2, <3>3, RecordUpdated DEF TypeOK
  <2>5. events' \in 0..MaxEvents
    BY <1>12, EventTyped DEF Observe, Stage
  <2>6. UNCHANGED <<desired, preferred, asked, held, sleep, overdue, told, stuck, reasons,
                 power, cycle, used, failed, powerCall, conn, bye, bluez, adapter, pend,
                 page, link, signal>>
    BY <1>12 DEF Observe, Stage, sleeping, recovery, calls, world
  <2> QED
    BY <2>1, <2>2, <2>3, <2>4, <2>5, <2>6 DEF TypeOK, Stages
<1>13. ASSUME NEW h \in Headsets, SeenConnected(h) PROVE TypeOK'
  <2>1. seen' \in [known : BOOLEAN, on : BOOLEAN, link : [Headsets -> Links]]
    BY <1>13 DEF SeenConnected, EdgeSeen, TypeOK
  <2>2. at' \in Stages
    BY <1>13 DEF SeenConnected, EdgeSeen, Stages
  <2>3. preferred' \in Headsets \cup {None}
    BY <1>13 DEF SeenConnected
  <2>4. rec' \in [Headsets -> Record]
    <3>1. [rec[h] EXCEPT !.since = TRUE, !.connecting = FALSE, !.in_progress = FALSE,
                         !.episode = "none", !.tries = 0, !.wait = FALSE,
                         !.parked = FALSE] \in Record
      BY RecordOf, Bounds, NoEpisode, Zenon DEF Record
    <3> QED
      BY <1>13, <3>1, RecordUpdated DEF SeenConnected
  <2>5. events' \in 0..MaxEvents
    BY <1>13, EventTyped DEF SeenConnected, EdgeSeen, Stage
  <2>6. UNCHANGED <<desired, asked, held, sleep, overdue, told, dirty, run, stuck, reasons,
                 power, cycle, used, failed, powerCall, conn, bye, bluez, adapter, pend,
                 page, link, signal>>
    BY <1>13 DEF SeenConnected, EdgeSeen, Stage, sleeping, recovery, calls, world
  <2> QED
    BY <2>1, <2>2, <2>3, <2>4, <2>5, <2>6 DEF TypeOK, Stages
<1>14. ASSUME NEW h \in Headsets, SeenSetUp(h) PROVE TypeOK'
  <2>1. seen' \in [known : BOOLEAN, on : BOOLEAN, link : [Headsets -> Links]]
    BY <1>14 DEF SeenSetUp, EdgeSeen, TypeOK
  <2>2. at' \in Stages
    BY <1>14 DEF SeenSetUp, EdgeSeen, Stages
  <2>3. events' \in 0..MaxEvents
    BY <1>14, EventTyped DEF SeenSetUp, EdgeSeen, Stage
  <2>4. UNCHANGED <<desired, preferred, asked, held, sleep, overdue, told, dirty, run, stuck,
                 rec, reasons, power, cycle, used, failed, powerCall, conn, bye, bluez,
                 adapter, pend, page, link, signal>>
    BY <1>14 DEF SeenSetUp, EdgeSeen, Stage, sleeping, recovery, calls, world
  <2> QED
    BY <2>1, <2>2, <2>3, <2>4 DEF TypeOK, Stages
<1>15. ASSUME NEW h \in Headsets, SeenDisconnected(h) PROVE TypeOK'
  <2>1. seen' \in [known : BOOLEAN, on : BOOLEAN, link : [Headsets -> Links]]
    BY <1>15 DEF SeenDisconnected, EdgeSeen, TypeOK
  <2>2. at' \in Stages
    BY <1>15 DEF SeenDisconnected, EdgeSeen, Stages
  <2>3. reasons' \in [Headsets -> Ends \cup {NoReason}]
    BY <1>15 DEF SeenDisconnected, TypeOK
  <2>4. rec' \in [Headsets -> Record]
    <3> DEFINE ended == IF reasons[h] # NoReason THEN reasons[h]
                         ELSE IF sleep = "awake" THEN "Unknown" ELSE "Sleep"
               quick(y) == y /\ rec[h].since /\ ended \notin {"Sleep", "User"}
               r(y) == [rec[h] EXCEPT !.since = FALSE,
                                      !.drops = IF quick(y) THEN AtMost(@ + 1, QuickDrops) ELSE 0]
               parked(y) == [r(y) EXCEPT !.parked = TRUE, !.episode = "none", !.tries = 0,
                                         !.wait = FALSE]
    <3>1. PICK y \in BOOLEAN : rec' = [rec EXCEPT ![h] = IF Target # h \/ ~seen.on THEN r(y)
                                                         ELSE IF r(y).drops < QuickDrops
                                                         THEN Triggered(r(y), ended) ELSE parked(y)]
      BY <1>15, Zenon DEF SeenDisconnected
    <3>2. (IF quick(y) THEN AtMost(rec[h].drops + 1, QuickDrops) ELSE 0) \in 0..QuickDrops
      <4> HIDE DEF quick
      <4> QED
        BY RecordOf, RadioAssumption DEF AtMost, Record
    <3>3. r(y) \in Record
      <4> HIDE DEF quick
      <4> QED
        BY <3>2, RecordOf, Zenon DEF Record
    <3>4. parked(y) \in Record
      <4> HIDE DEF r
      <4> QED
        BY <3>3, Bounds, NoEpisode, Zenon DEF Record
    <3> HIDE DEF r, parked, ended
    <3> QED
      BY <3>1, <3>3, <3>4, TriggeredTyped, RecordUpdated
  <2>5. events' \in 0..MaxEvents
    BY <1>15, EventTyped DEF SeenDisconnected, EdgeSeen, Stage
  <2>6. UNCHANGED <<desired, preferred, asked, held, sleep, overdue, told, dirty, run, stuck,
                 power, cycle, used, failed, powerCall, conn, bye, bluez, adapter, pend,
                 page, link, signal>>
    BY <1>15 DEF SeenDisconnected, EdgeSeen, Stage, sleeping, recovery, calls, world
  <2> QED
    BY <2>1, <2>2, <2>3, <2>4, <2>5, <2>6 DEF TypeOK, Stages
<1>16. CASE Expire
  <2>1. rec' \in [Headsets -> Record]
    <3> DEFINE unset(g) == IF seen.link[g] = "half"
                           THEN (IF rec[g].unset = 0 THEN 1 ELSE rec[g].unset) ELSE 0
               r(g) == [rec[g] EXCEPT !.unset = unset(g)]
    <3>1. rec' = [g \in Headsets |-> r(g)]
      BY <1>16, Zenon DEF Expire
    <3>2. ASSUME NEW g \in Headsets PROVE r(g) \in Record
      <4>1. unset(g) \in 0..2
        BY RecordOf, Bounds DEF Record
      <4> HIDE DEF unset
      <4> QED
        BY <4>1, RecordOf, Zenon DEF Record
    <3> HIDE DEF r
    <3> QED
      BY <3>1, <3>2
  <2>2. stuck' \in SUBSET Headsets
    BY <1>16, Zenon DEF Expire
  <2>3. at' \in Stages
    BY <1>16 DEF Expire, Stages
  <2>4. events' \in 0..MaxEvents
    BY <1>16, EventTyped DEF Expire, Stage
  <2>5. UNCHANGED <<desired, preferred, asked, held, sleep, overdue, told, seen, dirty, run,
                 reasons, power, cycle, used, failed, powerCall, conn, bye, bluez,
                 adapter, pend, page, link, signal>>
    BY <1>16 DEF Expire, Stage, sleeping, recovery, calls, world
  <2> QED
    BY <2>1, <2>2, <2>3, <2>4, <2>5 DEF TypeOK, Stages
<1>17. ASSUME NEW h \in Headsets, CancelStuck(h) PROVE TypeOK'
  <2>1. stuck' \in SUBSET Headsets
    BY <1>17 DEF CancelStuck, TypeOK
  <2>2. at' \in Stages
    BY <1>17 DEF CancelStuck, Stages
  <2>3. rec' \in [Headsets -> Record]
    BY <1>17, CancelConnectTyped DEF CancelStuck
  <2>4. /\ failed' \in BOOLEAN /\ used' \in [Rungs -> 0..Budget]
       /\ cycle' \in {"no", "on", "old"} /\ dirty' \in BOOLEAN /\ bluez' \in BOOLEAN
       /\ adapter' \in BOOLEAN /\ pend' \in {"none", "on", "off", "dead"}
       /\ page' \in [Headsets -> BOOLEAN] /\ link' \in [Headsets -> Links]
       /\ bye' \in [Headsets -> SUBSET {"cancel", "owner"}]
       /\ signal' \in [Headsets -> Ends \cup {NoReason}]
    <3>1. dirty \in BOOLEAN
      BY DEF TypeOK
    <3> QED
      BY <1>17, <3>1, RecoverTyped DEF CancelStuck, CancelConnect
  <2>5. events' \in 0..MaxEvents
    BY <1>17, EventTyped DEF CancelStuck, Stage
  <2>6. UNCHANGED <<desired, preferred, asked, held, sleep, overdue, told, seen, run, reasons,
                 power, powerCall, conn>>
    BY <1>17 DEF CancelStuck, Stage, sleeping
  <2> QED
    BY <2>1, <2>2, <2>3, <2>4, <2>5, <2>6 DEF TypeOK, Stages
<1>18. CASE Reconcile
  <2>1. run' \in BOOLEAN
    BY <1>18 DEF Reconcile, TypeOK
  <2>2. at' \in Stages
    BY <1>18 DEF Reconcile, Stages
  <2>3. overdue' \in BOOLEAN
    BY <1>18, Zenon DEF Reconcile, ReconcileSleep, sleeping, TypeOK
  <2>4. /\ sleep' \in {"awake", "going", "down"}
       /\ told' \in {"none", "ok", "racing", "late"}
    BY <1>18 DEF Reconcile, ReconcileSleep, Done, sleeping, TypeOK
  <2>5. /\ cycle' \in {"no", "on", "old"} /\ powerCall' \in {"none", "on", "off"}
       /\ pend' \in {"none", "on", "off", "dead"}
    BY <1>18 DEF Reconcile, ReconcilePower, TypeOK
  <2>6. power' \in [failures : 0..MaxFailures, wait : BOOLEAN]
    BY <1>18, RadioAssumption DEF Reconcile, ReconcilePower, TypeOK
  <2>7. rec' \in [Headsets -> Record]
    <3> DEFINE r == [rec[Target] EXCEPT !.tries = @ + 1, !.connecting = TRUE, !.aged = FALSE,
                                        !.in_progress = FALSE]
    <3>1. rec' = rec \/ (Target # None /\ Due(Target) /\ rec' = [rec EXCEPT ![Target] = r])
      BY <1>18, Zenon DEF Reconcile, ReconcileTarget
    <3>2. CASE rec' = rec
      BY <3>2 DEF TypeOK
    <3>3. CASE Target # None /\ Due(Target) /\ rec' = [rec EXCEPT ![Target] = r]
      <4>1. rec[Target] \in Record
        BY <3>3, TargetTyped DEF TypeOK
      <4>2. rec[Target].tries + 1 \in 0..Tries
        BY <3>3, <4>1, LimitTyped, RadioAssumption DEF Due, Record
      <4>3. r \in Record
        BY <4>1, <4>2, Zenon DEF Record
      <4> HIDE DEF r
      <4> QED
        BY <3>3, <4>3, RecordUpdated
    <3> QED
      BY <3>1, <3>2, <3>3
  <2>8. /\ conn' \in [Headsets -> {"no", "sent", "made"}]
       /\ bye' \in [Headsets -> SUBSET {"cancel", "owner"}]
    BY <1>18 DEF Reconcile, ReconcileTarget, TypeOK
  <2>9. page' \in [Headsets -> BOOLEAN]
    <3>1. page' = page \/ page' = [page EXCEPT ![Target] = adapter /\ link[Target] = "down"]
      BY <1>18, Zenon DEF Reconcile, ReconcileTarget
    <3>2. (adapter /\ link[Target] = "down") \in BOOLEAN
      BY Zenon DEF TypeOK
    <3> QED
      BY <3>1, <3>2, Zenon DEF TypeOK
  <2>10. events' \in 0..MaxEvents
    BY <1>18, EventTyped DEF Reconcile, Stage
  <2>11. UNCHANGED <<desired, preferred, asked, held, seen, dirty, stuck, reasons, used, failed,
                 bluez, adapter, link, signal>>
    BY <1>18 DEF Reconcile, Stage
  <2> QED
    BY <2>1, <2>2, <2>3, <2>4, <2>5, <2>6, <2>7, <2>8, <2>9, <2>10, <2>11 DEF TypeOK, Stages
<1>19. ASSUME NEW h \in Headsets, NextTryDue(h) PROVE TypeOK'
  <2>1. run' \in BOOLEAN
    BY <1>19, Zenon DEF NextTryDue, Waits
  <2>2. rec' \in [Headsets -> Record]
    <3>1. [rec[h] EXCEPT !.wait = FALSE] \in Record
      BY RecordOf, Bounds, Zenon DEF Record
    <3>2. rec' = [rec EXCEPT ![h] = [rec[h] EXCEPT !.wait = FALSE]]
      BY <1>19, Zenon DEF NextTryDue
    <3> QED
      BY <3>1, <3>2, RecordUpdated
  <2>3. events' \in 0..MaxEvents
    BY <1>19, EventTyped DEF NextTryDue, Waits
  <2>4. UNCHANGED <<desired, preferred, asked, held, sleep, overdue, told, seen, dirty, at,
                 stuck, reasons, power, cycle, used, failed, powerCall, conn, bye,
                 bluez, adapter, pend, page, link, signal>>
    BY <1>19 DEF NextTryDue, Waits, wish, sleeping, recovery, calls, world
  <2> QED
    BY <2>1, <2>2, <2>3, <2>4 DEF TypeOK, Stages
<1>20. ASSUME NEW h \in Headsets, ConnectAges(h) PROVE TypeOK'
  <2>1. run' \in BOOLEAN
    BY <1>20, Zenon DEF ConnectAges, Waits
  <2>2. rec' \in [Headsets -> Record]
    <3>1. [rec[h] EXCEPT !.aged = TRUE] \in Record
      BY RecordOf, Bounds, Zenon DEF Record
    <3>2. rec' = [rec EXCEPT ![h] = [rec[h] EXCEPT !.aged = TRUE]]
      BY <1>20, Zenon DEF ConnectAges
    <3> QED
      BY <3>1, <3>2, RecordUpdated
  <2>3. events' \in 0..MaxEvents
    BY <1>20, EventTyped DEF ConnectAges, Waits
  <2>4. UNCHANGED <<desired, preferred, asked, held, sleep, overdue, told, seen, dirty, at,
                 stuck, reasons, power, cycle, used, failed, powerCall, conn, bye,
                 bluez, adapter, pend, page, link, signal>>
    BY <1>20 DEF ConnectAges, Waits, wish, sleeping, recovery, calls, world
  <2> QED
    BY <2>1, <2>2, <2>3, <2>4 DEF TypeOK, Stages
<1>21. ASSUME NEW h \in Headsets, HalfAges(h) PROVE TypeOK'
  <2>1. run' \in BOOLEAN
    BY <1>21, Zenon DEF HalfAges, Waits
  <2>2. rec' \in [Headsets -> Record]
    <3>1. [rec[h] EXCEPT !.unset = 2] \in Record
      BY RecordOf, Bounds, Zenon DEF Record
    <3>2. rec' = [rec EXCEPT ![h] = [rec[h] EXCEPT !.unset = 2]]
      BY <1>21, Zenon DEF HalfAges
    <3> QED
      BY <3>1, <3>2, RecordUpdated
  <2>3. events' \in 0..MaxEvents
    BY <1>21, EventTyped DEF HalfAges, Waits
  <2>4. UNCHANGED <<desired, preferred, asked, held, sleep, overdue, told, seen, dirty, at,
                 stuck, reasons, power, cycle, used, failed, powerCall, conn, bye,
                 bluez, adapter, pend, page, link, signal>>
    BY <1>21 DEF HalfAges, Waits, wish, sleeping, recovery, calls, world
  <2> QED
    BY <2>1, <2>2, <2>3, <2>4 DEF TypeOK, Stages
<1>22. CASE PowerDue
  <2>1. run' \in BOOLEAN
    BY <1>22, Zenon DEF PowerDue, Waits
  <2>2. power' \in [failures : 0..MaxFailures, wait : BOOLEAN]
    BY <1>22 DEF PowerDue, TypeOK
  <2>3. events' \in 0..MaxEvents
    BY <1>22, EventTyped DEF PowerDue, Waits
  <2>4. UNCHANGED <<desired, preferred, asked, held, sleep, overdue, told, seen, dirty, at,
                 stuck, rec, reasons, cycle, used, failed, powerCall, conn, bye, bluez,
                 adapter, pend, page, link, signal>>
    BY <1>22 DEF PowerDue, Waits, wish, sleeping, recovery, calls, world
  <2> QED
    BY <2>1, <2>2, <2>3, <2>4 DEF TypeOK, Stages
<1>23. CASE SleepOverdue
  <2>1. run' \in BOOLEAN /\ overdue' \in BOOLEAN
    BY <1>23, Zenon DEF SleepOverdue, Waits
  <2>2. events' \in 0..MaxEvents
    BY <1>23, EventTyped DEF SleepOverdue, Waits
  <2>3. UNCHANGED <<desired, preferred, asked, held, sleep, told, seen, dirty, at, stuck, rec,
                 reasons, power, cycle, used, failed, powerCall, conn, bye, bluez,
                 adapter, pend, page, link, signal>>
    BY <1>23 DEF SleepOverdue, Waits, wish, recovery, calls, world
  <2> QED
    BY <2>1, <2>2, <2>3 DEF TypeOK, Stages
<1>24. CASE CycleAges
  <2>1. run' \in BOOLEAN
    BY <1>24, Zenon DEF CycleAges
  <2>2. cycle' \in {"no", "on", "old"}
    BY <1>24 DEF CycleAges
  <2>3. events' \in 0..MaxEvents
    BY <1>24, EventTyped DEF CycleAges
  <2>4. UNCHANGED <<desired, preferred, asked, held, sleep, overdue, told, seen, dirty, at,
                 stuck, rec, reasons, power, used, failed, powerCall, conn, bye, bluez,
                 adapter, pend, page, link, signal>>
    BY <1>24 DEF CycleAges, wish, sleeping, calls, world
  <2> QED
    BY <2>1, <2>2, <2>3, <2>4 DEF TypeOK, Stages
<1>25. CASE PowerTakes
  <2>1. run' \in BOOLEAN /\ dirty' \in BOOLEAN
    BY <1>25, Zenon DEF PowerTakes, Changes
  <2>2. adapter' \in BOOLEAN
    BY <1>25, Zenon DEF PowerTakes
  <2>3. pend' \in {"none", "on", "off", "dead"}
    BY <1>25 DEF PowerTakes
  <2>4. page' \in [Headsets -> BOOLEAN]
    <3>1. page' = page \/ page' = [g \in Headsets |-> FALSE]
      BY <1>25, Zenon DEF PowerTakes
    <3> QED
      BY <3>1 DEF TypeOK
  <2>5. link' \in [Headsets -> Links]
    BY <1>25 DEF PowerTakes, Links, TypeOK
  <2>6. signal' \in [Headsets -> Ends \cup {NoReason}]
    BY <1>25 DEF PowerTakes, Ends, TypeOK
  <2>7. events' \in 0..MaxEvents
    BY <1>25, EventTyped DEF PowerTakes
  <2>8. UNCHANGED <<desired, preferred, asked, held, sleep, overdue, told, seen, at, stuck, rec,
                 reasons, power, cycle, used, failed, powerCall, conn, bye, bluez>>
    BY <1>25 DEF PowerTakes, Changes, wish, sleeping, recovery
  <2> QED
    BY <2>1, <2>2, <2>3, <2>4, <2>5, <2>6, <2>7, <2>8 DEF TypeOK, Stages
<1>26. CASE BluezDies
  <2>1. run' \in BOOLEAN /\ dirty' \in BOOLEAN
    BY <1>26, Zenon DEF BluezDies, Changes
  <2>2. /\ bluez' \in BOOLEAN /\ adapter' \in BOOLEAN
       /\ pend' \in {"none", "on", "off", "dead"} /\ page' \in [Headsets -> BOOLEAN]
       /\ link' \in [Headsets -> Links] /\ signal' \in [Headsets -> Ends \cup {NoReason}]
       /\ bye' \in [Headsets -> SUBSET {"cancel", "owner"}]
    BY <1>26, BluezGoneTyped DEF BluezDies
  <2>3. events' \in 0..MaxEvents
    BY <1>26, EventTyped DEF BluezDies
  <2>4. UNCHANGED <<desired, preferred, asked, held, sleep, overdue, told, seen, at, stuck, rec,
                 reasons, power, cycle, used, failed, powerCall, conn>>
    BY <1>26 DEF BluezDies, Changes, wish, sleeping, recovery
  <2> QED
    BY <2>1, <2>2, <2>3, <2>4 DEF TypeOK, Stages
<1>27. CASE BluezStarts
  <2>1. run' \in BOOLEAN /\ dirty' \in BOOLEAN
    BY <1>27, Zenon DEF BluezStarts, Changes
  <2>2. bluez' \in BOOLEAN
    BY <1>27, Zenon DEF BluezStarts
  <2>3. events' \in 0..MaxEvents
    BY <1>27, EventTyped DEF BluezStarts
  <2>4. UNCHANGED <<desired, preferred, asked, held, sleep, overdue, told, seen, at, stuck, rec,
                 reasons, power, cycle, used, failed, powerCall, conn, bye, adapter,
                 pend, page, link, signal>>
    BY <1>27 DEF BluezStarts, Changes, wish, sleeping, recovery
  <2> QED
    BY <2>1, <2>2, <2>3, <2>4 DEF TypeOK, Stages
<1>28. ASSUME NEW h \in Headsets, ComesUp(h) PROVE TypeOK'
  <2>1. run' \in BOOLEAN /\ dirty' \in BOOLEAN
    BY <1>28, Zenon DEF ComesUp, Changes
  <2>2. link' \in [Headsets -> Links]
    BY <1>28 DEF ComesUp, Links, TypeOK
  <2>3. page' \in [Headsets -> BOOLEAN]
    BY <1>28, Zenon DEF ComesUp, TypeOK
  <2>4. conn' \in [Headsets -> {"no", "sent", "made"}]
    BY <1>28 DEF ComesUp, TypeOK
  <2>5. events' \in 0..MaxEvents
    BY <1>28, EventTyped DEF ComesUp
  <2>6. UNCHANGED <<desired, preferred, asked, held, sleep, overdue, told, seen, at, stuck, rec,
                 reasons, power, cycle, used, failed, powerCall, bye, bluez, adapter,
                 pend, signal>>
    BY <1>28 DEF ComesUp, Changes, wish, sleeping, recovery
  <2> QED
    BY <2>1, <2>2, <2>3, <2>4, <2>5, <2>6 DEF TypeOK, Stages
<1>29. ASSUME NEW h \in Headsets, SetsUp(h) PROVE TypeOK'
  <2>1. run' \in BOOLEAN /\ dirty' \in BOOLEAN
    BY <1>29, Zenon DEF SetsUp, Changes
  <2>2. link' \in [Headsets -> Links]
    BY <1>29 DEF SetsUp, Links, TypeOK
  <2>3. events' \in 0..MaxEvents
    BY <1>29, EventTyped DEF SetsUp
  <2>4. UNCHANGED <<desired, preferred, asked, held, sleep, overdue, told, seen, at, stuck, rec,
                 reasons, power, cycle, used, failed, powerCall, conn, bye, bluez,
                 adapter, pend, page, signal>>
    BY <1>29 DEF SetsUp, Changes, wish, sleeping, recovery
  <2> QED
    BY <2>1, <2>2, <2>3, <2>4 DEF TypeOK, Stages
<1>30. ASSUME NEW h \in Headsets, Drops(h) PROVE TypeOK'
  <2>1. run' \in BOOLEAN /\ dirty' \in BOOLEAN
    BY <1>30, Zenon DEF Drops, Changes
  <2>2. link' \in [Headsets -> Links] /\ signal' \in [Headsets -> Ends \cup {NoReason}]
    BY <1>30 DEF Drops, Links, Ends, TypeOK
  <2>3. events' \in 0..MaxEvents
    BY <1>30, EventTyped DEF Drops
  <2>4. UNCHANGED <<desired, preferred, asked, held, sleep, overdue, told, seen, at, stuck, rec,
                 reasons, power, cycle, used, failed, powerCall, conn, bye, bluez,
                 adapter, pend, page>>
    BY <1>30 DEF Drops, Changes, wish, sleeping, recovery
  <2> QED
    BY <2>1, <2>2, <2>3, <2>4 DEF TypeOK, Stages
<1>31. ASSUME NEW h \in Headsets, Disconnects(h) PROVE TypeOK'
  <2>1. run' \in BOOLEAN /\ dirty' \in BOOLEAN
    BY <1>31, Zenon DEF Disconnects, Changes
  <2>2. bye' \in [Headsets -> SUBSET {"cancel", "owner"}]
    BY <1>31 DEF Disconnects, TypeOK
  <2>3. link' \in [Headsets -> Links] /\ signal' \in [Headsets -> Ends \cup {NoReason}]
    BY <1>31 DEF Disconnects, Links, Ends, TypeOK
  <2>4. page' \in [Headsets -> BOOLEAN]
    BY <1>31, Zenon DEF Disconnects, TypeOK
  <2>5. events' \in 0..MaxEvents
    BY <1>31, EventTyped DEF Disconnects
  <2>6. UNCHANGED <<desired, preferred, asked, held, sleep, overdue, told, seen, at, stuck, rec,
                 reasons, power, cycle, used, failed, powerCall, conn, bluez, adapter,
                 pend>>
    BY <1>31 DEF Disconnects, Changes, wish, sleeping, recovery
  <2> QED
    BY <2>1, <2>2, <2>3, <2>4, <2>5, <2>6 DEF TypeOK, Stages
<1>32. CASE UNCHANGED vars
  BY <1>32 DEF vars, wish, sleeping, loop, recovery, calls, world, TypeOK
<1> QED
  BY <1>1, <1>2, <1>3, <1>4, <1>5, <1>6, <1>7, <1>8, <1>9, <1>10, <1>11, <1>12, <1>13, <1>14,
     <1>15, <1>16, <1>17, <1>18, <1>19, <1>20, <1>21, <1>22, <1>23, <1>24, <1>25, <1>26, <1>27,
     <1>28, <1>29, <1>30, <1>31, <1>32, Zenon DEF Next, Pass

-----------------------------------------------------------------------------
(* What the owner disconnected is left alone.                                *)

\* The headset to keep connected is not held.
LEMMA TargetFree == ASSUME TypeOK, HeldIsLeftAlone PROVE Target \notin held
  BY RadioAssumption DEF TypeOK, HeldIsLeftAlone, Target

\* No handler but a trigger gives a headset an episode.
NoNewEpisode == \A g \in Headsets : rec'[g].episode \in {rec[g].episode, "none"}

\* Without a new episode, and with the same taps and holds, held ones have none.
LEMMA NoneStays ==
  ASSUME TypeOK, HeldIsLeftAlone, UNCHANGED <<asked, held>>, NoNewEpisode
  PROVE  HeldIsLeftAlone'
  BY DEF TypeOK, HeldIsLeftAlone, NoNewEpisode

\* A record that keeps or loses its episode is no new one.
LEMMA EpisodeKept ==
  ASSUME TypeOK, NEW h \in Headsets, NEW r, rec' = [rec EXCEPT ![h] = r],
         r.episode \in {rec[h].episode, "none"}
  PROVE  NoNewEpisode
  BY DEF TypeOK, NoNewEpisode

\* What a trigger and a failed try make of the episode.
LEMMA EpisodeOf ==
  ASSUME NEW r \in Record, NEW trigger
  PROVE  /\ Triggered(r, trigger).episode = Start(trigger)
         /\ TryFailed(r).episode \in {r.episode, "none"}
<1>1. Triggered(r, trigger).episode = Start(trigger)
  BY Zenon DEF Triggered, Record
<1>2. [r EXCEPT !.wait = TRUE].episode = r.episode
  BY Zenon DEF Record
<1>3. [r EXCEPT !.parked = TRUE, !.episode = "none", !.tries = 0, !.wait = FALSE].episode = "none"
  BY Zenon DEF Record
<1> QED
  BY <1>1, <1>2, <1>3, Zenon DEF TryFailed

\* A cancelled connect starts no episode.
LEMMA CancelKeeps ==
  ASSUME TypeOK, NEW h \in Headsets, CancelConnect(h) PROVE NoNewEpisode
<1> DEFINE t == TryFailed(rec[h])
           r == [t EXCEPT !.connecting = FALSE, !.in_progress = FALSE,
                          !.since = FALSE, !.cancels = AtMost(@ + 1, 2)]
<1>1. t \in Record /\ t.episode \in {rec[h].episode, "none"}
  BY RecordOf, TryFailedTyped, EpisodeOf
<1>2. rec' = [rec EXCEPT ![h] = r]
  BY Zenon DEF CancelConnect
<1>3. r.episode = t.episode
  <2> HIDE DEF t
  <2> QED
    BY <1>1, Zenon DEF Record
<1> HIDE DEF r
<1> QED
  BY <1>1, <1>2, <1>3, EpisodeKept

\* Every step leaves alone what the owner disconnected.
LEMMA HeldKept == ASSUME TypeOK, HeldIsLeftAlone, [Next]_vars PROVE HeldIsLeftAlone'
<1>1. CASE PowerOn
  BY <1>1 DEF PowerOn, HeldIsLeftAlone
<1>2. CASE PowerOff \/ Quiesce \/ Restore
  BY <1>2, RadioAssumption DEF PowerOff, Quiesce, Restore, wish, HeldIsLeftAlone, TypeOK
<1>3. ASSUME NEW h \in Headsets, Connect(h) PROVE HeldIsLeftAlone'
  <2>1. held' \subseteq held \ {h} /\ asked' = h
    BY <1>3 DEF Connect
  <2>2. \A g \in Headsets \ {h} : rec'[g] = rec[g]
    BY <1>3 DEF Connect, TypeOK
  <2> QED
    BY <2>1, <2>2 DEF HeldIsLeftAlone, TypeOK
<1>4. ASSUME NEW h \in Headsets, UserDisconnect(h) PROVE HeldIsLeftAlone'
  <2> DEFINE r == [rec[h] EXCEPT !.episode = "none", !.tries = 0, !.wait = FALSE]
  <2>1. held' = held \cup {h} /\ asked' # h /\ asked' \in {asked, None}
    BY <1>4, RadioAssumption DEF UserDisconnect
  <2>2. rec' = [rec EXCEPT ![h] = r]
    BY <1>4, Zenon DEF UserDisconnect
  <2>3. r.episode = "none"
    BY RecordOf, Zenon DEF Record
  <2> HIDE DEF r
  <2> QED
    BY <2>1, <2>2, <2>3, RadioAssumption DEF HeldIsLeftAlone, TypeOK
<1>5. CASE PowerAnswered
  BY <1>5 DEF PowerAnswered, Arrives, wish, HeldIsLeftAlone
<1>6. ASSUME NEW late \in BOOLEAN, PowerFailed(late) PROVE HeldIsLeftAlone'
  BY <1>6 DEF PowerFailed, Arrives, wish, HeldIsLeftAlone
<1>7. ASSUME NEW h \in Headsets, ConnectAnswered(h) PROVE HeldIsLeftAlone'
  <2>1. CASE ConnectOk(h)
    <3> DEFINE r == [rec[h] EXCEPT !.connecting = FALSE, !.episode = "none", !.tries = 0,
                                   !.wait = FALSE, !.parked = FALSE]
    <3>1. rec' = [rec EXCEPT ![h] = r]
      BY <2>1, Zenon DEF ConnectOk
    <3>2. r.episode = "none"
      BY RecordOf, Zenon DEF Record
    <3> HIDE DEF r
    <3> QED
      BY <3>1, <3>2, EpisodeKept, NoneStays, <1>7 DEF ConnectAnswered, Arrives, wish
  <2>2. CASE ConnectAlready(h)
    <3> DEFINE r == [rec[h] EXCEPT !.connecting = FALSE]
    <3>1. rec' = [rec EXCEPT ![h] = r]
      BY <2>2, Zenon DEF ConnectAlready
    <3>2. r.episode = rec[h].episode
      BY RecordOf, Zenon DEF Record
    <3> HIDE DEF r
    <3> QED
      BY <3>1, <3>2, EpisodeKept, NoneStays, <1>7 DEF ConnectAnswered, Arrives, wish
  <2>3. CASE ConnectBusy(h)
    <3> DEFINE r == [rec[h] EXCEPT !.in_progress = TRUE, !.connecting = TRUE, !.aged = FALSE]
    <3>1. rec' = [rec EXCEPT ![h] = r]
      BY <2>3, Zenon DEF ConnectBusy
    <3>2. r.episode = rec[h].episode
      BY RecordOf, Zenon DEF Record
    <3> HIDE DEF r
    <3> QED
      BY <3>1, <3>2, EpisodeKept, NoneStays, <1>7 DEF ConnectAnswered, Arrives, wish
  <2>4. CASE ConnectError(h)
    <3> DEFINE r == [rec[h] EXCEPT !.connecting = FALSE, !.in_progress = FALSE]
    <3>1. rec' = [rec EXCEPT ![h] = IF seen.link[h] # "down" THEN r ELSE TryFailed(r)]
      BY <2>4, Zenon DEF ConnectError
    <3>2. r \in Record /\ r.episode = rec[h].episode
      BY RecordOf, Zenon DEF Record
    <3> HIDE DEF r
    <3>3. TryFailed(r).episode \in {rec[h].episode, "none"}
      BY <3>2, EpisodeOf
    <3> QED
      BY <3>1, <3>2, <3>3, EpisodeKept, NoneStays, <1>7 DEF ConnectAnswered, Arrives, wish
  <2> QED
    BY <1>7, <2>1, <2>2, <2>3, <2>4 DEF ConnectAnswered
<1>8. ASSUME NEW h \in Headsets, ConnectLate(h) PROVE HeldIsLeftAlone'
  BY <1>8, CancelKeeps, NoneStays DEF ConnectLate, Arrives, wish
<1>9. ASSUME NEW h \in Headsets, Disconnected(h) PROVE HeldIsLeftAlone'
  BY <1>9 DEF Disconnected, Arrives, wish, HeldIsLeftAlone
<1>10. CASE Observe
  <2>1. UNCHANGED <<asked, held>>
    BY <1>10 DEF Observe, Stage
  <2>2. \/ rec' = [g \in Headsets |-> Fresh]
        \/ rec' = rec
        \/ rec' = [rec EXCEPT ![Target] = Triggered(rec[Target], "power_on")]
    BY <1>10, Zenon DEF Observe
  <2>3. Fresh.episode = "none"
    BY Zenon DEF Fresh
  <2> QED
    BY <2>1, <2>2, <2>3, TargetFree DEF HeldIsLeftAlone, TypeOK
<1>11. ASSUME NEW h \in Headsets, SeenConnected(h) PROVE HeldIsLeftAlone'
  <2> DEFINE r == [rec[h] EXCEPT !.since = TRUE, !.connecting = FALSE, !.in_progress = FALSE,
                                 !.episode = "none", !.tries = 0, !.wait = FALSE, !.parked = FALSE]
  <2>1. rec' = [rec EXCEPT ![h] = r]
    BY <1>11, Zenon DEF SeenConnected
  <2>2. r.episode = "none"
    BY RecordOf, Zenon DEF Record
  <2> HIDE DEF r
  <2> QED
    BY <1>11, <2>1, <2>2, EpisodeKept, NoneStays DEF SeenConnected, EdgeSeen, Stage
<1>12. ASSUME NEW h \in Headsets, SeenSetUp(h) PROVE HeldIsLeftAlone'
  BY <1>12 DEF SeenSetUp, EdgeSeen, Stage, HeldIsLeftAlone
<1>13. ASSUME NEW h \in Headsets, SeenDisconnected(h) PROVE HeldIsLeftAlone'
  <2>1. UNCHANGED <<asked, held>>
    BY <1>13 DEF SeenDisconnected, EdgeSeen, Stage
  <2>2. CASE h \in held
    <3> DEFINE ended == IF reasons[h] # NoReason THEN reasons[h]
                        ELSE IF sleep = "awake" THEN "Unknown" ELSE "Sleep"
               quick(y) == y /\ rec[h].since /\ ended \notin {"Sleep", "User"}
               r(y) == [rec[h] EXCEPT !.since = FALSE,
                                      !.drops = IF quick(y) THEN AtMost(@ + 1, QuickDrops) ELSE 0]
    <3>1. Target # h
      BY <2>2, TargetFree
    <3>2. PICK y \in BOOLEAN : rec' = [rec EXCEPT ![h] = r(y)]
      BY <1>13, <3>1, Zenon DEF SeenDisconnected
    <3>3. r(y).episode = rec[h].episode
      <4> HIDE DEF quick
      <4> QED
        BY RecordOf, Zenon DEF Record
    <3> HIDE DEF r
    <3> QED
      BY <2>1, <3>2, <3>3, EpisodeKept, NoneStays
  <2>3. CASE h \notin held
    <3>1. \A g \in Headsets \ {h} : rec'[g] = rec[g]
      BY <1>13 DEF SeenDisconnected, TypeOK
    <3> QED
      BY <2>1, <2>3, <3>1 DEF HeldIsLeftAlone, TypeOK
  <2> QED
    BY <2>2, <2>3
<1>14. CASE Expire
  <2> DEFINE unset(g) == IF seen.link[g] = "half"
                         THEN (IF rec[g].unset = 0 THEN 1 ELSE rec[g].unset) ELSE 0
             r(g) == [rec[g] EXCEPT !.unset = unset(g)]
  <2>1. rec' = [g \in Headsets |-> r(g)]
    BY <1>14, Zenon DEF Expire
  <2>2. ASSUME NEW g \in Headsets PROVE r(g).episode = rec[g].episode
    <3> HIDE DEF unset
    <3> QED
      BY RecordOf, Zenon DEF Record
  <2> HIDE DEF r
  <2>3. NoNewEpisode
    BY <2>1, <2>2 DEF NoNewEpisode
  <2> QED
    BY <1>14, <2>3, NoneStays DEF Expire, Stage
<1>15. ASSUME NEW h \in Headsets, CancelStuck(h) PROVE HeldIsLeftAlone'
  BY <1>15, CancelKeeps, NoneStays DEF CancelStuck, Stage
<1>16. CASE Reconcile
  <2> DEFINE r == [rec[Target] EXCEPT !.tries = @ + 1, !.connecting = TRUE, !.aged = FALSE,
                                      !.in_progress = FALSE]
  <2>1. rec' = rec \/ (Target # None /\ rec' = [rec EXCEPT ![Target] = r])
    BY <1>16, Zenon DEF Reconcile, ReconcileTarget
  <2>2. UNCHANGED <<asked, held>>
    BY <1>16 DEF Reconcile, Stage
  <2> HIDE DEF r
  <2> QED
    BY <2>1, <2>2, TargetFree, TargetTyped DEF HeldIsLeftAlone, TypeOK
<1>17. ASSUME NEW h \in Headsets, NextTryDue(h) \/ ConnectAges(h) \/ HalfAges(h)
       PROVE  HeldIsLeftAlone'
  <2>1. PICK r : rec' = [rec EXCEPT ![h] = r] /\ r.episode = rec[h].episode
    <3>1. CASE NextTryDue(h)
      <4>1. [rec[h] EXCEPT !.wait = FALSE].episode = rec[h].episode
        BY RecordOf, Zenon DEF Record
      <4>2. rec' = [rec EXCEPT ![h] = [rec[h] EXCEPT !.wait = FALSE]]
        BY <3>1, Zenon DEF NextTryDue
      <4> QED
        BY <4>1, <4>2, Zenon
    <3>2. CASE ConnectAges(h)
      <4>1. [rec[h] EXCEPT !.aged = TRUE].episode = rec[h].episode
        BY RecordOf, Zenon DEF Record
      <4>2. rec' = [rec EXCEPT ![h] = [rec[h] EXCEPT !.aged = TRUE]]
        BY <3>2, Zenon DEF ConnectAges
      <4> QED
        BY <4>1, <4>2, Zenon
    <3>3. CASE HalfAges(h)
      <4>1. [rec[h] EXCEPT !.unset = 2].episode = rec[h].episode
        BY RecordOf, Zenon DEF Record
      <4>2. rec' = [rec EXCEPT ![h] = [rec[h] EXCEPT !.unset = 2]]
        BY <3>3, Zenon DEF HalfAges
      <4> QED
        BY <4>1, <4>2, Zenon
    <3> QED
      BY <1>17, <3>1, <3>2, <3>3
  <2>2. UNCHANGED <<asked, held>>
    BY <1>17 DEF NextTryDue, ConnectAges, HalfAges, Waits, wish
  <2> QED
    BY <2>1, <2>2, EpisodeKept, NoneStays
<1>18. CASE PowerDue \/ SleepOverdue \/ CycleAges
  BY <1>18 DEF PowerDue, SleepOverdue, CycleAges, Waits, wish, HeldIsLeftAlone
<1>19. CASE PowerTakes \/ BluezDies \/ BluezStarts
  BY <1>19 DEF PowerTakes, BluezDies, BluezStarts, Changes, wish, HeldIsLeftAlone
<1>20. ASSUME NEW h \in Headsets, ComesUp(h) \/ SetsUp(h) \/ Drops(h) \/ Disconnects(h)
       PROVE  HeldIsLeftAlone'
  BY <1>20 DEF ComesUp, SetsUp, Drops, Disconnects, Changes, wish, HeldIsLeftAlone
<1>21. CASE UNCHANGED vars
  BY <1>21 DEF vars, wish, HeldIsLeftAlone
<1> QED
  BY <1>1, <1>2, <1>3, <1>4, <1>5, <1>6, <1>7, <1>8, <1>9, <1>10, <1>11, <1>12, <1>13, <1>14,
     <1>15, <1>16, <1>17, <1>18, <1>19, <1>20, <1>21, Zenon DEF Next, Pass

-----------------------------------------------------------------------------
(* A sleep's answer stays true.                                              *)

\* After an honest answer nothing is on its way to switch the adapter on.
StaysOff ==
  told = "ok" => ~adapter /\ pend # "on" /\ (~desired \/ sleep # "awake")

\* What neither wakes, asks for power nor moves the adapter keeps it off.
LEMMA OffKept ==
  ASSUME StaysOff, UNCHANGED <<told, sleep, desired>>, adapter' => adapter,
         pend' = "on" => pend = "on"
  PROVE  StaysOff'
  BY DEF StaysOff

\* Without BlueZ the adapter is off and nothing will switch it on.
LEMMA GoneIsOff == ASSUME BluezGone PROVE ~adapter' /\ pend' # "on"
  BY DEF BluezGone

\* No recovery switches the adapter on.
LEMMA RecoverOff ==
  ASSUME NEW wanted, NEW h, NEW look, Recover(wanted, h, look)
  PROVE  (adapter' => adapter) /\ (pend' = "on" => pend = "on")
<1>1. BluezGone \/ UNCHANGED world
  BY Zenon DEF Recover
<1> QED
  BY <1>1, GoneIsOff DEF world

\* Every step keeps the radio dark after an honest answer.
LEMMA OffHolds == ASSUME TypeOK, StaysOff, [Next]_vars PROVE StaysOff'
<1>1. CASE PowerOn \/ Restore
  BY <1>1 DEF PowerOn, SwitchOn, Restore, StaysOff
<1>2. CASE PowerOff
  BY <1>2 DEF PowerOff, sleeping, world, StaysOff
<1>3. CASE Quiesce
  <2>1. UNCHANGED <<desired, adapter, pend>>
    BY <1>3 DEF Quiesce, wish, world
  <2>2. CASE DownAlready
    <3>1. told' = "ok" => ~adapter /\ pend # "on"
      BY <1>3, <2>2 DEF Quiesce, DownAlready, Done, PowerComing
    <3>2. sleep' = sleep /\ (~desired \/ sleep = "down")
      BY <1>3, <2>2 DEF Quiesce, DownAlready
    <3> QED
      BY <2>1, <3>1, <3>2 DEF StaysOff
  <2>3. CASE ~DownAlready
    BY <1>3, <2>3 DEF Quiesce, StaysOff
  <2> QED
    BY <2>2, <2>3
<1>4. ASSUME NEW h \in Headsets, Connect(h) PROVE StaysOff'
  BY <1>4 DEF Connect, SwitchOn, sleeping, world, StaysOff
<1>5. ASSUME NEW h \in Headsets, UserDisconnect(h) PROVE StaysOff'
  BY <1>5, OffKept DEF UserDisconnect, sleeping, world
<1>6. CASE PowerAnswered
  BY <1>6, OffKept DEF PowerAnswered, Arrives, wish, sleeping, world
<1>7. ASSUME NEW late \in BOOLEAN, PowerFailed(late) PROVE StaysOff'
  <2>1. (adapter' => adapter) /\ (pend' = "on" => pend = "on")
    <3> DEFINE restart == powerCall = "on" /\ AtMost(power.failures + 1, MaxFailures) = MaxFailures
    <3>1. CASE restart
      BY <1>7, <3>1, RecoverOff DEF PowerFailed
    <3>2. CASE ~restart
      <4>1. adapter' = adapter
        BY <1>7, <3>2, Zenon DEF PowerFailed
      <4>2. pend' = (IF late THEN pend ELSE "none")
        BY <1>7, <3>2, Zenon DEF PowerFailed
      <4> QED
        BY <4>1, <4>2
    <3> QED
      BY <3>1, <3>2
  <2> QED
    BY <1>7, <2>1, OffKept DEF PowerFailed, Arrives, wish, sleeping
<1>8. ASSUME NEW h \in Headsets, ConnectAnswered(h) PROVE StaysOff'
  BY <1>8, OffKept DEF ConnectAnswered, Arrives, wish, sleeping
<1>9. ASSUME NEW h \in Headsets, ConnectLate(h) PROVE StaysOff'
  BY <1>9, RecoverOff, OffKept DEF ConnectLate, CancelConnect, Arrives, wish, sleeping
<1>10. ASSUME NEW h \in Headsets, Disconnected(h) PROVE StaysOff'
  BY <1>10, OffKept DEF Disconnected, Arrives, wish, sleeping
<1>11. CASE Observe
  BY <1>11, OffKept DEF Observe, Stage, sleeping, world
<1>12. ASSUME NEW h \in Headsets, SeenConnected(h) \/ SeenSetUp(h) \/ SeenDisconnected(h)
       PROVE  StaysOff'
  <2>1. EdgeSeen(h)
    BY <1>12, Zenon DEF SeenConnected, SeenSetUp, SeenDisconnected
  <2> QED
    BY <2>1, OffKept DEF EdgeSeen, Stage, sleeping, world
<1>13. CASE Expire
  BY <1>13, OffKept DEF Expire, Stage, sleeping, world
<1>14. ASSUME NEW h \in Headsets, CancelStuck(h) PROVE StaysOff'
  BY <1>14, RecoverOff, OffKept DEF CancelStuck, CancelConnect, Stage, sleeping
<1>15. CASE Reconcile
  <2>1. UNCHANGED <<desired, adapter>>
    BY <1>15 DEF Reconcile, Stage
  <2>2. pend' = "on" => pend = "on" \/ (desired /\ sleep = "awake")
    BY <1>15 DEF Reconcile, ReconcilePower
  <2>3. CASE UNCHANGED sleeping
    BY <2>1, <2>2, <2>3 DEF sleeping, StaysOff
  <2>4. CASE ~UNCHANGED sleeping
    <3>1. sleep = "going" /\ sleep' = "down" /\ told' = IF seen.on THEN "late" ELSE Done
      BY <1>15, <2>4, Zenon DEF Reconcile, ReconcileSleep
    <3>2. told' = "ok" => ~adapter /\ pend # "on"
      BY <3>1 DEF Done, PowerComing
    <3> QED
      BY <2>1, <2>2, <3>1, <3>2 DEF StaysOff
  <2> QED
    BY <2>3, <2>4
<1>16. ASSUME NEW h \in Headsets, NextTryDue(h) \/ ConnectAges(h) \/ HalfAges(h)
       PROVE  StaysOff'
  BY <1>16, OffKept DEF NextTryDue, ConnectAges, HalfAges, Waits, wish, sleeping, world
<1>17. CASE PowerDue \/ SleepOverdue \/ CycleAges
  BY <1>17, OffKept DEF PowerDue, SleepOverdue, CycleAges, Waits, wish, sleeping, world
<1>18. CASE PowerTakes
  <2>1. adapter' = (pend = "on") /\ pend' = "none"
    BY <1>18, Zenon DEF PowerTakes
  <2>2. UNCHANGED <<told, sleep, desired>>
    BY <1>18 DEF PowerTakes, Changes, wish, sleeping
  <2> QED
    BY <2>1, <2>2 DEF StaysOff
<1>19. CASE BluezDies
  BY <1>19, GoneIsOff, OffKept DEF BluezDies, Changes, wish, sleeping
<1>20. CASE BluezStarts
  BY <1>20, OffKept DEF BluezStarts, Changes, wish, sleeping
<1>21. ASSUME NEW h \in Headsets, ComesUp(h) \/ SetsUp(h) \/ Drops(h) \/ Disconnects(h)
       PROVE  StaysOff'
  BY <1>21, OffKept DEF ComesUp, SetsUp, Drops, Disconnects, Changes, wish, sleeping
<1>22. CASE UNCHANGED vars
  BY <1>22, OffKept DEF vars, wish, sleeping, world
<1> QED
  BY <1>1, <1>2, <1>3, <1>4, <1>5, <1>6, <1>7, <1>8, <1>9, <1>10, <1>11, <1>12, <1>13, <1>14,
     <1>15, <1>16, <1>17, <1>18, <1>19, <1>20, <1>21, <1>22, Zenon DEF Next, Pass

-----------------------------------------------------------------------------
(* What the owner relies on: every step is one of RadioPromise, or does not  *)
(* concern it.                                                               *)

Kept == [Owner!Next]_Owner!vars

\* Nobody is called, parted with or asked on.
Fewer == /\ \A h \in Headsets : conn'[h] # "no" => conn[h] # "no"
         /\ \A h \in Headsets : "owner" \in bye'[h] => "owner" \in bye[h]
         /\ pend' = "on" => pend = "on"

LEMMA FewerEnds == ASSUME Fewer PROVE Owner!Ends
  BY DEF Fewer, Owner!Ends

\* What is under way goes on, ends or is recovered.
LEMMA Around ==
  ASSUME Fewer, UNCHANGED <<desired, sleep, told, asked, held>>, adapter' => adapter \/ pend = "on"
  PROVE  Kept
<1>1. Owner!World
  BY FewerEnds DEF Owner!World
<1> QED
  BY <1>1 DEF Kept, Owner!Next

\* The same with the calls as they were.
LEMMA Beside ==
  ASSUME UNCHANGED <<desired, sleep, told, asked, held, conn, bye, adapter, pend>>
  PROVE  Kept
<1>1. Fewer
  BY DEF Fewer
<1> QED
  BY <1>1, Around

\* BlueZ's end, and any other recovery, ends calls and begins no new one but a cancel.
LEMMA GoneFewer ==
  ASSUME BluezGone PROVE /\ \A h \in Headsets : bye'[h] = {}
                         /\ pend' # "on" /\ ~adapter'
  BY DEF BluezGone

LEMMA RecoverFewer ==
  ASSUME TypeOK, NEW step, NEW h, NEW look, Recover(step, h, look)
  PROVE  /\ \A g \in Headsets : "owner" \in bye'[g] => "owner" \in bye[g]
         /\ pend' = "on" => pend = "on"
<1>1. CASE BluezGone
  BY <1>1, GoneFewer
<1>2. CASE UNCHANGED world /\ (UNCHANGED bye \/ Disconnect(h, "cancel"))
  BY <1>2 DEF Disconnect, world, TypeOK
<1> QED
  BY <1>1, <1>2, Zenon DEF Recover

\* The owner and the sleep.
LEMMA AskedKept ==
  ASSUME TypeOK,
         \/ PowerOn \/ PowerOff \/ Quiesce \/ Restore
         \/ \E h \in Headsets : Connect(h) \/ UserDisconnect(h)
  PROVE  Kept
<1>1. ASSUME Asked, SwitchOn, held' = {}, asked' \in {asked} \cup Headsets PROVE Kept
  <2>1. UNCHANGED conn /\ (UNCHANGED <<bye, world>> \/ BluezGone)
    BY <1>1, Zenon DEF Asked, SwitchOn
  <2>2. Fewer /\ (adapter' => adapter)
    BY <2>1, GoneFewer DEF Fewer, world
  <2>3. Owner!SwitchOn
    BY <1>1, <2>1, <2>2, FewerEnds DEF SwitchOn, Owner!SwitchOn
  <2> QED
    BY <2>3 DEF Kept, Owner!Next
<1>2. CASE PowerOn
  BY <1>1, <1>2 DEF PowerOn
<1>3. CASE PowerOff
  <2>1. Owner!SwitchOff
    BY <1>3 DEF PowerOff, Asked, sleeping, world, Owner!SwitchOff
  <2> QED
    BY <2>1 DEF Kept, Owner!Next
<1>4. CASE Quiesce
  <2>1. UNCHANGED <<desired, asked, held, conn, bye, adapter, pend>>
    BY <1>4 DEF Quiesce, Asked, wish, world
  <2>2. CASE DownAlready
    <3>1. told' = "ok" => ~adapter /\ pend # "on"
      BY <1>4, <2>2 DEF Quiesce, DownAlready, Done, PowerComing
    <3>2. sleep' = sleep /\ (sleep # "awake" \/ ~desired)
      BY <1>4, <2>2 DEF Quiesce, DownAlready
    <3>3. Owner!Answer
      BY <2>1, <3>1, <3>2 DEF Owner!Answer
    <3> QED
      BY <3>3 DEF Kept, Owner!Next
  <2>3. CASE ~DownAlready
    <3>1. Owner!Sleep
      BY <1>4, <2>1, <2>3 DEF Quiesce, Owner!Sleep
    <3> QED
      BY <3>1 DEF Kept, Owner!Next
  <2> QED
    BY <2>2, <2>3
<1>5. CASE Restore
  <2>1. Owner!Wake
    BY <1>5 DEF Restore, Asked, wish, world, Owner!Wake
  <2> QED
    BY <2>1 DEF Kept, Owner!Next
<1>6. ASSUME NEW h \in Headsets, Connect(h) PROVE Kept
  <2>1. CASE desired
    <3>1. /\ asked' = h /\ held' = held \ {h}
          /\ UNCHANGED <<desired, sleep, told, conn, bye, adapter, pend>>
      BY <1>6, <2>1 DEF Connect, Asked, sleeping, world
    <3>2. Owner!Tap(h)
      BY <2>1, <3>1 DEF Owner!Tap
    <3> QED
      BY <3>2 DEF Kept, Owner!Next
  <2>2. CASE ~desired
    <3>1. Asked /\ SwitchOn /\ held' = {} /\ asked' = h
      BY <1>6, <2>2, Zenon DEF Connect
    <3> QED
      BY <1>1, <3>1
  <2> QED
    BY <2>1, <2>2
<1>7. ASSUME NEW h \in Headsets, UserDisconnect(h) PROVE Kept
  <2>1. /\ held' = held \cup {h} /\ asked' = (IF asked = h THEN None ELSE asked)
        /\ UNCHANGED <<desired, sleep, told, conn, adapter, pend>>
    BY <1>7 DEF UserDisconnect, sleeping, world
  <2>2. \A g \in Headsets : "owner" \in bye'[g] => "owner" \in bye[g] \/ g = h
    BY <1>7 DEF UserDisconnect, Disconnect, TypeOK
  <2>3. Owner!Hold(h)
    BY <2>1, <2>2 DEF Owner!Hold
  <2> QED
    BY <2>3 DEF Kept, Owner!Next
<1> QED
  BY <1>2, <1>3, <1>4, <1>5, <1>6, <1>7

\* What BlueZ answers, and what does not come in time.
LEMMA AnswersKept ==
  ASSUME TypeOK,
         \/ PowerAnswered \/ \E late \in BOOLEAN : PowerFailed(late)
         \/ \E h \in Headsets : ConnectAnswered(h) \/ ConnectLate(h) \/ Disconnected(h)
  PROVE  Kept
<1>1. CASE PowerAnswered
  BY <1>1, Beside DEF PowerAnswered, Arrives, wish, sleeping, world
<1>2. ASSUME NEW late \in BOOLEAN, PowerFailed(late) PROVE Kept
  <2>1. UNCHANGED <<desired, sleep, told, asked, held, conn>>
    BY <1>2 DEF PowerFailed, Arrives, wish, sleeping
  <2> DEFINE restart == powerCall = "on" /\ AtMost(power.failures + 1, MaxFailures) = MaxFailures
  <2>2. CASE restart
    <3>1. Recover("bluez_restart", None, dirty \/ ~late)
      BY <1>2, <2>2 DEF PowerFailed
    <3>2. Fewer /\ (adapter' => adapter)
      BY <2>1, <3>1, RecoverFewer, RecoverOff DEF Fewer
    <3> QED
      BY <2>1, <3>2, Around
  <2>3. CASE ~restart
    <3>1. bye' = bye /\ adapter' = adapter
      BY <1>2, <2>3, Zenon DEF PowerFailed
    <3>2. pend' = (IF late THEN pend ELSE "none")
      BY <1>2, <2>3, Zenon DEF PowerFailed
    <3>3. Fewer
      BY <2>1, <3>1, <3>2 DEF Fewer
    <3> QED
      BY <2>1, <3>1, <3>3, Around
  <2> QED
    BY <2>2, <2>3
<1>3. ASSUME NEW h \in Headsets, ConnectAnswered(h) PROVE Kept
  <2>1. /\ conn' = [conn EXCEPT ![h] = "no"]
        /\ UNCHANGED <<desired, sleep, told, asked, held, bye, adapter, pend>>
    BY <1>3 DEF ConnectAnswered, Arrives, wish, sleeping
  <2>2. Fewer
    BY <2>1 DEF Fewer, TypeOK
  <2> QED
    BY <2>1, <2>2, Around
<1>4. ASSUME NEW h \in Headsets, ConnectLate(h) PROVE Kept
  <2>1. /\ conn' = [conn EXCEPT ![h] = "no"] /\ CancelConnect(h)
        /\ UNCHANGED <<desired, sleep, told, asked, held>>
    BY <1>4 DEF ConnectLate, Arrives, wish, sleeping
  <2>2. PICK step : Recover(step, h, dirty)
    BY <2>1, Zenon DEF CancelConnect
  <2>3. Fewer
    BY <2>1, <2>2, RecoverFewer DEF Fewer, TypeOK
  <2>4. adapter' => adapter
    BY <2>2, RecoverOff
  <2> QED
    BY <2>1, <2>3, <2>4, Around
<1>5. ASSUME NEW h \in Headsets, Disconnected(h) PROVE Kept
  BY <1>5, Beside DEF Disconnected, Arrives, wish, sleeping, calls
<1> QED
  BY <1>1, <1>2, <1>3, <1>4, <1>5

\* A pass calls the target alone, which is not held and not during a sleep.
LEMMA PassKept == ASSUME TypeOK, HeldIsLeftAlone, Pass PROVE Kept
<1>1. CASE Observe
  BY <1>1, Beside DEF Observe, Stage, sleeping, calls, world
<1>2. ASSUME NEW h \in Headsets, SeenConnected(h) \/ SeenSetUp(h) \/ SeenDisconnected(h)
      PROVE  Kept
  <2>1. EdgeSeen(h)
    BY <1>2, Zenon DEF SeenConnected, SeenSetUp, SeenDisconnected
  <2> QED
    BY <2>1, Beside DEF EdgeSeen, Stage, sleeping, calls, world
<1>3. CASE Expire
  BY <1>3, Beside DEF Expire, Stage, sleeping, calls, world
<1>4. ASSUME NEW h \in Headsets, CancelStuck(h) PROVE Kept
  <2>1. CancelConnect(h) /\ UNCHANGED <<desired, sleep, told, asked, held, conn>>
    BY <1>4 DEF CancelStuck, Stage, sleeping
  <2>2. PICK step : Recover(step, h, dirty)
    BY <2>1, Zenon DEF CancelConnect
  <2>3. Fewer
    BY <2>1, <2>2, RecoverFewer DEF Fewer
  <2>4. adapter' => adapter
    BY <2>2, RecoverOff
  <2> QED
    BY <2>1, <2>3, <2>4, Around
<1>5. CASE Reconcile
  <2>1. UNCHANGED <<desired, adapter, asked, held>>
    BY <1>5 DEF Reconcile, Stage
  <2>2. pend' = "on" => pend = "on" \/ (desired /\ sleep = "awake")
    BY <1>5 DEF Reconcile, ReconcilePower
  <2>3. /\ (sleep' # "awake") = (sleep # "awake")
        /\ told' = "ok" => told = "ok" \/ (sleep # "awake" /\ ~adapter /\ pend # "on")
    <3>1. ReconcileSleep
      BY <1>5, Zenon DEF Reconcile
    <3>2. CASE UNCHANGED sleeping
      BY <3>2 DEF sleeping
    <3>3. CASE sleep = "going" /\ sleep' = "down" /\ told' = IF seen.on THEN "late" ELSE Done
      BY <3>3 DEF Done, PowerComing
    <3> QED
      BY <3>1, <3>2, <3>3, Zenon DEF ReconcileSleep
  <2>4. \A h \in Headsets : conn'[h] # "no" => conn[h] # "no" \/ (h \notin held /\ sleep = "awake")
    <3>1. \/ UNCHANGED conn
          \/ Target # None /\ sleep = "awake" /\ conn' = [conn EXCEPT ![Target] = "sent"]
      BY <1>5 DEF Reconcile, ReconcileTarget
    <3> QED
      BY <3>1, TargetFree DEF TypeOK
  <2>5. \A g \in Headsets : "owner" \in bye'[g]
                              => "owner" \in bye[g] \/ (asked \notin {None, g} /\ sleep = "awake")
    <3> DEFINE others == {g \in Headsets \ {Target} : seen.link[g] # "down"}
               apart == /\ Target # None /\ seen.on /\ sleep = "awake"
                        /\ seen.link[Target] = "down"
    <3>1. bye' = [g \in Headsets |-> IF apart /\ asked = Target /\ g \in others
                                     THEN bye[g] \cup {"owner"} ELSE bye[g]]
      BY <1>5, Zenon DEF Reconcile, ReconcileTarget
    <3>2. ASSUME NEW g \in Headsets, "owner" \in bye'[g], "owner" \notin bye[g]
          PROVE  asked \notin {None, g} /\ sleep = "awake"
      <4>1. apart /\ asked = Target /\ g \in others
        <5> HIDE DEF apart, others
        <5> QED
          BY <3>1, <3>2
      <4> QED
        BY <4>1
    <3> QED
      BY <3>2
  <2>6. Owner!Work
    BY <2>1, <2>2, <2>3, <2>4, <2>5 DEF Owner!Work
  <2> QED
    BY <2>6 DEF Kept, Owner!Next
<1> QED
  BY <1>1, <1>2, <1>3, <1>4, <1>5 DEF Pass

\* Deadlines, and what BlueZ, the adapter and the headsets do.
LEMMA WorldKept ==
  ASSUME TypeOK,
         \/ \E h \in Headsets : NextTryDue(h) \/ ConnectAges(h) \/ HalfAges(h)
         \/ PowerDue \/ SleepOverdue \/ CycleAges
         \/ PowerTakes \/ BluezDies \/ BluezStarts
         \/ \E h \in Headsets : ComesUp(h) \/ SetsUp(h) \/ Drops(h) \/ Disconnects(h)
  PROVE  Kept
<1>1. ASSUME NEW h \in Headsets, NextTryDue(h) \/ ConnectAges(h) \/ HalfAges(h) PROVE Kept
  BY <1>1, Beside DEF NextTryDue, ConnectAges, HalfAges, Waits, wish, sleeping, calls, world
<1>2. CASE PowerDue \/ SleepOverdue \/ CycleAges
  BY <1>2, Beside DEF PowerDue, SleepOverdue, CycleAges, Waits, wish, sleeping, calls, world
<1>3. CASE PowerTakes
  <2>1. adapter' = (pend = "on") /\ pend' = "none"
    BY <1>3, Zenon DEF PowerTakes
  <2>2. UNCHANGED <<desired, sleep, told, asked, held, conn, bye>>
    BY <1>3 DEF PowerTakes, Changes, wish, sleeping
  <2>3. Fewer
    BY <2>1, <2>2 DEF Fewer
  <2> QED
    BY <2>1, <2>2, <2>3, Around
<1>4. CASE BluezDies
  <2>1. BluezGone /\ UNCHANGED <<desired, sleep, told, asked, held, conn>>
    BY <1>4 DEF BluezDies, Changes, wish, sleeping
  <2>2. Fewer /\ ~adapter'
    BY <2>1, GoneFewer DEF Fewer
  <2> QED
    BY <2>1, <2>2, Around
<1>5. CASE BluezStarts
  BY <1>5, Beside DEF BluezStarts, Changes, wish, sleeping
<1>6. ASSUME NEW h \in Headsets, ComesUp(h) PROVE Kept
  <2>1. UNCHANGED <<desired, sleep, told, asked, held, bye, adapter, pend>>
    BY <1>6 DEF ComesUp, Changes, wish, sleeping
  <2>2. conn' = [conn EXCEPT ![h] = IF conn[h] = "sent" /\ page[h] THEN "made" ELSE conn[h]]
    BY <1>6, Zenon DEF ComesUp
  <2>3. Fewer
    BY <2>1, <2>2 DEF Fewer, TypeOK
  <2> QED
    BY <2>1, <2>3, Around
<1>7. ASSUME NEW h \in Headsets, SetsUp(h) \/ Drops(h) PROVE Kept
  BY <1>7, Beside DEF SetsUp, Drops, Changes, wish, sleeping
<1>8. ASSUME NEW h \in Headsets, Disconnects(h) PROVE Kept
  <2>1. UNCHANGED <<desired, sleep, told, asked, held, conn, adapter, pend>>
    BY <1>8 DEF Disconnects, Changes, wish, sleeping
  <2>2. bye' = [bye EXCEPT ![h] = {}]
    BY <1>8, Zenon DEF Disconnects
  <2>3. Fewer
    BY <2>1, <2>2 DEF Fewer, TypeOK
  <2> QED
    BY <2>1, <2>3, Around
<1> QED
  BY <1>1, <1>2, <1>3, <1>4, <1>5, <1>6, <1>7, <1>8

-----------------------------------------------------------------------------
(* The theorems.                                                             *)

\* The claims hold at the start.
LEMMA InitHolds == ASSUME Init PROVE TypeOK /\ HeldIsLeftAlone /\ StaysOff
<1>1. rec \in [Headsets -> Record]
  BY FreshTyped DEF Init
<1>2. power \in [failures : 0..MaxFailures, wait : BOOLEAN] /\ events \in 0..MaxEvents
  BY RadioAssumption DEF Init
<1>3. used \in [Rungs -> 0..Budget]
  BY RadioAssumption DEF Init
<1>4. TypeOK
  BY <1>1, <1>2, <1>3 DEF Init, TypeOK, Links, Ends
<1> QED
  BY <1>4 DEF Init, HeldIsLeftAlone, StaysOff

\* The controller's variables keep their types; no headset is paged more often than its
\* episode allows and no recovery step taken more often than its budget (bt/*.rs).
THEOREM TypeCorrect == Spec => []TypeOK
  BY InitHolds, NextTyped, PTL DEF Spec

\* The owner's disconnect holds against every link that ends, every look and every
\* recovery, for any number of headsets (requests.rs, reconcile.rs, mod.rs target).
THEOREM HeldAlone == Spec => []HeldIsLeftAlone
  BY InitHolds, NextTyped, HeldKept, PTL DEF Spec

\* A sleep that heard an honest answer keeps a dark radio (reconcile.rs, requests.rs).
THEOREM StaysDown == Spec => []DownUntilWoken
<1>1. StaysOff => DownUntilWoken
  BY DEF StaysOff, DownUntilWoken
<1> QED
  BY <1>1, InitHolds, NextTyped, OffHolds, PTL DEF Spec

\* The controller refines RadioPromise: it calls no headset the owner disconnected and none
\* during a sleep, parts with one only for another that was tapped, asks the adapter on only
\* when it is wanted and nobody sleeps, and what a sleep was told stays true (reconcile.rs).
THEOREM MannersKept == Spec => ImplementsRadioPromise
<1>1. Init => Owner!Init
  BY DEF Init, Owner!Init
<1>2. TypeOK /\ HeldIsLeftAlone /\ [Next]_vars => Kept
  <2>1. UNCHANGED vars => Kept
    BY Beside DEF vars, wish, sleeping, calls, world
  <2> QED
    BY <2>1, AskedKept, AnswersKept, PassKept, WorldKept DEF Next
<1>3. TypeOK /\ HeldIsLeftAlone /\ [Next]_vars => [Owner!Next]_Owner!vars
  BY <1>2 DEF Kept
<1> QED
  BY <1>1, <1>3, TypeCorrect, HeldAlone, PTL DEF Spec, ImplementsRadioPromise, Owner!Spec
==============================================================================
