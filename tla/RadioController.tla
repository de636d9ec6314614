--------------------------- MODULE RadioController ---------------------------
(***************************************************************************)
(* The Bluetooth controller of y2-radiod: the one thread that powers the   *)
(* adapter, takes it down for a sleep, connects the owner's headset and    *)
(* recovers what sticks (platform/crates/y2-radiod/src/bt).                *)
(*                                                                         *)
(* The thread drains what arrived (answers, signals, requests) and then    *)
(* makes a pass: it looks at BlueZ, notices what changed, expires what is  *)
(* late and moves one step toward the owner's wish.  A pass reads only     *)
(* what its look copied and only sends calls, so BlueZ and the owner act   *)
(* while "at" is "drain"; every handler and every stage of a pass is an    *)
(* action of its own.                                                      *)
(***************************************************************************)
EXTENDS Naturals

CONSTANTS
  Headsets,     \* paired, trusted audio devices BlueZ knows
  None,         \* no headset
  Tries,        \* pages of an episode (links.rs: 3)
  Budget,       \* how often each recovery step may be taken (ladder.rs: BUDGET)
  QuickDrops,   \* quick drops in a row that park a headset (links.rs: QUICK_DROPS)
  MaxFailures,  \* failed power-ons in a row that restart BlueZ (answers.rs: 3)
  MaxEvents     \* bound: requests, and failures of BlueZ, of its calls and of links

ASSUME RadioAssumption ==
  /\ None \notin Headsets
  /\ Tries \in Nat \ {0}
  /\ Budget \in Nat \ {0}
  /\ QuickDrops \in Nat \ {0}
  /\ MaxFailures \in Nat \ {0}
  /\ MaxEvents \in Nat

VARIABLES
  \* the owner's wish
  desired,      \* Bluetooth is wanted on
  preferred,    \* the headset to reconnect
  asked,        \* the headset the owner tapped
  held,         \* disconnected by the owner: left alone until asked again
  \* a sleep
  sleep,        \* "awake", "going" (clients wait), "down"
  overdue,      \* a sleep's 15 s have passed
  told,         \* what the last Quiesce was answered: "ok", "late", or "racing"
                \* when it was ok while a power-on was under way
  \* what the controller saw at its last look
  seen,
  dirty, run, at, stuck,
  \* its own records
  rec, reasons, power, cycle, used, failed,
  \* its calls in flight
  powerCall, conn, bye,
  \* BlueZ, the adapter and the headsets
  bluez, adapter, pend, page, link, signal,
  events

wish == <<desired, preferred, asked, held>>
sleeping == <<sleep, overdue, told>>
loop == <<dirty, run, at, stuck>>
recovery == <<cycle, used, failed>>
calls == <<powerCall, conn, bye>>
world == <<bluez, adapter, pend, page, link, signal>>
vars == <<wish, sleeping, seen, loop, rec, reasons, power, recovery, calls, world, events>>

Rungs == {"cancel_page", "power_cycle", "bluez_restart"}
Ends == {"Timeout", "Remote", "Local", "Sleep", "User", "Unknown"}
Links == {"down", "half", "up"}
NoReason == "none"
Episodes == {"none", "power_on", "user", "lost", "look"}

Record == [episode : Episodes, tries : 0..Tries, wait : BOOLEAN,
           connecting : BOOLEAN, aged : BOOLEAN, in_progress : BOOLEAN,
           parked : BOOLEAN, cancels : 0..2, since : BOOLEAN,
           unset : 0..2, drops : 0..QuickDrops]

\* Record::default
Fresh == [episode |-> "none", tries |-> 0, wait |-> FALSE,
          connecting |-> FALSE, aged |-> FALSE, in_progress |-> FALSE,
          parked |-> FALSE, cancels |-> 0, since |-> FALSE,
          unset |-> 0, drops |-> 0]

TypeOK ==
  /\ desired \in BOOLEAN
  /\ preferred \in Headsets \cup {None}
  /\ asked \in Headsets \cup {None}
  /\ held \subseteq Headsets
  /\ sleep \in {"awake", "going", "down"}
  /\ overdue \in BOOLEAN
  /\ told \in {"none", "ok", "racing", "late"}
  /\ seen \in [known : BOOLEAN, on : BOOLEAN, link : [Headsets -> Links]]
  /\ dirty \in BOOLEAN
  /\ run \in BOOLEAN
  /\ at \in {"drain", "edges", "expire", "cancel", "reconcile"}
  /\ stuck \subseteq Headsets
  /\ rec \in [Headsets -> Record]
  /\ reasons \in [Headsets -> Ends \cup {NoReason}]
  /\ power \in [failures : 0..MaxFailures, wait : BOOLEAN]
  /\ cycle \in {"no", "on", "old"}
  /\ used \in [Rungs -> 0..Budget]
  /\ failed \in BOOLEAN
  /\ powerCall \in {"none", "on", "off"}
  /\ conn \in [Headsets -> {"no", "sent", "made"}]
  /\ bye \in [Headsets -> SUBSET {"cancel", "owner"}]
  /\ bluez \in BOOLEAN
  /\ adapter \in BOOLEAN
  /\ pend \in {"none", "on", "off", "dead"}
  /\ page \in [Headsets -> BOOLEAN]
  /\ link \in [Headsets -> Links]
  /\ signal \in [Headsets -> Ends \cup {NoReason}]
  /\ events \in 0..MaxEvents

Init ==
  /\ desired = TRUE
  /\ preferred \in Headsets \cup {None}
  /\ asked = None
  /\ held = {}
  /\ sleep = "awake" /\ overdue = FALSE /\ told = "none"
  /\ seen = [known |-> FALSE, on |-> FALSE, link |-> [h \in Headsets |-> "down"]]
  /\ dirty = TRUE /\ run = TRUE /\ at = "drain" /\ stuck = {}
  /\ rec = [h \in Headsets |-> Fresh]
  /\ reasons = [h \in Headsets |-> NoReason]
  /\ power = [failures |-> 0, wait |-> FALSE]
  /\ cycle = "no"
  /\ used = [r \in Rungs |-> 0]
  /\ failed = FALSE
  /\ powerCall = "none"
  /\ conn = [h \in Headsets |-> "no"]
  /\ bye = [h \in Headsets |-> {}]
  /\ bluez = TRUE /\ adapter = FALSE /\ pend = "none"
  /\ page = [h \in Headsets |-> FALSE]
  /\ link = [h \in Headsets |-> "down"]
  /\ signal = [h \in Headsets |-> NoReason]
  /\ events = 0

-----------------------------------------------------------------------------
(* Episodes and the recovery ladder.                                         *)

AtMost(n, most) == IF n > most THEN most ELSE n

Limit(e) == IF e = "look" THEN 1 ELSE Tries

\* Slip: the owner's disconnect does not hold the preferred headset back.
TargetHeld == IF asked # None THEN asked ELSE preferred

\* The headset to keep connected: the one tapped, else the preferred one.
Target ==
  IF asked # None THEN asked
  ELSE IF preferred \notin held THEN preferred ELSE None

\* The episode a trigger starts; the owner's own disconnect and a sleep start none.
Start(trigger) ==
  CASE trigger = "power_on"                       -> "power_on"
    [] trigger = "user"                           -> "user"
    [] trigger \in {"Timeout", "Local", "Unknown"} -> "lost"
    [] trigger = "Remote"                         -> "look"
    [] OTHER                                      -> "none"

\* Only the owner's tap is tried at once; a lost link keeps its count of drops.
Triggered(r, trigger) ==
  [r EXCEPT !.parked = FALSE, !.cancels = 0,
            !.drops = IF trigger \in {"power_on", "user"} THEN 0 ELSE @,
            !.episode = Start(trigger), !.tries = 0,
            !.wait = Start(trigger) \notin {"none", "user"}]

\* Slip: every failure starts the count over.
TryFailedAnew(r) ==
  IF r.episode # "none" /\ r.tries < Limit(r.episode)
  THEN [r EXCEPT !.wait = TRUE, !.tries = 0]
  ELSE [r EXCEPT !.parked = TRUE, !.episode = "none", !.tries = 0, !.wait = FALSE]

\* A try failed: the next one is due later, or the headset is parked.
TryFailed(r) ==
  IF r.episode # "none" /\ r.tries < Limit(r.episode)
  THEN [r EXCEPT !.wait = TRUE]
  ELSE [r EXCEPT !.parked = TRUE, !.episode = "none", !.tries = 0, !.wait = FALSE]

\* Slip: one more than the budget.
LeftOnce(step) == used[step] <= Budget

Left(step) == used[step] < Budget

\* The step for a problem that first calls for this one: it, or the next one up
\* whose budget is not spent.
Choose(wanted) ==
  IF wanted = "cancel_page" /\ Left("cancel_page") THEN "cancel_page"
  ELSE IF wanted # "bluez_restart" /\ Left("power_cycle") THEN "power_cycle"
  ELSE IF Left("bluez_restart") THEN "bluez_restart"
  ELSE "none"

\* BlueZ ends: its links with it, and what it was asked is answered by the bus.
BluezGone ==
  /\ bluez' = FALSE
  /\ adapter' = FALSE
  /\ pend' = IF powerCall' = "none" THEN "none" ELSE "dead"
  /\ page' = [h \in Headsets |-> FALSE]
  /\ link' = [h \in Headsets |-> "down"]
  /\ bye' = [h \in Headsets |-> {}]
  /\ UNCHANGED signal

\* Device1.Disconnect, when BlueZ and the device are known.
Disconnect(h, kind) == bye' = [bye EXCEPT ![h] = IF seen.known THEN @ \cup {kind} ELSE @]

\* Take a recovery step, or fail when none is left.
Recover(wanted, h, look) ==
  LET step == Choose(wanted) IN
  /\ failed' = (step = "none")
  /\ used' = [r \in Rungs |-> IF r = step THEN used[r] + 1 ELSE used[r]]
  /\ cycle' = IF step = "power_cycle" THEN "on" ELSE cycle
  /\ dirty' = (look \/ step # "none")
  /\ IF step = "bluez_restart"
     THEN BluezGone
     ELSE /\ UNCHANGED world
          /\ IF step = "cancel_page" THEN Disconnect(h, "cancel") ELSE UNCHANGED bye

-----------------------------------------------------------------------------
(* What the owner and the sleep ask.                                         *)

Event == events < MaxEvents /\ events' = events + 1
Calm == UNCHANGED events

Asked == /\ at = "drain"
         /\ Event
         /\ run' = TRUE
         /\ UNCHANGED <<at, stuck, seen, reasons, conn, powerCall>>

\* BluetoothPower on, also from a tap while it is off: what was disconnected may
\* connect again and the budgets start over; after a failure BlueZ starts again.
\* Whoever waits for a sleep's power-down is dropped without an answer.
SwitchOn ==
  /\ desired' = TRUE
  /\ sleep' = "awake" /\ overdue' = FALSE /\ told' = "none"
  /\ power' = [power EXCEPT !.wait = FALSE]
  /\ used' = [r \in Rungs |-> 0]
  /\ failed' = FALSE
  /\ IF failed \/ ~seen.known THEN BluezGone ELSE UNCHANGED <<bye, world>>
  /\ dirty' = TRUE

PowerOn ==
  /\ Asked
  /\ SwitchOn
  /\ held' = {}
  /\ UNCHANGED <<preferred, asked, cycle, rec>>

PowerOff ==
  /\ Asked
  /\ desired' = FALSE
  /\ asked' = None
  /\ power' = [power EXCEPT !.wait = FALSE]
  /\ dirty' = TRUE
  /\ UNCHANGED <<preferred, held, sleeping, rec, recovery, bye, world>>

Connect(h) ==
  /\ Asked
  /\ seen.known
  /\ IF desired
     THEN /\ held' = held \ {h}
          /\ dirty' = TRUE
          /\ UNCHANGED <<desired, sleeping, power, used, failed, bye, world>>
     ELSE SwitchOn /\ held' = {}
  /\ asked' = h
  /\ rec' = [rec EXCEPT ![h] = Triggered(@, "user")]
  /\ UNCHANGED <<preferred, cycle>>

UserDisconnect(h) ==
  /\ at = "drain"
  /\ Event
  /\ run' = TRUE /\ dirty' = TRUE
  /\ held' = held \cup {h}
  /\ asked' = IF asked = h THEN None ELSE asked
  /\ rec' = [rec EXCEPT ![h].episode = "none", ![h].tries = 0, ![h].wait = FALSE]
  /\ reasons' = [reasons EXCEPT ![h] = IF seen.known THEN "User" ELSE @]
  /\ Disconnect(h, "owner")
  /\ UNCHANGED <<desired, preferred, sleeping, seen, at, stuck, power, recovery,
                 powerCall, conn, world>>

\* The adapter is on, or BlueZ will switch it on, and no look has shown it yet.
PowerComing == ~seen.on /\ (adapter \/ pend = "on")
Done == IF PowerComing THEN "racing" ELSE "ok"

\* Slip: down is what the last look saw, whatever the owner wants.
DownBySight == ~seen.on

DownAlready == ~seen.on /\ (~desired \/ sleep = "down")

\* A sleep: answered now when Bluetooth is off for good or already down.
Quiesce ==
  /\ Asked
  /\ dirty' = TRUE
  /\ IF DownAlready
     THEN /\ told' = Done
          /\ UNCHANGED <<sleep, overdue, power>>
     ELSE /\ sleep' = "going" /\ told' = "none"
          /\ overdue' = (sleep = "going" /\ overdue)
          /\ power' = IF sleep = "going" THEN power ELSE [power EXCEPT !.wait = FALSE]
  /\ UNCHANGED <<wish, rec, recovery, bye, world>>

\* A wake: whoever still waits hears that the power-down ended.
Restore ==
  /\ Asked
  /\ dirty' = TRUE
  /\ sleep' = "awake" /\ overdue' = FALSE /\ told' = "none"
  /\ UNCHANGED <<wish, rec, power, recovery, bye, world>>

-----------------------------------------------------------------------------
(* Answers and signals.                                                      *)

Arrives == /\ at = "drain"
           /\ run' = TRUE
           /\ UNCHANGED <<wish, sleeping, at, stuck, seen>>

\* powered: the adapter did as asked.
PowerAnswered ==
  /\ Arrives
  /\ Calm
  /\ powerCall # "none" /\ pend = "none"
  /\ powerCall' = "none"
  /\ power' = [power EXCEPT !.failures = 0]
  /\ dirty' = TRUE
  /\ UNCHANGED <<rec, reasons, recovery, conn, bye, world>>

\* powered: refused, lost with BlueZ, or not answered in time (BlueZ may still do
\* it).  The next try waits; a power-on that fails for the third time in a row
\* restarts BlueZ.
PowerFailed(late) ==
  /\ Arrives
  /\ powerCall # "none" /\ pend # "none"
  /\ late => pend # "dead"
  /\ IF pend = "dead" THEN Calm ELSE Event
  /\ powerCall' = "none"
  /\ LET count == AtMost(power.failures + 1, MaxFailures)
         restart == powerCall = "on" /\ count = MaxFailures
     IN  /\ power' = [failures |-> IF restart THEN 0 ELSE count, wait |-> TRUE]
         /\ IF restart
            THEN Recover("bluez_restart", None, dirty \/ ~late)
            ELSE /\ pend' = IF late THEN pend ELSE "none"
                 /\ dirty' = (dirty \/ ~late)
                 /\ UNCHANGED <<recovery, bye, bluez, adapter, page, link, signal>>
  /\ UNCHANGED <<rec, reasons, conn>>

\* connect_answer: what it does to the record, by what BlueZ says.
ConnectOk(h) ==
  /\ Calm
  /\ conn[h] = "made"
  /\ rec' = [rec EXCEPT ![h].connecting = FALSE, ![h].episode = "none", ![h].tries = 0,
                        ![h].wait = FALSE, ![h].parked = FALSE]
  /\ UNCHANGED page

ConnectAlready(h) ==
  /\ Calm
  /\ link[h] # "down"
  /\ rec' = [rec EXCEPT ![h].connecting = FALSE]
  /\ page' = [page EXCEPT ![h] = FALSE]

\* BlueZ connects the headset already: give it time.
ConnectBusy(h) ==
  /\ Event
  /\ conn[h] = "sent"
  /\ rec' = [rec EXCEPT ![h].in_progress = TRUE, ![h].connecting = TRUE,
                        ![h].aged = FALSE]
  /\ page' = [page EXCEPT ![h] = FALSE]

\* A link that is up although the call failed is left to come up.
ConnectError(h) ==
  /\ Calm
  /\ LET r == [rec[h] EXCEPT !.connecting = FALSE, !.in_progress = FALSE] IN
     rec' = [rec EXCEPT ![h] = IF seen.link[h] # "down" THEN r ELSE TryFailed(r)]
  /\ page' = [page EXCEPT ![h] = FALSE]

ConnectAnswered(h) ==
  /\ Arrives
  /\ conn[h] # "no"
  /\ conn' = [conn EXCEPT ![h] = "no"]
  /\ \/ ConnectOk(h)
     \/ ConnectAlready(h)
     \/ ConnectBusy(h)
     \/ ConnectError(h)
  /\ dirty' = TRUE
  /\ UNCHANGED <<reasons, power, recovery, powerCall, bye, bluez, adapter, pend, link, signal>>

\* A connect stopped moving: count the try and take a recovery step, the second
\* time the adapter's power cycle.
CancelConnect(h) ==
  LET r == [TryFailed(rec[h]) EXCEPT !.connecting = FALSE, !.in_progress = FALSE,
                                     !.since = FALSE, !.cancels = AtMost(@ + 1, 2)]
  IN  /\ rec' = [rec EXCEPT ![h] = r]
      /\ Recover(IF r.cancels = 2 THEN "power_cycle" ELSE "cancel_page", h, dirty)

\* No answer in 35 s; BlueZ may still page.
ConnectLate(h) ==
  /\ Event
  /\ Arrives
  /\ conn[h] = "sent" /\ page[h]
  /\ conn' = [conn EXCEPT ![h] = "no"]
  /\ UNCHANGED <<reasons, power, powerCall>>
  /\ CancelConnect(h)

\* The Disconnected signal names whose side ended the link; during a sleep it is
\* the sleep.
Disconnected(h) ==
  /\ Calm
  /\ Arrives
  /\ signal[h] # NoReason
  /\ reasons' = [reasons EXCEPT ![h] = IF sleep = "awake" THEN signal[h] ELSE "Sleep"]
  /\ signal' = [signal EXCEPT ![h] = NoReason]
  /\ dirty' = TRUE
  /\ UNCHANGED <<rec, power, recovery, calls, bluez, adapter, pend, page, link>>

-----------------------------------------------------------------------------
(* A pass.                                                                   *)

Stage(now) == /\ at = now
              /\ Calm
              /\ UNCHANGED <<desired, asked, held>>

Disagree(looked) == {h \in Headsets : looked.link[h] # link[h]}

\* The look, when a signal asked for one.  Without BlueZ every record goes; an
\* adapter that came on starts an episode for the headset to keep connected,
\* unless the owner's tap has one.
Observe ==
  /\ Stage("drain")
  /\ run
  /\ run' = FALSE /\ dirty' = FALSE
  /\ IF dirty
     THEN /\ seen' = [known |-> bluez, on |-> adapter,
                      link |-> IF bluez THEN seen.link ELSE link]
          /\ LET came == adapter /\ ~seen.on /\ sleep = "awake" /\ Target # None
                 tapped == asked # None /\ rec[asked].episode = "user"
             IN  rec' = IF ~bluez THEN [h \in Headsets |-> Fresh]
                        ELSE IF came /\ ~tapped
                        THEN [rec EXCEPT ![Target] = Triggered(@, "power_on")]
                        ELSE rec
          /\ at' = IF Disagree(seen') = {} THEN "expire" ELSE "edges"
     ELSE at' = "expire" /\ UNCHANGED <<seen, rec>>
  /\ UNCHANGED <<preferred, sleeping, stuck, reasons, power, recovery, calls, world>>

EdgeSeen(h) ==
  /\ Stage("edges")
  /\ seen' = [seen EXCEPT !.link[h] = link[h]]
  /\ at' = IF Disagree(seen') = {} THEN "expire" ELSE "edges"
  /\ UNCHANGED <<sleeping, run, stuck, dirty, power, recovery, calls, world>>

\* A headset that connects is the one to reconnect from now on.
SeenConnected(h) ==
  /\ seen.link[h] = "down" /\ link[h] # "down"
  /\ EdgeSeen(h)
  /\ preferred' = h
  /\ rec' = [rec EXCEPT ![h] = [@ EXCEPT !.since = TRUE, !.connecting = FALSE,
                                         !.in_progress = FALSE, !.episode = "none",
                                         !.tries = 0, !.wait = FALSE, !.parked = FALSE]]
  /\ UNCHANGED reasons

SeenSetUp(h) ==
  /\ "down" \notin {seen.link[h], link[h]} /\ seen.link[h] # link[h]
  /\ EdgeSeen(h)
  /\ UNCHANGED <<preferred, rec, reasons>>

\* A link that ended: the headset to keep connected gets an episode by how it
\* ended, or is parked after too many quick drops.
SeenDisconnected(h) ==
  /\ seen.link[h] # "down" /\ link[h] = "down"
  /\ EdgeSeen(h)
  /\ reasons' = [reasons EXCEPT ![h] = NoReason]
  /\ \E young \in BOOLEAN :
       LET ended == IF reasons[h] # NoReason THEN reasons[h]
                    ELSE IF sleep = "awake" THEN "Unknown" ELSE "Sleep"
           quick == young /\ rec[h].since /\ ended \notin {"Sleep", "User"}
           r == [rec[h] EXCEPT !.since = FALSE,
                               !.drops = IF quick THEN AtMost(@ + 1, QuickDrops) ELSE 0]
       IN  rec' = [rec EXCEPT ![h] =
                     IF Target # h \/ ~seen.on THEN r
                     ELSE IF r.drops < QuickDrops THEN Triggered(r, ended)
                     ELSE [r EXCEPT !.parked = TRUE, !.episode = "none", !.tries = 0,
                                    !.wait = FALSE]]
  /\ UNCHANGED preferred

\* Links that are not set up since 8 s and connects BlueZ has in progress since
\* 12 s are stuck.
Expire ==
  /\ Stage("expire")
  /\ rec' = [h \in Headsets |->
               [rec[h] EXCEPT !.unset = IF seen.link[h] = "half" THEN (IF @ = 0 THEN 1 ELSE @) ELSE 0]]
  /\ stuck' = {h \in Headsets :
                 \/ /\ rec[h].in_progress /\ rec[h].connecting /\ rec[h].aged
                    /\ seen.link[h] = "down"
                 \/ rec'[h].unset = 2}
  /\ at' = IF stuck' = {} THEN "reconcile" ELSE "cancel"
  /\ UNCHANGED <<preferred, sleeping, seen, dirty, run, reasons, power, recovery, calls, world>>

CancelStuck(h) ==
  /\ Stage("cancel")
  /\ h \in stuck
  /\ stuck' = stuck \ {h}
  /\ at' = IF stuck' = {} THEN "reconcile" ELSE "cancel"
  /\ UNCHANGED <<preferred, sleeping, seen, run, reasons, power, powerCall, conn>>
  /\ CancelConnect(h)

\* Slip: looked at behind the return for an adapter that is as it should be.
CycleOverBehind == seen.known /\ seen.on /\ cycle = "old"

\* A power cycle's off half is done, or did not come in 20 s.
CycleOver == seen.known /\ (~seen.on \/ cycle = "old")

\* The adapter follows the owner's switch, a sleep and a recovery's power cycle.
ReconcilePower ==
  /\ cycle' = IF CycleOver THEN "no" ELSE cycle
  /\ LET want == desired /\ sleep = "awake" /\ cycle' = "no"
         send == seen.known /\ seen.on # want /\ powerCall = "none" /\ ~power.wait
     IN  /\ power' = IF seen.known /\ seen.on = want THEN [power EXCEPT !.failures = 0] ELSE power
         /\ powerCall' = IF send THEN (IF want THEN "on" ELSE "off") ELSE powerCall
         /\ pend' = IF ~send THEN pend ELSE IF bluez THEN powerCall' ELSE "dead"

\* A sleep is answered once the adapter is seen off, or after 15 s.
ReconcileSleep ==
  IF sleep = "going" /\ (~seen.on \/ overdue)
  THEN /\ sleep' = "down" /\ overdue' = FALSE
       /\ told' = IF seen.on THEN "late" ELSE Done
  ELSE UNCHANGED sleeping

\* A headset with a try that is due and nothing of it under way.
Due(h) ==
  /\ conn[h] = "no" /\ "cancel" \notin bye[h] /\ ~rec[h].connecting
  /\ rec[h].episode # "none" /\ rec[h].tries < Limit(rec[h].episode) /\ ~rec[h].wait

\* The headset to keep connected is paged when its episode says so; another one
\* that is connected is displaced by the owner's tap only.
ReconcileTarget ==
  LET h == Target
      others == {g \in Headsets \ {h} : seen.link[g] # "down"}
      apart == h # None /\ seen.on /\ sleep = "awake" /\ seen.link[h] = "down"
  IN  /\ bye' = [g \in Headsets |-> IF apart /\ asked = h /\ g \in others
                                    THEN bye[g] \cup {"owner"} ELSE bye[g]]
      /\ IF apart /\ others = {} /\ Due(h)
         THEN /\ rec' = [rec EXCEPT ![h].tries = @ + 1, ![h].connecting = TRUE,
                                    ![h].aged = FALSE, ![h].in_progress = FALSE]
              /\ conn' = [conn EXCEPT ![h] = "sent"]
              /\ page' = [page EXCEPT ![h] = adapter /\ link[h] = "down"]
         ELSE UNCHANGED <<rec, conn, page>>

Reconcile ==
  /\ Stage("reconcile")
  /\ at' = "drain" /\ run' = dirty
  /\ ReconcilePower
  /\ ReconcileSleep
  /\ ReconcileTarget
  /\ UNCHANGED <<preferred, seen, dirty, stuck, reasons, used, failed,
                 bluez, adapter, link, signal>>

Pass ==
  \/ Observe
  \/ \E h \in Headsets : SeenConnected(h) \/ SeenSetUp(h) \/ SeenDisconnected(h)
  \/ Expire
  \/ \E h \in Headsets : CancelStuck(h)
  \/ Reconcile

-----------------------------------------------------------------------------
(* Deadlines: time passes only while the thread waits.                       *)

Waits == /\ at = "drain"
         /\ Calm
         /\ run' = TRUE
         /\ UNCHANGED <<wish, seen, dirty, at, stuck, reasons, recovery, calls, world>>

NextTryDue(h) ==
  /\ rec[h].wait
  /\ Waits
  /\ rec' = [rec EXCEPT ![h].wait = FALSE]
  /\ UNCHANGED <<sleeping, power>>

ConnectAges(h) ==
  /\ rec[h].connecting /\ rec[h].in_progress /\ ~rec[h].aged
  /\ Waits
  /\ rec' = [rec EXCEPT ![h].aged = TRUE]
  /\ UNCHANGED <<sleeping, power>>

HalfAges(h) ==
  /\ rec[h].unset = 1
  /\ Waits
  /\ rec' = [rec EXCEPT ![h].unset = 2]
  /\ UNCHANGED <<sleeping, power>>

PowerDue ==
  /\ power.wait
  /\ Waits
  /\ power' = [power EXCEPT !.wait = FALSE]
  /\ UNCHANGED <<sleeping, rec>>

SleepOverdue ==
  /\ sleep = "going" /\ ~overdue
  /\ Waits
  /\ overdue' = TRUE
  /\ UNCHANGED <<sleep, told, power, rec>>

CycleAges ==
  /\ at = "drain"
  /\ Calm
  /\ cycle = "on"
  /\ cycle' = "old"
  /\ run' = TRUE
  /\ UNCHANGED <<wish, sleeping, seen, dirty, at, stuck, rec, reasons, power, used, failed, calls, world>>

-----------------------------------------------------------------------------
(* BlueZ, the adapter and the headsets.                                      *)

Changes == /\ at = "drain"
           /\ dirty' = TRUE /\ run' = TRUE
           /\ UNCHANGED <<wish, sleeping, seen, at, stuck, rec, reasons, power, recovery, powerCall>>

PowerTakes ==
  /\ Changes
  /\ Calm
  /\ pend \in {"on", "off"}
  /\ adapter' = (pend = "on")
  /\ pend' = "none"
  /\ IF adapter'
     THEN UNCHANGED <<page, link, signal>>
     ELSE /\ page' = [h \in Headsets |-> FALSE]
          /\ link' = [h \in Headsets |-> "down"]
          /\ signal' = [h \in Headsets |-> IF link[h] # "down" THEN "Unknown" ELSE signal[h]]
  /\ UNCHANGED <<conn, bye, bluez>>

\* A page succeeds, or the headset connects by itself.
ComesUp(h) ==
  /\ Changes
  /\ adapter /\ link[h] = "down"
  /\ \/ Calm /\ link' = [link EXCEPT ![h] = "up"]
     \/ Event /\ link' = [link EXCEPT ![h] = "half"]
  /\ page' = [page EXCEPT ![h] = FALSE]
  /\ conn' = [conn EXCEPT ![h] = IF @ = "sent" /\ page[h] THEN "made" ELSE @]
  /\ UNCHANGED <<bye, bluez, adapter, pend, signal>>

SetsUp(h) ==
  /\ Changes
  /\ Calm
  /\ link[h] = "half"
  /\ link' = [link EXCEPT ![h] = "up"]
  /\ UNCHANGED <<conn, bye, bluez, adapter, pend, page, signal>>

Drops(h) ==
  /\ Changes
  /\ Event
  /\ link[h] # "down"
  /\ link' = [link EXCEPT ![h] = "down"]
  /\ \E reason \in {"Timeout", "Remote"} : signal' = [signal EXCEPT ![h] = reason]
  /\ UNCHANGED <<conn, bye, bluez, adapter, pend, page>>

\* A Disconnect ends the link or the page, or fails.  (One without an answer in
\* 10 s asks for no look; the look it gets here finds nothing more.)
Disconnects(h) ==
  /\ Changes
  /\ bye[h] # {}
  /\ bye' = [bye EXCEPT ![h] = {}]
  /\ \/ /\ Calm
        /\ link' = [link EXCEPT ![h] = "down"]
        /\ page' = [page EXCEPT ![h] = FALSE]
        /\ signal' = [signal EXCEPT ![h] = IF link[h] # "down" THEN "Local" ELSE @]
     \/ Event /\ UNCHANGED <<link, page, signal>>
  /\ UNCHANGED <<conn, bluez, adapter, pend>>

BluezDies ==
  /\ Changes
  /\ Event
  /\ bluez
  /\ BluezGone
  /\ UNCHANGED conn

BluezStarts ==
  /\ Changes
  /\ Calm
  /\ ~bluez
  /\ bluez' = TRUE
  /\ UNCHANGED <<conn, bye, adapter, pend, page, link, signal>>

-----------------------------------------------------------------------------

Next ==
  \/ PowerOn \/ PowerOff \/ Quiesce \/ Restore
  \/ \E h \in Headsets : Connect(h) \/ UserDisconnect(h)
  \/ PowerAnswered
  \/ \E late \in BOOLEAN : PowerFailed(late)
  \/ \E h \in Headsets : ConnectAnswered(h) \/ ConnectLate(h) \/ Disconnected(h)
  \/ Pass
  \/ \E h \in Headsets : NextTryDue(h) \/ ConnectAges(h) \/ HalfAges(h)
  \/ PowerDue \/ SleepOverdue \/ CycleAges
  \/ PowerTakes \/ BluezDies \/ BluezStarts
  \/ \E h \in Headsets : ComesUp(h) \/ SetsUp(h) \/ Drops(h) \/ Disconnects(h)

Spec == Init /\ [][Next]_vars

\* The thread runs while it has something to do, every call is answered or
\* expires, every deadline comes, and an adapter that is asked again and again
\* follows in the end.  Nothing is assumed of BlueZ's return or of a page.
Fairness ==
  /\ WF_vars(Pass)
  /\ WF_vars(PowerAnswered \/ PowerFailed(TRUE) \/ PowerFailed(FALSE))
  /\ WF_vars(PowerDue) /\ WF_vars(SleepOverdue) /\ WF_vars(CycleAges)
  /\ SF_vars(PowerTakes)
  /\ \A h \in Headsets : /\ WF_vars(ConnectAnswered(h) \/ ConnectLate(h))
                         /\ WF_vars(Disconnected(h))
                         /\ WF_vars(Disconnects(h))
                         /\ WF_vars(NextTryDue(h)) /\ WF_vars(ConnectAges(h))
                         /\ WF_vars(HalfAges(h))

Live == Spec /\ Fairness

-----------------------------------------------------------------------------
\* A headset the owner disconnected is neither the one asked for nor the subject of
\* an episode until the owner taps it or switches Bluetooth on again, however its
\* link ended and whatever the passes see (requests.rs user_disconnect, mod.rs target).
HeldIsLeftAlone == \A h \in held : asked # h /\ rec[h].episode = "none"

\* Once a sleep heard that Bluetooth is down, with no power-on under way then, the
\* adapter stays off until a wake or the owner's switch (requests.rs quiesce,
\* reconcile.rs reconcile_sleep and reconcile_power).
DownUntilWoken == told = "ok" => ~adapter

\* The adapter ends as the owner and the sleep want it and stays so, through refused
\* and late power calls, power cycles and BlueZ's restarts (reconcile_power, powered).
Wanted == desired /\ sleep = "awake"
WishCarried == \A on \in BOOLEAN : <>[](Wanted = on /\ bluez) => <>[](adapter = on)

\* The paging of a headset that does not come ends: its tries are spent and it is
\* parked, so an absent headset is not paged for ever (links.rs Episode).
PagingEnds ==
  \A h \in Headsets : <>[](adapter /\ link[h] = "down") => <>[](conn[h] = "no")
=============================================================================
