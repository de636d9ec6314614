---------------------------- MODULE PowerShutdown ----------------------------
(***************************************************************************)
(* The power daemon's shutdown: the low-battery policy (power/policy.rs),  *)
(* the coordinator with its one intent per boot (power/coordinator.rs) and *)
(* the steps that carry it out (power/coordinator/steps.rs), between       *)
(* Reborn, its supervisor, a daemon that may die, a system that may stall  *)
(* and the watchdog.                                                       *)
(***************************************************************************)
EXTENDS Naturals

CONSTANTS
  Faults,           \* which things may go wrong
  critical_samples, \* of the low-battery policy
  MaxCrashes,       \* bound: deaths of the daemon in one boot
  MaxStarts         \* bound: starts of Reborn in one boot

ASSUME PowerAssumption ==
  /\ Faults \subseteq {"publish", "watchdog", "switch", "stop", "light", "sync",
                       "journal", "init", "stall"}
  /\ critical_samples \in 1..60
  /\ MaxCrashes \in Nat /\ MaxStarts \in Nat \ {0}

VARIABLES
  pc,                            \* the daemon: its loop, a shutdown step, or down
  intent, file,                  \* its intent, and /run/y2/shutdown.json
  late,                          \* the intent's deadline has passed
  samples, critical,             \* LowBattery's count, what BAT0 reads
  synced,                        \* execute: the sync succeeded
  watchdog, powersOff, longPress,\* the SoC watchdog and the two switches
  stage,                         \* boot.json's last stage
  asked, power,                  \* what init was asked for, the player
  reborn, starts, sup,           \* Reborn, how often it started, its supervisor
  lit, saved,                    \* the backlight, nothing written since the sync
  promised,                      \* history: actions answered with ok
  mishaps,                       \* history: failures the properties make exception of
  crashes

daemon == <<pc, intent, file, samples, synced>>
safety == <<watchdog, powersOff, longPress>>
app == <<reborn, starts, sup, lit, saved>>
past == <<promised, mishaps, crashes>>
vars == <<daemon, safety, app, past, late, critical, stage, asked, power>>

-----------------------------------------------------------------------------
Actions == {"poweroff", "reboot"}
Nothing == [action |-> "none"]

(* client, by: starts of Reborn tell one process from another; 0 is none.    *)
Intent == [action : Actions, state : {"ShutdownPending", "Executing", "Failed"},
           client : 0..MaxStarts, ack : {"none", "Ready", "Failed"}, by : 0..MaxStarts]

(* The steps of execute, in their order. *)
Steps == {"watchdog", "long_press_reset", "journal_pending", "backlight_early",
          "S90reborn", "kill", "backlight", "sync", "S41", "journal_complete", "init"}

EndOf == [poweroff |-> "off", reboot |-> "restarted"]

Fails(f) == IF f \in Faults THEN BOOLEAN ELSE {FALSE}

Init ==
  /\ pc = "loop" /\ intent = Nothing /\ file = Nothing /\ late = FALSE
  /\ samples = 0 /\ critical = FALSE /\ synced = FALSE
  /\ watchdog = FALSE /\ powersOff = FALSE /\ longPress = TRUE
  /\ stage = "started" /\ asked = "none" /\ power = "on"
  /\ reborn = TRUE /\ starts = 1 /\ sup = "watches" /\ lit = TRUE /\ saved = FALSE
  /\ promised = {} /\ mishaps = {} /\ crashes = 0

-----------------------------------------------------------------------------
(* The coordinator. *)

process_identity == IF reborn THEN starts ELSE 0

(* publish: shutdown.json is the intent, or stays as it was. *)
Publish(i) ==
  \E failed \in Fails("publish") :
    /\ file' = IF failed THEN file ELSE i
    /\ mishaps' = IF failed THEN mishaps \cup {"publish"} ELSE mishaps

Begin(action) ==
  /\ intent' = [action |-> action, state |-> "ShutdownPending",
                client |-> process_identity, ack |-> "none", by |-> 0]
  /\ late' = FALSE
  /\ Publish(intent')

pending == intent # Nothing /\ intent.state = "ShutdownPending"
ready == intent # Nothing /\ intent.ack = "Ready"
due == pending /\ (late \/ ready)

(* A client is served: after an acknowledgement the loop executes first, but  *)
(* the deadline may pass while it waits for the client.                       *)
Serves == power = "on" /\ pc = "loop" /\ ~(pending /\ ready)

(* Slip: a request for the other action is answered with the intent. *)
RequestAny(action) ==
  /\ Serves
  /\ \/ /\ intent = Nothing /\ Begin(action)
        /\ promised' = IF file' = intent' THEN promised \cup {action} ELSE promised
     \/ /\ intent # Nothing
        /\ promised' = promised \cup {action}
        /\ UNCHANGED <<intent, file, late, mishaps>>
  /\ UNCHANGED <<pc, samples, synced, safety, app, critical, stage, asked, power, crashes>>

(* A request for the same action is answered with the intent as it is, also  *)
(* when it failed; one for the other action is refused.                      *)
Request(action) ==
  /\ Serves
  /\ \/ /\ intent = Nothing /\ Begin(action)
        /\ promised' = IF file' = intent' THEN promised \cup {action} ELSE promised
     \/ /\ intent # Nothing /\ intent.action = action
        /\ promised' = promised \cup {action}
        /\ UNCHANGED <<intent, file, late, mishaps>>
  /\ UNCHANGED <<pc, samples, synced, safety, app, critical, stage, asked, power, crashes>>

(* Slip: any Reborn may acknowledge. *)
AckAny(outcome) ==
  /\ Serves /\ pending /\ reborn
  /\ lit' = IF outcome = "Ready" THEN FALSE ELSE lit
  /\ intent' = [intent EXCEPT !.ack = outcome, !.by = process_identity]
  /\ Publish(intent')
  /\ UNCHANGED <<pc, samples, synced, safety, reborn, starts, sup, saved, promised,
                 crashes, late, critical, stage, asked, power>>

(* Reborn answers the intent on its dark frame; only the process the intent  *)
(* was made with is believed.                                                *)
Ack(outcome) ==
  /\ Serves /\ pending /\ reborn
  /\ lit' = IF outcome = "Ready" THEN FALSE ELSE lit
  /\ IF intent.client = process_identity
       THEN /\ intent' = [intent EXCEPT !.ack = outcome, !.by = process_identity]
            /\ Publish(intent')
       ELSE UNCHANGED <<intent, file, mishaps>>
  /\ UNCHANGED <<pc, samples, synced, safety, reborn, starts, sup, saved, promised,
                 crashes, late, critical, stage, asked, power>>

(* LowBattery.observe: a good sample ends the count, which stays at its end. *)
observe == IF critical
             THEN IF samples < critical_samples THEN samples + 1 ELSE samples
             ELSE 0

(* One sample, and a shutdown after enough critical ones in a row. *)
Sample ==
  /\ power = "on" /\ pc = "loop"
  /\ samples' = observe
  /\ IF samples' = critical_samples /\ intent = Nothing
       THEN Begin("poweroff")
       ELSE UNCHANGED <<intent, file, late, mishaps>>
  /\ UNCHANGED <<pc, synced, safety, app, promised, crashes, critical, stage, asked, power>>

(* Slip: a daemon that starts takes what the file says of the state. *)
NewAsWritten ==
  /\ power = "on" /\ pc = "down"
  /\ pc' = "loop" /\ samples' = 0
  /\ intent' = file
  /\ UNCHANGED <<file, synced, safety, app, past, late, critical, stage, asked, power>>

(* new: an intent of this boot is resumed; one that was executing is pending *)
(* again, with its deadline.                                                 *)
New ==
  /\ power = "on" /\ pc = "down"
  /\ pc' = "loop" /\ samples' = 0
  /\ intent' = IF file # Nothing /\ file.state = "Executing"
               THEN [file EXCEPT !.state = "ShutdownPending"] ELSE file
  /\ UNCHANGED <<file, synced, safety, app, past, late, critical, stage, asked, power>>

-----------------------------------------------------------------------------
(* execute: every step is bounded, and none of them ends it. *)

At(step) == power = "on" /\ pc = step
Then(step) == pc' = step

Execute ==
  /\ At("loop") /\ due
  /\ intent' = [intent EXCEPT !.state = "Executing"]
  /\ Publish(intent')
  /\ synced' = FALSE
  /\ Then("watchdog")
  /\ UNCHANGED <<samples, safety, app, promised, crashes, late, critical, stage, asked, power>>

(* For a power-off the reset is first made to power off, if the kernel can.  *)
arm_watchdog ==
  /\ At("watchdog") /\ Then("long_press_reset")
  /\ \E unavailable \in Fails("watchdog"), old \in Fails("switch") :
       /\ powersOff' = (powersOff \/ (intent.action = "poweroff" /\ ~old))
       /\ watchdog' = (watchdog \/ ~unavailable)
       /\ mishaps' = IF unavailable THEN mishaps \cup {"watchdog"}
                     ELSE mishaps \ {"watchdog"}
  /\ UNCHANGED <<intent, file, samples, synced, longPress, app, promised, crashes, late,
                 critical, stage, asked, power>>

(* Slip: the long-press reset goes off with or without a watchdog. *)
long_press_reset_always ==
  /\ At("long_press_reset") /\ Then("journal_pending")
  /\ longPress' = FALSE
  /\ UNCHANGED <<intent, file, samples, synced, watchdog, powersOff, app, past, late,
                 critical, stage, asked, power>>

(* Only under this daemon's own watchdog; an old kernel has no switch.       *)
long_press_reset_off ==
  /\ At("long_press_reset") /\ Then("journal_pending")
  /\ longPress' \in IF "watchdog" \in mishaps THEN {longPress} ELSE {FALSE, longPress}
  /\ UNCHANGED <<intent, file, samples, synced, watchdog, powersOff, app, past, late,
                 critical, stage, asked, power>>

Mark(step) == \E failed \in Fails("journal") : stage' = IF failed THEN stage ELSE step

JournalPending ==
  /\ At("journal_pending")
  /\ Then(IF ready THEN "S90reborn" ELSE "backlight_early")
  /\ Mark("shutdown_pending")
  /\ UNCHANGED <<intent, file, samples, synced, safety, app, past, late, critical, asked,
                 power>>

Darken ==
  \E failed \in Fails("light") :
    /\ lit' = (lit /\ failed)
    /\ mishaps' = IF failed THEN mishaps \cup {"light"} ELSE mishaps \ {"light"}

BacklightEarly ==
  /\ At("backlight_early") /\ Then("S90reborn")
  /\ Darken
  /\ UNCHANGED <<intent, file, samples, synced, safety, reborn, starts, sup, saved,
                 promised, crashes, late, critical, stage, asked, power>>

(* A supervisor that got its TERM starts nothing more; it may still have     *)
(* Reborn to end.  The step may fail or time out.                            *)
StopReborn ==
  /\ At("S90reborn") /\ Then("kill")
  /\ \E failed \in Fails("stop") :
       /\ mishaps' = IF failed THEN mishaps \cup {"stop"} ELSE mishaps
       /\ sup' = IF failed THEN sup ELSE "gone"
       /\ reborn' \in IF failed THEN {reborn} ELSE {FALSE, reborn}
  /\ UNCHANGED <<intent, file, samples, synced, safety, starts, lit, saved, promised,
                 crashes, late, critical, stage, asked, power>>

(* The supervisor looks at shutdown.json once Reborn has ended, before it    *)
(* waits to start it again; a clean exit ends it as well.                    *)
Ended(cleanly) ==
  /\ reborn' = FALSE
  /\ IF sup = "watches" THEN sup' = IF file # Nothing \/ cleanly THEN "gone" ELSE "naps"
     ELSE UNCHANGED sup

(* Reborn by its pidfd.  The supervisor is a script: /proc/<pid>/exe is the  *)
(* shell, so its identity is none and nothing is sent.                       *)
Kill ==
  /\ At("kill") /\ Then("backlight")
  /\ IF reborn THEN Ended(FALSE) ELSE UNCHANGED <<reborn, sup>>
  /\ UNCHANGED <<intent, file, samples, synced, safety, starts, lit, saved, past, late,
                 critical, stage, asked, power>>

(* Slip: the light went out before, so it is not put out again. *)
BacklightOnce ==
  /\ At("backlight") /\ Then("sync")
  /\ UNCHANGED <<intent, file, samples, synced, safety, app, past, late, critical, stage,
                 asked, power>>

Backlight ==
  /\ At("backlight") /\ Then("sync")
  /\ Darken
  /\ UNCHANGED <<intent, file, samples, synced, safety, reborn, starts, sup, saved,
                 promised, crashes, late, critical, stage, asked, power>>

Sync ==
  /\ At("sync") /\ Then("S41")
  /\ \E failed \in Fails("sync") : synced' = ~failed /\ saved' = (saved \/ ~failed)
  /\ UNCHANGED <<intent, file, samples, safety, reborn, starts, sup, lit, past, late,
                 critical, stage, asked, power>>

(* Slip: shutdown_complete is written whatever the sync did. *)
StopRadiosAlways ==
  /\ At("S41") /\ Then("journal_complete")
  /\ UNCHANGED <<intent, file, samples, synced, safety, app, past, late, critical, stage,
                 asked, power>>

(* The radios stop after the sync: this is where the system stalled. *)
StopRadios ==
  /\ At("S41") /\ Then(IF synced THEN "journal_complete" ELSE "init")
  /\ UNCHANGED <<intent, file, samples, synced, safety, app, past, late, critical, stage,
                 asked, power>>

JournalComplete ==
  /\ At("journal_complete") /\ Then("init")
  /\ Mark("shutdown_complete")
  /\ UNCHANGED <<intent, file, samples, synced, safety, app, past, late, critical, asked,
                 power>>

(* The step's results are published, then init is asked. *)
InitAsked ==
  /\ At("init") /\ Then("loop")
  /\ asked' = intent.action
  /\ Publish(intent)
  /\ UNCHANGED <<intent, samples, synced, safety, app, promised, crashes, late, critical,
                 stage, power>>

InitRefuses ==
  /\ At("init") /\ Then("loop") /\ "init" \in Faults
  /\ intent' = [intent EXCEPT !.state = "Failed"]
  /\ Publish(intent')
  /\ UNCHANGED <<samples, synced, safety, app, promised, crashes, late, critical, stage,
                 asked, power>>

-----------------------------------------------------------------------------
(* Reborn and its supervisor. *)

RebornLights ==
  /\ power = "on" /\ reborn /\ ~(ready /\ intent.by = starts)
  /\ lit' = TRUE /\ saved' = FALSE
  /\ UNCHANGED <<daemon, safety, reborn, starts, sup, past, late, critical, stage, asked,
                 power>>

(* After a crash the supervisor puts the light out and waits a few seconds.  *)
RebornDies ==
  /\ power = "on" /\ reborn
  /\ \E cleanly \in BOOLEAN : Ended(cleanly)
  /\ lit' = (lit /\ sup' # "naps")
  /\ UNCHANGED <<daemon, safety, starts, saved, past, late, critical, stage, asked, power>>

(* Slip: the supervisor starts Reborn without a budget. *)
RebornStartsAgain ==
  /\ power = "on" /\ sup = "naps"
  /\ sup' = "watches" /\ reborn' = TRUE /\ starts' = starts + 1 /\ saved' = FALSE
  /\ UNCHANGED <<daemon, safety, lit, past, late, critical, stage, asked, power>>

(* Within its budget of starts. *)
RebornStarts ==
  /\ power = "on" /\ sup = "naps" /\ starts < MaxStarts
  /\ sup' = "watches" /\ reborn' = TRUE /\ starts' = starts + 1 /\ saved' = FALSE
  /\ UNCHANGED <<daemon, safety, lit, past, late, critical, stage, asked, power>>

-----------------------------------------------------------------------------
(* The battery, the clock, a daemon that dies, the system and its end. *)

(* Only the loop reads BAT0 and the clock: a change during a step is one     *)
(* after it.  Once there is an intent, nothing depends on BAT0.              *)
Discharge ==
  /\ At("loop") /\ intent = Nothing /\ critical' = ~critical
  /\ UNCHANGED <<daemon, safety, app, past, late, stage, asked, power>>

Deadline ==
  /\ At("loop") /\ pending /\ ~late
  /\ late' = TRUE
  /\ UNCHANGED <<daemon, safety, app, past, critical, stage, asked, power>>

(* The watchdog it armed runs on, unfed: nothing closes it with the magic V. *)
DaemonDies ==
  /\ power = "on" /\ pc # "down" /\ crashes < MaxCrashes
  /\ pc' = "down" /\ crashes' = crashes + 1
  /\ intent' = Nothing /\ samples' = 0 /\ synced' = FALSE
  /\ UNCHANGED <<file, safety, app, promised, mishaps, late, critical, stage, asked, power>>

(* F39: five shutdowns stalled the whole system. *)
Stalls ==
  /\ power = "on" /\ "stall" \in Faults /\ (pc \in Steps \/ asked # "none")
  /\ power' = "stalled"
  /\ UNCHANGED <<daemon, safety, app, past, late, critical, stage, asked>>

(* The end of this boot: what was in memory and in /run is gone.             *)
Ends(end) ==
  /\ power' = end
  /\ pc' = "down" /\ intent' = Nothing /\ file' = Nothing /\ late' = FALSE
  /\ samples' = 0 /\ synced' = FALSE /\ watchdog' = FALSE /\ longPress' = TRUE
  /\ asked' = "none" /\ reborn' = FALSE /\ starts' = 1 /\ sup' = "gone" /\ lit' = FALSE
  /\ crashes' = 0
  /\ UNCHANGED <<critical, powersOff, stage, saved, promised, mishaps>>

(* Every step feeds it; the loop, a dead daemon and a stalled system do not. *)
WatchdogFires ==
  /\ power \in {"on", "stalled"} /\ watchdog
  /\ power = "on" => pc \in {"loop", "down"}
  /\ Ends(IF powersOff THEN "off" ELSE "restarted")

(* The owner holds Power. *)
LongPressResets ==
  /\ power \in {"on", "stalled"} /\ longPress
  /\ Ends("cut")

InitEnds ==
  /\ power = "on" /\ asked # "none"
  /\ Ends(EndOf[asked])

(* The next boot.  The preloader sets the long-press reset. *)
Boot ==
  /\ power \notin {"on", "stalled"}
  /\ power' = "on" /\ pc' = "loop" /\ powersOff' = FALSE
  /\ reborn' = TRUE /\ sup' = "watches" /\ lit' = TRUE /\ saved' = FALSE
  /\ stage' = "started" /\ promised' = {} /\ mishaps' = {}
  /\ UNCHANGED <<intent, file, late, samples, critical, synced, watchdog, longPress, asked,
                 starts, crashes>>

-----------------------------------------------------------------------------
Coordinate == \/ Execute \/ arm_watchdog \/ long_press_reset_off \/ JournalPending
              \/ BacklightEarly \/ StopReborn \/ Kill \/ Backlight \/ Sync \/ StopRadios
              \/ JournalComplete \/ InitAsked \/ InitRefuses

World == \/ RebornLights \/ RebornDies \/ RebornStarts \/ Discharge \/ Deadline
         \/ DaemonDies \/ Stalls \/ WatchdogFires \/ LongPressResets \/ InitEnds \/ Boot

Next == \/ \E action \in Actions : Request(action)
        \/ \E outcome \in {"Ready", "Failed"} : Ack(outcome)
        \/ Sample \/ New \/ Coordinate \/ World

Spec == Init /\ [][Next]_vars

(* The loop samples every second and its supervisor starts a dead daemon     *)
(* again; the clock reaches the deadline, a running watchdog fires, and init *)
(* ends what it was asked.                                                   *)
Live == /\ Spec
        /\ WF_vars(Coordinate) /\ WF_vars(Sample) /\ WF_vars(New) /\ WF_vars(Deadline)
        /\ WF_vars(WatchdogFires) /\ WF_vars(InitEnds)

-----------------------------------------------------------------------------
(* Properties. *)

TypeOK ==
  /\ pc \in {"loop", "down"} \cup Steps
  /\ intent \in Intent \cup {Nothing} /\ file \in Intent \cup {Nothing}
  /\ late \in BOOLEAN /\ samples \in 0..critical_samples /\ critical \in BOOLEAN
  /\ synced \in BOOLEAN /\ watchdog \in BOOLEAN /\ powersOff \in BOOLEAN
  /\ longPress \in BOOLEAN
  /\ stage \in {"started", "shutdown_pending", "shutdown_complete"}
  /\ asked \in Actions \cup {"none"}
  /\ power \in {"on", "stalled", "off", "restarted", "cut"}
  /\ reborn \in BOOLEAN /\ starts \in 1..MaxStarts /\ sup \in {"watches", "naps", "gone"}
  /\ lit \in BOOLEAN /\ saved \in BOOLEAN
  /\ promised \subseteq Actions
  /\ mishaps \subseteq {"publish", "watchdog", "light", "stop"} /\ crashes \in Nat

(* A shutdown begins before its deadline only when the Reborn it was         *)
(* requested under, and no later one, has said that it is ready.             *)
GraceKept ==
  [][pc = "loop" /\ pc' \in Steps =>
       late \/ (intent.ack = "Ready" /\ intent.by = intent.client)]_vars

(* "Without the watchdog it [the long-press reset] stays the only escape from *)
(* a stalled shutdown" (steps.rs): through every step and death one is left.  *)
EscapeRemains == watchdog \/ longPress

(* "Never hand init a lit panel" (steps.rs), unless the write failed or the   *)
(* supervisor was not told to stop.                                           *)
DarkForInit ==
  asked # "none" /\ lit => mishaps \cap {"light", "stop"} # {}

(* shutdown_complete stands for data that a sync saved after Reborn's end.    *)
OrderlyMeansSaved == stage = "shutdown_complete" => saved \/ "stop" \in mishaps

(* The player ends as every answered request was promised, whatever ends it,  *)
(* if its record could be published and the reset can power off.              *)
EndsAsPromised ==
  power \in {"off", "restarted"} /\ "publish" \notin mishaps =>
    \A action \in promised :
      power = EndOf[action] \/ (action = "poweroff" /\ ~powersOff)

(* What nothing ends but the owner: a stall, or a refusal of init, without a  *)
(* watchdog.                                                                  *)
Stuck ==
  /\ ~watchdog
  /\ power = "stalled" \/ (intent # Nothing /\ intent.state = "Failed")

(* What was recorded ends the boot, however often the daemon dies and         *)
(* whichever step fails, unless it is stuck; and so does a battery that stays *)
(* critical, also when nothing can be published (coordinator.rs new, due;     *)
(* steps.rs execute).                                                         *)
BootEnds ==
  /\ file # Nothing ~> power \notin {"on", "stalled"} \/ Stuck
  /\ critical ~> ~critical \/ power \notin {"on", "stalled"} \/ Stuck

=============================================================================
