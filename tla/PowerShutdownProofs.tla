------------------------ MODULE PowerShutdownProofs ------------------------
(***************************************************************************)
(* Proofs about the power daemon's shutdown, for every set of faults, any  *)
(* number of deaths of the daemon and of starts of Reborn: its types and   *)
(* its safety properties.  Each invariant is strengthened by what the      *)
(* steps before it have established (IInv).                                *)
(***************************************************************************)
EXTENDS ShutdownRefinement, TLAPS

Running == power \in {"on", "stalled"}

(* The steps run with an intent; a boot that has ended has none.             *)
Intended ==
  /\ pc \in Steps => intent # Nothing
  /\ ~Running => pc = "down" /\ intent = Nothing /\ file = Nothing /\ asked = "none"

(* An answer in the intent, or in its record, is its client's.               *)
Answered ==
  /\ intent # Nothing /\ intent.ack # "none" => intent.by = intent.client
  /\ file # Nothing /\ file.ack # "none" => file.by = file.client

(* The long-press reset is decided on a watchdog that runs.                  *)
Armed == pc = "long_press_reset" /\ "watchdog" \notin mishaps => watchdog

(* While every record could be published, the daemon, its record, init and   *)
(* the switch of the watchdog are about one action, the only one promised.   *)
OneAction ==
  Running /\ "publish" \notin mishaps =>
    /\ promised \subseteq {file.action}
    /\ asked \in {"none", file.action}
    /\ powersOff => file.action = "poweroff"
    /\ pc # "down" => intent.action = file.action

Gone == sup = "gone" /\ ~reborn
Darkened == {"sync", "S41", "journal_complete", "init"}

(* A supervisor that got its TERM starts no Reborn: from the kill on nobody  *)
(* writes and nobody lights the panel.                                       *)
Quiet ==
  "stop" \notin mishaps =>
    /\ pc = "kill" => sup = "gone"
    /\ pc \in {"backlight"} \cup Darkened => Gone
    /\ asked # "none" \/ stage = "shutdown_complete" => Gone
    /\ pc \in {"S41", "journal_complete"} /\ synced => saved
    /\ pc = "journal_complete" => synced

Dark == mishaps \cap {"light", "stop"} = {} /\ pc \in Darkened => ~lit

IInv == /\ TypeOK /\ Intended
        /\ Answered
        /\ Armed /\ EscapeRemains
        /\ OneAction /\ EndsAsPromised
        /\ Quiet /\ Dark /\ DarkForInit /\ OrderlyMeansSaved

-----------------------------------------------------------------------------
(* Publishing, and the fields of an intent.                                  *)

(* A fault is there or not.                                                  *)
LEMMA FailsType == \A f : Fails(f) \subseteq BOOLEAN
  BY DEF Fails

(* A record is the new intent, or the old one and a mishap.                  *)
LEMMA Publishes ==
  ASSUME NEW i, Publish(i)
  PROVE  /\ file' = file \/ file' = i
         /\ mishaps' = mishaps \/ mishaps' = mishaps \cup {"publish"}
         /\ "publish" \notin mishaps' => "publish" \notin mishaps /\ file' = i
  BY DEF Publish

(* An intent is not Nothing, and a change of its state or its answer leaves  *)
(* an intent for the same action and client.                                 *)
LEMMA IntentFields ==
  ASSUME NEW i \in Intent
  PROVE  /\ i # Nothing /\ i.action \in Actions
         /\ i.client \in 0..MaxStarts /\ i.by \in 0..MaxStarts
         /\ \A s \in {"ShutdownPending", "Executing", "Failed"} :
              /\ [i EXCEPT !.state = s] \in Intent
              /\ [i EXCEPT !.state = s].action = i.action
              /\ [i EXCEPT !.state = s].client = i.client
              /\ [i EXCEPT !.state = s].ack = i.ack
              /\ [i EXCEPT !.state = s].by = i.by
         /\ \A o \in {"Ready", "Failed"}, n \in 0..MaxStarts :
              /\ [i EXCEPT !.ack = o, !.by = n] \in Intent
              /\ [i EXCEPT !.ack = o, !.by = n].action = i.action
              /\ [i EXCEPT !.ack = o, !.by = n].client = i.client
              /\ [i EXCEPT !.ack = o, !.by = n].by = n
<1>1. i # Nothing
  BY DEF Intent, Nothing, Actions
<1> QED
  BY <1>1 DEF Intent

(* Nothing is an intent for no action.                                       *)
LEMMA NothingFields ==
  Nothing.action = "none" /\ "none" \notin Actions /\ Nothing \notin Intent
  BY DEF Nothing, Actions, Intent

(* What Begin makes.                                                         *)
LEMMA BeginIntent ==
  ASSUME TypeOK, NEW action \in Actions, Begin(action)
  PROVE  /\ intent' \in Intent /\ intent'.action = action /\ intent'.ack = "none"
         /\ late' = FALSE /\ Publish(intent')
<1>1. process_identity \in 0..MaxStarts
  BY PowerAssumption DEF process_identity, TypeOK
<1>2. 0 \in 0..MaxStarts
  BY PowerAssumption
<1> QED
  BY <1>1, <1>2 DEF Begin, Intent

(* The record stays an intent or nothing, the mishaps stay mishaps.          *)
LEMMA PublishType ==
  ASSUME TypeOK, NEW i \in Intent \cup {Nothing}, Publish(i)
  PROVE  /\ file' \in Intent \cup {Nothing}
         /\ mishaps' \subseteq {"publish", "watchdog", "light", "stop"}
<1>1. /\ file' = file \/ file' = i
      /\ mishaps' = mishaps \/ mishaps' = mishaps \cup {"publish"}
  BY Publishes
<1>2. /\ file \in Intent \cup {Nothing}
      /\ mishaps \subseteq {"publish", "watchdog", "light", "stop"}
  BY DEF TypeOK
<1> QED
  BY <1>1, <1>2

(* Darkening changes the light and its mishap.                               *)
LEMMA DarkenType ==
  ASSUME TypeOK, Darken
  PROVE  /\ lit' \in BOOLEAN
         /\ mishaps' \subseteq {"publish", "watchdog", "light", "stop"}
<1>1. PICK failed \in BOOLEAN :
        /\ lit' = (lit /\ failed)
        /\ mishaps' = IF failed THEN mishaps \cup {"light"} ELSE mishaps \ {"light"}
  BY FailsType DEF Darken
<1> QED
  BY <1>1 DEF TypeOK

-----------------------------------------------------------------------------
(* The types.                                                                *)

(* What a client asks for, and what a sample makes.                          *)
LEMMA RequestType ==
  ASSUME TypeOK, NEW action \in Actions, Request(action)
  PROVE  TypeOK'
<1>1. /\ intent' \in Intent \cup {Nothing} /\ file' \in Intent \cup {Nothing}
      /\ mishaps' \subseteq {"publish", "watchdog", "light", "stop"}
      /\ late' \in BOOLEAN
  <2>1. CASE Begin(action)
    BY <2>1, BeginIntent, PublishType
  <2>2. CASE UNCHANGED <<intent, file, late, mishaps>>
    BY <2>2 DEF TypeOK
  <2> QED
    BY <2>1, <2>2 DEF Request
<1>2. promised' \subseteq Actions
  BY DEF Request, TypeOK
<1> QED
  BY <1>1, <1>2 DEF Request, TypeOK, safety, app

(* The client's answer is published in its intent.                           *)
LEMMA AckIntent ==
  ASSUME TypeOK, NEW outcome \in {"Ready", "Failed"}, Ack(outcome),
         intent.client = process_identity
  PROVE  /\ intent' \in Intent /\ Publish(intent')
         /\ intent'.action = intent.action /\ intent'.client = intent.client
         /\ intent'.by = intent.client
<1>1. intent \in Intent /\ process_identity \in 0..MaxStarts
  BY PowerAssumption DEF Ack, pending, TypeOK, process_identity
<1> DEFINE n == process_identity
<1>2. intent' = [intent EXCEPT !.ack = outcome, !.by = n] /\ Publish(intent')
  BY DEF Ack
<1>3. n \in 0..MaxStarts /\ intent.client = n
  BY <1>1
<1> HIDE DEF n
<1>4. intent' \in Intent
  BY <1>1, <1>2, <1>3, IntentFields
<1>5. intent'.action = intent.action /\ intent'.client = intent.client /\ intent'.by = n
  BY <1>1, <1>2 DEF Intent
<1> QED
  BY <1>2, <1>3, <1>4, <1>5

LEMMA AckType ==
  ASSUME TypeOK, NEW outcome \in {"Ready", "Failed"}, Ack(outcome)
  PROVE  TypeOK'
<1>1. /\ intent' \in Intent \cup {Nothing} /\ file' \in Intent \cup {Nothing}
      /\ mishaps' \subseteq {"publish", "watchdog", "light", "stop"}
  <2>2. CASE intent.client = process_identity
    BY <2>2, AckIntent, PublishType
  <2>3. CASE intent.client # process_identity
    BY <2>3 DEF Ack, TypeOK
  <2> QED
    BY <2>2, <2>3
<1>2. lit' \in BOOLEAN
  BY DEF Ack, TypeOK
<1>3. UNCHANGED <<pc, samples, synced, safety, reborn, starts, sup, saved, promised,
                  crashes, late, critical, stage, asked, power>>
  BY DEF Ack
<1> QED
  BY <1>1, <1>2, <1>3 DEF TypeOK, safety

LEMMA SampleType == TypeOK /\ Sample => TypeOK'
<1> SUFFICES ASSUME TypeOK, Sample PROVE TypeOK'
  OBVIOUS
<1>1. /\ intent' \in Intent \cup {Nothing} /\ file' \in Intent \cup {Nothing}
      /\ mishaps' \subseteq {"publish", "watchdog", "light", "stop"}
      /\ late' \in BOOLEAN
  <2>1. CASE Begin("poweroff")
    BY <2>1, BeginIntent, PublishType DEF Actions
  <2>2. CASE UNCHANGED <<intent, file, late, mishaps>>
    BY <2>2 DEF TypeOK
  <2> QED
    BY <2>1, <2>2 DEF Sample, observe
<1>2. samples' \in 0..critical_samples
  BY PowerAssumption DEF Sample, observe, TypeOK
<1> QED
  BY <1>1, <1>2 DEF Sample, observe, TypeOK, safety, app

LEMMA NewType == TypeOK /\ New => TypeOK'
<1> SUFFICES ASSUME TypeOK, New PROVE TypeOK'
  OBVIOUS
<1>1. intent' \in Intent \cup {Nothing}
  BY IntentFields DEF New, TypeOK
<1>2. samples' \in 0..critical_samples
  BY PowerAssumption DEF New
<1>3. pc' \in {"loop", "down"} \cup Steps
  BY DEF New
<1> QED
  BY <1>1, <1>2, <1>3 DEF New, TypeOK, safety, app, past

(* The steps.  Only with an intent do they keep its type.                    *)
LEMMA CoordinateType == TypeOK /\ Intended /\ Coordinate => TypeOK'
<1> SUFFICES ASSUME TypeOK, Intended, Coordinate PROVE TypeOK'
  OBVIOUS
<1> USE DEF TypeOK, safety, app, past
<1>1. CASE Execute
  <2>1. intent' \in Intent /\ Publish(intent')
    BY <1>1, IntentFields DEF Execute, due, pending
  <2>2. /\ file' \in Intent \cup {Nothing}
        /\ mishaps' \subseteq {"publish", "watchdog", "light", "stop"}
    BY <2>1, PublishType
  <2>3. pc' \in {"loop", "down"} \cup Steps /\ synced' \in BOOLEAN
    BY <1>1 DEF Execute, Then, Steps
  <2> QED
    BY <1>1, <2>1, <2>2, <2>3 DEF Execute
<1>2. CASE arm_watchdog
  <2>1. PICK unavailable \in BOOLEAN, old \in BOOLEAN :
          /\ powersOff' = (powersOff \/ (intent.action = "poweroff" /\ ~old))
          /\ watchdog' = (watchdog \/ ~unavailable)
          /\ mishaps' = IF unavailable THEN mishaps \cup {"watchdog"}
                        ELSE mishaps \ {"watchdog"}
    BY <1>2, FailsType DEF arm_watchdog
  <2>2. /\ powersOff' \in BOOLEAN /\ watchdog' \in BOOLEAN
        /\ mishaps' \subseteq {"publish", "watchdog", "light", "stop"}
    BY <2>1
  <2>3. pc' \in {"loop", "down"} \cup Steps
    BY <1>2 DEF arm_watchdog, Then, Steps
  <2> QED
    BY <1>2, <2>2, <2>3 DEF arm_watchdog
<1>3. CASE long_press_reset_off
  <2>1. longPress' \in BOOLEAN
    BY <1>3 DEF long_press_reset_off
  <2>2. pc' \in {"loop", "down"} \cup Steps
    BY <1>3 DEF long_press_reset_off, Then, Steps
  <2> QED
    BY <1>3, <2>1, <2>2 DEF long_press_reset_off
<1>4. CASE JournalPending
  <2>1. stage' \in {"started", "shutdown_pending", "shutdown_complete"}
    BY <1>4 DEF JournalPending, Mark
  <2>2. pc' \in {"loop", "down"} \cup Steps
    BY <1>4 DEF JournalPending, Then, Steps
  <2> QED
    BY <1>4, <2>1, <2>2 DEF JournalPending
<1>5. CASE BacklightEarly
  <2>1. pc' \in {"loop", "down"} \cup Steps
    BY <1>5 DEF BacklightEarly, Then, Steps
  <2> QED
    BY <1>5, <2>1, DarkenType DEF BacklightEarly
<1>6. CASE StopReborn
  <2>1. PICK failed \in BOOLEAN :
          /\ mishaps' = IF failed THEN mishaps \cup {"stop"} ELSE mishaps
          /\ sup' = IF failed THEN sup ELSE "gone"
          /\ reborn' \in IF failed THEN {reborn} ELSE {FALSE, reborn}
    BY <1>6, FailsType DEF StopReborn
  <2>2. /\ mishaps' \subseteq {"publish", "watchdog", "light", "stop"}
        /\ sup' \in {"watches", "naps", "gone"} /\ reborn' \in BOOLEAN
    BY <2>1
  <2>3. pc' \in {"loop", "down"} \cup Steps
    BY <1>6 DEF StopReborn, Then, Steps
  <2> QED
    BY <1>6, <2>2, <2>3 DEF StopReborn
<1>7. CASE Kill
  <2>1. reborn' \in BOOLEAN /\ sup' \in {"watches", "naps", "gone"}
    BY <1>7 DEF Kill, Ended
  <2>2. pc' \in {"loop", "down"} \cup Steps
    BY <1>7 DEF Kill, Then, Steps
  <2> QED
    BY <1>7, <2>1, <2>2 DEF Kill
<1>8. CASE Backlight
  <2>1. pc' \in {"loop", "down"} \cup Steps
    BY <1>8 DEF Backlight, Then, Steps
  <2> QED
    BY <1>8, <2>1, DarkenType DEF Backlight
<1>9. CASE Sync
  <2>1. synced' \in BOOLEAN /\ saved' \in BOOLEAN
    BY <1>9 DEF Sync
  <2>2. pc' \in {"loop", "down"} \cup Steps
    BY <1>9 DEF Sync, Then, Steps
  <2> QED
    BY <1>9, <2>1, <2>2 DEF Sync
<1>10. CASE StopRadios
  <2>1. pc' \in {"loop", "down"} \cup Steps
    BY <1>10 DEF StopRadios, Then, Steps
  <2> QED
    BY <1>10, <2>1 DEF StopRadios
<1>11. CASE JournalComplete
  <2>1. stage' \in {"started", "shutdown_pending", "shutdown_complete"}
    BY <1>11 DEF JournalComplete, Mark
  <2>2. pc' \in {"loop", "down"} \cup Steps
    BY <1>11 DEF JournalComplete, Then, Steps
  <2> QED
    BY <1>11, <2>1, <2>2 DEF JournalComplete
<1>12. CASE InitAsked
  <2>1. /\ file' \in Intent \cup {Nothing}
        /\ mishaps' \subseteq {"publish", "watchdog", "light", "stop"}
    BY <1>12, PublishType DEF InitAsked
  <2>2. intent \in Intent
    BY <1>12 DEF InitAsked, At, Intended, Steps
  <2>3. asked' \in Actions \cup {"none"}
    BY <1>12, <2>2, IntentFields DEF InitAsked
  <2>4. pc' \in {"loop", "down"} \cup Steps
    BY <1>12 DEF InitAsked, Then
  <2> QED
    BY <1>12, <2>1, <2>3, <2>4 DEF InitAsked
<1>13. CASE InitRefuses
  <2>1. intent \in Intent
    BY <1>13 DEF InitRefuses, At, Intended, Steps
  <2>2. intent' \in Intent /\ Publish(intent')
    BY <1>13, <2>1, IntentFields DEF InitRefuses
  <2>3. /\ file' \in Intent \cup {Nothing}
        /\ mishaps' \subseteq {"publish", "watchdog", "light", "stop"}
    BY <2>2, PublishType
  <2>4. pc' \in {"loop", "down"} \cup Steps
    BY <1>13 DEF InitRefuses, Then
  <2> QED
    BY <1>13, <2>2, <2>3, <2>4 DEF InitRefuses
<1> QED
  BY <1>1, <1>2, <1>3, <1>4, <1>5, <1>6, <1>7, <1>8, <1>9, <1>10, <1>11, <1>12, <1>13
     DEF Coordinate

(* An end leaves what Boot expects.                                          *)
LEMMA EndsType ==
  ASSUME TypeOK, NEW end \in {"off", "restarted", "cut"}, Ends(end)
  PROVE  TypeOK'
<1>1. /\ pc' \in {"loop", "down"} \cup Steps
      /\ intent' \in Intent \cup {Nothing} /\ file' \in Intent \cup {Nothing}
      /\ late' \in BOOLEAN /\ synced' \in BOOLEAN /\ watchdog' \in BOOLEAN
      /\ longPress' \in BOOLEAN /\ reborn' \in BOOLEAN /\ lit' \in BOOLEAN
  BY DEF Ends
<1>2. samples' \in 0..critical_samples /\ starts' \in 1..MaxStarts /\ crashes' \in Nat
  BY PowerAssumption DEF Ends
<1>3. /\ asked' \in Actions \cup {"none"} /\ sup' \in {"watches", "naps", "gone"}
      /\ power' \in {"on", "stalled", "off", "restarted", "cut"}
  BY DEF Ends
<1> QED
  BY <1>1, <1>2, <1>3 DEF Ends, TypeOK

(* Reborn, its supervisor, and everything that ends the boot.                *)
LEMMA WorldType == TypeOK /\ World => TypeOK'
<1> SUFFICES ASSUME TypeOK, World PROVE TypeOK'
  OBVIOUS
<1> USE DEF TypeOK, daemon, safety, app, past
<1>1. CASE RebornLights
  <2>1. lit' \in BOOLEAN /\ saved' \in BOOLEAN
    BY <1>1 DEF RebornLights
  <2> QED
    BY <1>1, <2>1 DEF RebornLights
<1>2. CASE RebornDies
  <2>1. reborn' \in BOOLEAN /\ sup' \in {"watches", "naps", "gone"} /\ lit' \in BOOLEAN
    BY <1>2 DEF RebornDies, Ended
  <2> QED
    BY <1>2, <2>1 DEF RebornDies
<1>3. CASE RebornStarts
  <2>1. /\ reborn' \in BOOLEAN /\ sup' \in {"watches", "naps", "gone"}
        /\ saved' \in BOOLEAN
    BY <1>3 DEF RebornStarts
  <2>2. starts' \in 1..MaxStarts
    BY <1>3, PowerAssumption DEF RebornStarts
  <2> QED
    BY <1>3, <2>1, <2>2 DEF RebornStarts
<1>4. CASE Discharge
  <2>1. critical' \in BOOLEAN
    BY <1>4 DEF Discharge
  <2> QED
    BY <1>4, <2>1 DEF Discharge
<1>5. CASE Deadline
  <2>1. late' \in BOOLEAN
    BY <1>5 DEF Deadline
  <2> QED
    BY <1>5, <2>1 DEF Deadline
<1>6. CASE DaemonDies
  <2>1. /\ pc' \in {"loop", "down"} \cup Steps /\ intent' \in Intent \cup {Nothing}
        /\ synced' \in BOOLEAN
    BY <1>6 DEF DaemonDies
  <2>2. samples' \in 0..critical_samples /\ crashes' \in Nat
    BY <1>6, PowerAssumption DEF DaemonDies
  <2> QED
    BY <1>6, <2>1, <2>2 DEF DaemonDies
<1>7. CASE Stalls
  <2>1. power' \in {"on", "stalled", "off", "restarted", "cut"}
    BY <1>7 DEF Stalls
  <2> QED
    BY <1>7, <2>1 DEF Stalls
<1>8. CASE WatchdogFires \/ LongPressResets
  BY <1>8, EndsType DEF WatchdogFires, LongPressResets
<1>9. CASE InitEnds
  <2>1. EndOf[asked] \in {"off", "restarted", "cut"}
    BY <1>9 DEF InitEnds, EndOf, Actions
  <2> QED
    BY <1>9, <2>1, EndsType DEF InitEnds
<1>10. CASE Boot
  <2>1. /\ pc' \in {"loop", "down"} \cup Steps /\ powersOff' \in BOOLEAN
        /\ reborn' \in BOOLEAN /\ lit' \in BOOLEAN /\ saved' \in BOOLEAN
        /\ sup' \in {"watches", "naps", "gone"} /\ promised' \subseteq Actions
        /\ stage' \in {"started", "shutdown_pending", "shutdown_complete"}
        /\ power' \in {"on", "stalled", "off", "restarted", "cut"}
        /\ mishaps' \subseteq {"publish", "watchdog", "light", "stop"}
    BY <1>10 DEF Boot
  <2> QED
    BY <1>10, <2>1 DEF Boot
<1> QED
  BY <1>1, <1>2, <1>3, <1>4, <1>5, <1>6, <1>7, <1>8, <1>9, <1>10 DEF World

(* A step begins with an intent and no step loses it; an end loses all.      *)
LEMMA IntendedStep == TypeOK /\ Intended /\ [Next]_vars => Intended'
<1> SUFFICES ASSUME TypeOK, Intended, [Next]_vars PROVE Intended'
  OBVIOUS
<1>1. CASE \E action \in Actions : Request(action)
  BY <1>1, Publishes DEF Request, Serves, Begin, safety, app, Intended, Running, Steps
<1>2. CASE \E outcome \in {"Ready", "Failed"} : Ack(outcome)
  BY <1>2, Publishes DEF Ack, Serves, pending, safety, Intended, Running, Steps
<1>3. CASE Sample
  BY <1>3, Publishes DEF Sample, observe, Begin, safety, app, Intended, Running, Steps
<1>4. CASE New
  BY <1>4 DEF New, safety, app, past, Intended, Running, Steps
<1>5. CASE Execute
  <2>1. intent \in Intent
    BY <1>5 DEF Execute, due, pending, TypeOK
  <2>2. intent' # Nothing
    BY <1>5, <2>1, IntentFields DEF Execute
  <2> QED
    BY <1>5, <2>2 DEF Execute, At, Running, Intended
<1>6. CASE arm_watchdog
  BY <1>6, FailsType DEF arm_watchdog, At, Then, app, Intended, Running, Steps
<1>7. CASE long_press_reset_off
  BY <1>7 DEF long_press_reset_off, At, Then, app, past, Intended, Running, Steps
<1>8. CASE JournalPending
  BY <1>8 DEF JournalPending, At, Then, Mark, safety, app, past, Intended, Running,
       Steps
<1>9. CASE BacklightEarly
  BY <1>9, FailsType DEF BacklightEarly, At, Then, Darken, safety, Intended, Running,
       Steps
<1>10. CASE StopReborn
  BY <1>10, FailsType DEF StopReborn, At, Then, safety, Intended, Running, Steps
<1>11. CASE Kill
  BY <1>11 DEF Kill, At, Then, Ended, safety, past, Intended, Running, Steps
<1>12. CASE Backlight
  BY <1>12, FailsType DEF Backlight, At, Then, Darken, safety, Intended, Running, Steps
<1>13. CASE Sync
  BY <1>13, FailsType DEF Sync, At, Then, safety, past, Intended, Running, Steps
<1>14. CASE StopRadios
  BY <1>14 DEF StopRadios, At, Then, safety, app, past, Intended, Running, Steps
<1>15. CASE JournalComplete
  BY <1>15 DEF JournalComplete, At, Then, Mark, safety, app, past, Intended, Running,
       Steps
<1>16. CASE InitAsked
  BY <1>16, Publishes DEF InitAsked, At, Then, safety, app, Intended, Running, Steps
<1>17. CASE InitRefuses
  BY <1>17, Publishes DEF InitRefuses, At, Then, safety, app, Intended, Running, Steps
<1>18. CASE RebornLights
  BY <1>18 DEF RebornLights, daemon, safety, past, Intended, Running, Steps
<1>19. CASE RebornDies
  BY <1>19 DEF RebornDies, Ended, daemon, safety, past, Intended, Running, Steps
<1>20. CASE RebornStarts
  BY <1>20 DEF RebornStarts, daemon, safety, past, Intended, Running, Steps
<1>21. CASE Discharge
  BY <1>21 DEF Discharge, At, daemon, safety, app, past, Intended, Running, Steps
<1>22. CASE Deadline
  BY <1>22 DEF Deadline, At, daemon, safety, app, past, Intended, Running, Steps
<1>23. CASE DaemonDies
  BY <1>23 DEF DaemonDies, safety, app, Intended, Running, Steps
<1>24. CASE Stalls
  BY <1>24 DEF Stalls, daemon, safety, app, past, Intended, Running, Steps
<1>25. CASE WatchdogFires
  BY <1>25 DEF WatchdogFires, Ends, Intended, Running, Steps
<1>26. CASE LongPressResets
  BY <1>26 DEF LongPressResets, Ends, Intended, Running, Steps
<1>27. CASE InitEnds
  BY <1>27 DEF InitEnds, Ends, Intended, Running, Steps
<1>28. CASE Boot
  BY <1>28 DEF Boot, Intended, Running, Steps
<1>29. CASE UNCHANGED vars
  BY <1>29 DEF vars, daemon, safety, app, past, Intended, Running, Steps
<1> QED
  BY <1>1, <1>2, <1>3, <1>4, <1>5, <1>6, <1>7, <1>8, <1>9, <1>10, <1>11, <1>12, <1>13,
       <1>14, <1>15, <1>16, <1>17, <1>18, <1>19, <1>20, <1>21, <1>22, <1>23, <1>24,
       <1>25, <1>26, <1>27, <1>28, <1>29
     DEF Next, Coordinate, World

(* A shutdown turns the long-press reset off only under its own watchdog,    *)
(* and nothing but the end of the boot stops that.                           *)
LEMMA ArmedStep ==
  TypeOK /\ Armed /\ EscapeRemains /\ [Next]_vars
    => Armed' /\ EscapeRemains'
<1> SUFFICES ASSUME TypeOK, Armed, EscapeRemains, [Next]_vars PROVE Armed' /\
     EscapeRemains'
  OBVIOUS
<1>1. CASE \E action \in Actions : Request(action)
  BY <1>1, Publishes DEF Request, Serves, Begin, safety, app, Armed, EscapeRemains
<1>2. CASE \E outcome \in {"Ready", "Failed"} : Ack(outcome)
  BY <1>2, Publishes DEF Ack, Serves, pending, safety, Armed, EscapeRemains
<1>3. CASE Sample
  BY <1>3, Publishes DEF Sample, observe, Begin, safety, app, Armed, EscapeRemains
<1>4. CASE New
  BY <1>4 DEF New, safety, app, past, Armed, EscapeRemains
<1>5. CASE Execute
  BY <1>5, Publishes DEF Execute, At, Then, due, pending, safety, app, Armed,
       EscapeRemains
<1>6. CASE arm_watchdog
  BY <1>6, FailsType DEF arm_watchdog, At, Then, app, Armed, EscapeRemains
<1>7. CASE long_press_reset_off
  BY <1>7 DEF long_press_reset_off, At, Then, app, past, Armed, EscapeRemains
<1>8. CASE JournalPending
  BY <1>8 DEF JournalPending, At, Then, Mark, safety, app, past, Armed, EscapeRemains
<1>9. CASE BacklightEarly
  BY <1>9, FailsType DEF BacklightEarly, At, Then, Darken, safety, Armed, EscapeRemains
<1>10. CASE StopReborn
  BY <1>10, FailsType DEF StopReborn, At, Then, safety, Armed, EscapeRemains
<1>11. CASE Kill
  BY <1>11 DEF Kill, At, Then, Ended, safety, past, Armed, EscapeRemains
<1>12. CASE Backlight
  BY <1>12, FailsType DEF Backlight, At, Then, Darken, safety, Armed, EscapeRemains
<1>13. CASE Sync
  BY <1>13, FailsType DEF Sync, At, Then, safety, past, Armed, EscapeRemains
<1>14. CASE StopRadios
  BY <1>14 DEF StopRadios, At, Then, safety, app, past, Armed, EscapeRemains
<1>15. CASE JournalComplete
  BY <1>15 DEF JournalComplete, At, Then, Mark, safety, app, past, Armed, EscapeRemains
<1>16. CASE InitAsked
  BY <1>16, Publishes DEF InitAsked, At, Then, safety, app, Armed, EscapeRemains
<1>17. CASE InitRefuses
  BY <1>17, Publishes DEF InitRefuses, At, Then, safety, app, Armed, EscapeRemains
<1>18. CASE RebornLights
  BY <1>18 DEF RebornLights, daemon, safety, past, Armed, EscapeRemains
<1>19. CASE RebornDies
  BY <1>19 DEF RebornDies, Ended, daemon, safety, past, Armed, EscapeRemains
<1>20. CASE RebornStarts
  BY <1>20 DEF RebornStarts, daemon, safety, past, Armed, EscapeRemains
<1>21. CASE Discharge
  BY <1>21 DEF Discharge, At, daemon, safety, app, past, Armed, EscapeRemains
<1>22. CASE Deadline
  BY <1>22 DEF Deadline, At, daemon, safety, app, past, Armed, EscapeRemains
<1>23. CASE DaemonDies
  BY <1>23 DEF DaemonDies, safety, app, Armed, EscapeRemains
<1>24. CASE Stalls
  BY <1>24 DEF Stalls, daemon, safety, app, past, Armed, EscapeRemains
<1>25. CASE WatchdogFires
  BY <1>25 DEF WatchdogFires, Ends, Armed, EscapeRemains
<1>26. CASE LongPressResets
  BY <1>26 DEF LongPressResets, Ends, Armed, EscapeRemains
<1>27. CASE InitEnds
  BY <1>27 DEF InitEnds, Ends, Armed, EscapeRemains
<1>28. CASE Boot
  BY <1>28 DEF Boot, Armed, EscapeRemains
<1>29. CASE UNCHANGED vars
  BY <1>29 DEF vars, daemon, safety, app, past, Armed, EscapeRemains
<1> QED
  BY <1>1, <1>2, <1>3, <1>4, <1>5, <1>6, <1>7, <1>8, <1>9, <1>10, <1>11, <1>12, <1>13,
       <1>14, <1>15, <1>16, <1>17, <1>18, <1>19, <1>20, <1>21, <1>22, <1>23, <1>24,
       <1>25, <1>26, <1>27, <1>28, <1>29
     DEF Next, Coordinate, World

(* A record that is published is answered as the intent is.                  *)
LEMMA AnsweredPublish ==
  ASSUME Answered, Publish(intent'),
         intent' # Nothing /\ intent'.ack # "none" => intent'.by = intent'.client
  PROVE  Answered'
<1>1. file' = file \/ file' = intent'
  BY Publishes
<1> QED
  BY <1>1 DEF Answered

(* Only the client's answer is written down.                                 *)
LEMMA AnsweredStep == TypeOK /\ Intended /\ Answered /\ [Next]_vars => Answered'
<1> SUFFICES ASSUME TypeOK, Intended, Answered, [Next]_vars PROVE Answered'
  OBVIOUS
<1>1. CASE \E action \in Actions : Request(action)
  <2> PICK action \in Actions : Request(action)
    BY <1>1
  <2>1. CASE Begin(action)
    <3>1. intent'.ack = "none" /\ Publish(intent')
      BY <2>1, BeginIntent
    <3> QED
      BY <3>1, AnsweredPublish
  <2>2. CASE UNCHANGED <<intent, file>>
    BY <2>2 DEF Answered
  <2> QED
    BY <2>1, <2>2 DEF Request
<1>2. CASE \E outcome \in {"Ready", "Failed"} : Ack(outcome)
  <2> PICK outcome \in {"Ready", "Failed"} : Ack(outcome)
    BY <1>2
  <2>1. CASE intent.client = process_identity
    BY <2>1, AckIntent, AnsweredPublish
  <2>2. CASE intent.client # process_identity
    BY <2>2 DEF Ack, Answered
  <2> QED
    BY <2>1, <2>2
<1>3. CASE Sample
  <2>1. CASE Begin("poweroff")
    <3>1. intent'.ack = "none" /\ Publish(intent')
      BY <2>1, BeginIntent DEF Actions
    <3> QED
      BY <3>1, AnsweredPublish
  <2>2. CASE UNCHANGED <<intent, file>>
    BY <2>2 DEF Answered
  <2> QED
    BY <1>3, <2>1, <2>2 DEF Sample, observe
<1>4. CASE New
  BY <1>4 DEF New, safety, app, past, Answered
<1>5. CASE Execute
  <2>1. intent \in Intent
    BY <1>5 DEF Execute, At, due, pending, TypeOK, Intended, Steps
  <2>2. /\ intent'.ack = intent.ack /\ intent'.by = intent.by
        /\ intent'.client = intent.client /\ intent # Nothing /\ Publish(intent')
    BY <1>5, <2>1, IntentFields DEF Execute
  <2> QED
    BY <2>2, AnsweredPublish DEF Answered
<1>6. CASE arm_watchdog
  BY <1>6, FailsType DEF arm_watchdog, At, Then, app, Answered
<1>7. CASE long_press_reset_off
  BY <1>7 DEF long_press_reset_off, At, Then, app, past, Answered
<1>8. CASE JournalPending
  BY <1>8 DEF JournalPending, At, Then, Mark, safety, app, past, Answered
<1>9. CASE BacklightEarly
  BY <1>9, FailsType DEF BacklightEarly, At, Then, Darken, safety, Answered
<1>10. CASE StopReborn
  BY <1>10, FailsType DEF StopReborn, At, Then, safety, Answered
<1>11. CASE Kill
  BY <1>11 DEF Kill, At, Then, Ended, safety, past, Answered
<1>12. CASE Backlight
  BY <1>12, FailsType DEF Backlight, At, Then, Darken, safety, Answered
<1>13. CASE Sync
  BY <1>13, FailsType DEF Sync, At, Then, safety, past, Answered
<1>14. CASE StopRadios
  BY <1>14 DEF StopRadios, At, Then, safety, app, past, Answered
<1>15. CASE JournalComplete
  BY <1>15 DEF JournalComplete, At, Then, Mark, safety, app, past, Answered
<1>16. CASE InitAsked
  BY <1>16, Publishes DEF InitAsked, At, Then, safety, app, Answered
<1>17. CASE InitRefuses
  <2>1. intent \in Intent
    BY <1>17 DEF InitRefuses, At, due, pending, TypeOK, Intended, Steps
  <2>2. /\ intent'.ack = intent.ack /\ intent'.by = intent.by
        /\ intent'.client = intent.client /\ intent # Nothing /\ Publish(intent')
    BY <1>17, <2>1, IntentFields DEF InitRefuses
  <2> QED
    BY <2>2, AnsweredPublish DEF Answered
<1>18. CASE RebornLights
  BY <1>18 DEF RebornLights, daemon, safety, past, Answered
<1>19. CASE RebornDies
  BY <1>19 DEF RebornDies, Ended, daemon, safety, past, Answered
<1>20. CASE RebornStarts
  BY <1>20 DEF RebornStarts, daemon, safety, past, Answered
<1>21. CASE Discharge
  BY <1>21 DEF Discharge, At, daemon, safety, app, past, Answered
<1>22. CASE Deadline
  BY <1>22 DEF Deadline, At, daemon, safety, app, past, Answered
<1>23. CASE DaemonDies
  BY <1>23 DEF DaemonDies, safety, app, Answered
<1>24. CASE Stalls
  BY <1>24 DEF Stalls, daemon, safety, app, past, Answered
<1>25. CASE WatchdogFires
  BY <1>25 DEF WatchdogFires, Ends, Answered
<1>26. CASE LongPressResets
  BY <1>26 DEF LongPressResets, Ends, Answered
<1>27. CASE InitEnds
  BY <1>27 DEF InitEnds, Ends, Answered
<1>28. CASE Boot
  BY <1>28 DEF Boot, Answered
<1>29. CASE UNCHANGED vars
  BY <1>29 DEF vars, daemon, safety, app, past, Answered
<1> QED
  BY <1>1, <1>2, <1>3, <1>4, <1>5, <1>6, <1>7, <1>8, <1>9, <1>10, <1>11, <1>12, <1>13,
       <1>14, <1>15, <1>16, <1>17, <1>18, <1>19, <1>20, <1>21, <1>22, <1>23, <1>24,
       <1>25, <1>26, <1>27, <1>28, <1>29
     DEF Next, Coordinate, World

(* From the kill on the player is still: only StopReborn's failure breaks it. *)
LEMMA QuietStep == TypeOK /\ Quiet /\ Intended /\ [Next]_vars => Quiet'
<1> SUFFICES ASSUME TypeOK, Quiet, Intended, [Next]_vars PROVE Quiet'
  OBVIOUS
<1>1. CASE \E action \in Actions : Request(action)
  BY <1>1, Publishes DEF Request, Serves, Begin, safety, app, Quiet, Gone, Darkened,
       Intended, Running, Steps
<1>2. CASE \E outcome \in {"Ready", "Failed"} : Ack(outcome)
  BY <1>2, Publishes DEF Ack, Serves, pending, safety, Quiet, Gone, Darkened,
       Intended, Running, Steps
<1>3. CASE Sample
  BY <1>3, Publishes DEF Sample, observe, Begin, safety, app, Quiet, Gone, Darkened, Intended,
       Running, Steps
<1>4. CASE New
  BY <1>4 DEF New, safety, app, past, Quiet, Gone, Darkened, Intended, Running, Steps
<1>5. CASE Execute
  BY <1>5, Publishes DEF Execute, At, Then, due, pending, safety, app, Quiet, Gone,
       Darkened, Intended, Running, Steps
<1>6. CASE arm_watchdog
  BY <1>6, FailsType DEF arm_watchdog, At, Then, app, Quiet, Gone, Darkened, Intended,
       Running, Steps
<1>7. CASE long_press_reset_off
  BY <1>7 DEF long_press_reset_off, At, Then, app, past, Quiet, Gone, Darkened,
       Intended, Running, Steps
<1>8. CASE JournalPending
  BY <1>8 DEF JournalPending, At, Then, Mark, safety, app, past, Quiet, Gone,
       Darkened, Intended, Running, Steps
<1>9. CASE BacklightEarly
  BY <1>9, FailsType DEF BacklightEarly, At, Then, Darken, safety, Quiet, Gone,
       Darkened, Intended, Running, Steps
<1>10. CASE StopReborn
  BY <1>10, FailsType DEF StopReborn, At, Then, safety, Quiet, Gone, Darkened,
       Intended, Running, Steps
<1>11. CASE Kill
  BY <1>11 DEF Kill, At, Then, Ended, safety, past, Quiet, Gone, Darkened, Intended,
       Running, Steps
<1>12. CASE Backlight
  BY <1>12, FailsType DEF Backlight, At, Then, Darken, safety, Quiet, Gone, Darkened,
       Intended, Running, Steps
<1>13. CASE Sync
  BY <1>13, FailsType DEF Sync, At, Then, safety, past, Quiet, Gone, Darkened,
       Intended, Running, Steps
<1>14. CASE StopRadios
  BY <1>14 DEF StopRadios, At, Then, safety, app, past, Quiet, Gone, Darkened,
       Intended, Running, Steps
<1>15. CASE JournalComplete
  BY <1>15 DEF JournalComplete, At, Then, Mark, safety, app, past, Quiet, Gone,
       Darkened, Intended, Running, Steps
<1>16. CASE InitAsked
  BY <1>16, Publishes DEF InitAsked, At, Then, safety, app, Quiet, Gone, Darkened,
       Intended, Running, Steps
<1>17. CASE InitRefuses
  BY <1>17, Publishes DEF InitRefuses, At, Then, safety, app, Quiet, Gone, Darkened,
       Intended, Running, Steps
<1>18. CASE RebornLights
  BY <1>18 DEF RebornLights, daemon, safety, past, Quiet, Gone, Darkened, Intended,
       Running, Steps
<1>19. CASE RebornDies
  BY <1>19 DEF RebornDies, Ended, daemon, safety, past, Quiet, Gone, Darkened,
       Intended, Running, Steps
<1>20. CASE RebornStarts
  BY <1>20 DEF RebornStarts, daemon, safety, past, Quiet, Gone, Darkened, Intended,
       Running, Steps
<1>21. CASE Discharge
  BY <1>21 DEF Discharge, At, daemon, safety, app, past, Quiet, Gone, Darkened,
       Intended, Running, Steps
<1>22. CASE Deadline
  BY <1>22 DEF Deadline, At, daemon, safety, app, past, Quiet, Gone, Darkened,
       Intended, Running, Steps
<1>23. CASE DaemonDies
  BY <1>23 DEF DaemonDies, safety, app, Quiet, Gone, Darkened, Intended, Running, Steps
<1>24. CASE Stalls
  BY <1>24 DEF Stalls, daemon, safety, app, past, Quiet, Gone, Darkened, Intended,
       Running, Steps
<1>25. CASE WatchdogFires
  BY <1>25 DEF WatchdogFires, Ends, Quiet, Gone, Darkened, Intended, Running, Steps
<1>26. CASE LongPressResets
  BY <1>26 DEF LongPressResets, Ends, Quiet, Gone, Darkened, Intended, Running, Steps
<1>27. CASE InitEnds
  BY <1>27 DEF InitEnds, Ends, Quiet, Gone, Darkened, Intended, Running, Steps
<1>28. CASE Boot
  BY <1>28 DEF Boot, Quiet, Gone, Darkened, Intended, Running, Steps
<1>29. CASE UNCHANGED vars
  BY <1>29 DEF vars, daemon, safety, app, past, Quiet, Gone, Darkened, Intended,
       Running, Steps
<1> QED
  BY <1>1, <1>2, <1>3, <1>4, <1>5, <1>6, <1>7, <1>8, <1>9, <1>10, <1>11, <1>12, <1>13,
       <1>14, <1>15, <1>16, <1>17, <1>18, <1>19, <1>20, <1>21, <1>22, <1>23, <1>24,
       <1>25, <1>26, <1>27, <1>28, <1>29
     DEF Next, Coordinate, World

(* The light that is put out stays out, and what was saved stays saved.      *)
LEMMA DarkStep ==
  TypeOK /\ Intended /\ Quiet /\ Dark /\ DarkForInit /\ [Next]_vars
    => Dark' /\ DarkForInit'
<1> SUFFICES ASSUME TypeOK, Intended, Quiet, Dark, DarkForInit, [Next]_vars PROVE
     Dark' /\ DarkForInit'
  OBVIOUS
<1> USE DEF Intended, Running
<1>1. CASE \E action \in Actions : Request(action)
  BY <1>1, Publishes DEF Request, Serves, Begin, safety, app, Quiet, Dark,
       DarkForInit, Gone, Darkened
<1>2. CASE \E outcome \in {"Ready", "Failed"} : Ack(outcome)
  BY <1>2, Publishes DEF Ack, Serves, pending, safety, Quiet, Dark, DarkForInit, Gone,
       Darkened
<1>3. CASE Sample
  BY <1>3, Publishes DEF Sample, observe, Begin, safety, app, Quiet, Dark, DarkForInit, Gone,
       Darkened
<1>4. CASE New
  BY <1>4 DEF New, safety, app, past, Quiet, Dark, DarkForInit, Gone, Darkened
<1>5. CASE Execute
  BY <1>5, Publishes DEF Execute, At, Then, due, pending, safety, app, Quiet, Dark,
       DarkForInit, Gone, Darkened
<1>6. CASE arm_watchdog
  BY <1>6, FailsType DEF arm_watchdog, At, Then, app, Quiet, Dark, DarkForInit, Gone,
       Darkened
<1>7. CASE long_press_reset_off
  BY <1>7 DEF long_press_reset_off, At, Then, app, past, Quiet, Dark, DarkForInit,
       Gone, Darkened
<1>8. CASE JournalPending
  BY <1>8 DEF JournalPending, At, Then, Mark, safety, app, past, Quiet, Dark,
       DarkForInit, Gone, Darkened
<1>9. CASE BacklightEarly
  BY <1>9, FailsType DEF BacklightEarly, At, Then, Darken, safety, Quiet, Dark,
       DarkForInit, Gone, Darkened
<1>10. CASE StopReborn
  BY <1>10, FailsType DEF StopReborn, At, Then, safety, Quiet, Dark, DarkForInit,
       Gone, Darkened
<1>11. CASE Kill
  BY <1>11 DEF Kill, At, Then, Ended, safety, past, Quiet, Dark, DarkForInit, Gone,
       Darkened
<1>12. CASE Backlight
  BY <1>12, FailsType DEF Backlight, At, Then, Darken, safety, Quiet, Dark,
       DarkForInit, Gone, Darkened
<1>13. CASE Sync
  BY <1>13, FailsType DEF Sync, At, Then, safety, past, Quiet, Dark, DarkForInit,
       Gone, Darkened
<1>14. CASE StopRadios
  BY <1>14 DEF StopRadios, At, Then, safety, app, past, Quiet, Dark, DarkForInit,
       Gone, Darkened
<1>15. CASE JournalComplete
  BY <1>15 DEF JournalComplete, At, Then, Mark, safety, app, past, Quiet, Dark,
       DarkForInit, Gone, Darkened
<1>16. CASE InitAsked
  BY <1>16, Publishes DEF InitAsked, At, Then, safety, app, Quiet, Dark, DarkForInit,
       Gone, Darkened
<1>17. CASE InitRefuses
  BY <1>17, Publishes DEF InitRefuses, At, Then, safety, app, Quiet, Dark,
       DarkForInit, Gone, Darkened
<1>18. CASE RebornLights
  BY <1>18 DEF RebornLights, daemon, safety, past, Quiet, Dark, DarkForInit, Gone,
       Darkened
<1>19. CASE RebornDies
  BY <1>19 DEF RebornDies, Ended, daemon, safety, past, Quiet, Dark, DarkForInit,
       Gone, Darkened
<1>20. CASE RebornStarts
  BY <1>20 DEF RebornStarts, daemon, safety, past, Quiet, Dark, DarkForInit, Gone,
       Darkened
<1>21. CASE Discharge
  BY <1>21 DEF Discharge, At, daemon, safety, app, past, Quiet, Dark, DarkForInit,
       Gone, Darkened
<1>22. CASE Deadline
  BY <1>22 DEF Deadline, At, daemon, safety, app, past, Quiet, Dark, DarkForInit,
       Gone, Darkened
<1>23. CASE DaemonDies
  BY <1>23 DEF DaemonDies, safety, app, Quiet, Dark, DarkForInit, Gone, Darkened
<1>24. CASE Stalls
  BY <1>24 DEF Stalls, daemon, safety, app, past, Quiet, Dark, DarkForInit, Gone,
       Darkened
<1>25. CASE WatchdogFires
  BY <1>25 DEF WatchdogFires, Ends, Quiet, Dark, DarkForInit, Gone, Darkened
<1>26. CASE LongPressResets
  BY <1>26 DEF LongPressResets, Ends, Quiet, Dark, DarkForInit, Gone, Darkened
<1>27. CASE InitEnds
  BY <1>27 DEF InitEnds, Ends, Quiet, Dark, DarkForInit, Gone, Darkened
<1>28. CASE Boot
  BY <1>28 DEF Boot, Quiet, Dark, DarkForInit, Gone, Darkened
<1>29. CASE UNCHANGED vars
  BY <1>29 DEF vars, daemon, safety, app, past, Quiet, Dark, DarkForInit, Gone, Darkened
<1> QED
  BY <1>1, <1>2, <1>3, <1>4, <1>5, <1>6, <1>7, <1>8, <1>9, <1>10, <1>11, <1>12, <1>13,
       <1>14, <1>15, <1>16, <1>17, <1>18, <1>19, <1>20, <1>21, <1>22, <1>23, <1>24,
       <1>25, <1>26, <1>27, <1>28, <1>29
     DEF Next, Coordinate, World

(* shutdown_complete stands for saved data: nobody writes after the sync.     *)
LEMMA SavedStep ==
  TypeOK /\ Quiet /\ OrderlyMeansSaved /\ [Next]_vars
    => OrderlyMeansSaved'
<1> SUFFICES ASSUME TypeOK, Quiet, OrderlyMeansSaved, [Next]_vars PROVE
     OrderlyMeansSaved'
  OBVIOUS
<1>1. CASE \E action \in Actions : Request(action)
  BY <1>1, Publishes DEF Request, Serves, Begin, safety, app, Quiet,
       OrderlyMeansSaved, Gone, Darkened
<1>2. CASE \E outcome \in {"Ready", "Failed"} : Ack(outcome)
  BY <1>2, Publishes DEF Ack, Serves, pending, safety, Quiet, OrderlyMeansSaved, Gone,
       Darkened
<1>3. CASE Sample
  BY <1>3, Publishes DEF Sample, observe, Begin, safety, app, Quiet, OrderlyMeansSaved, Gone,
       Darkened
<1>4. CASE New
  BY <1>4 DEF New, safety, app, past, Quiet, OrderlyMeansSaved, Gone, Darkened
<1>5. CASE Execute
  BY <1>5, Publishes DEF Execute, At, Then, due, pending, safety, app, Quiet,
       OrderlyMeansSaved, Gone, Darkened
<1>6. CASE arm_watchdog
  BY <1>6, FailsType DEF arm_watchdog, At, Then, app, Quiet, OrderlyMeansSaved, Gone,
       Darkened
<1>7. CASE long_press_reset_off
  BY <1>7 DEF long_press_reset_off, At, Then, app, past, Quiet, OrderlyMeansSaved,
       Gone, Darkened
<1>8. CASE JournalPending
  BY <1>8 DEF JournalPending, At, Then, Mark, safety, app, past, Quiet,
       OrderlyMeansSaved, Gone, Darkened
<1>9. CASE BacklightEarly
  BY <1>9, FailsType DEF BacklightEarly, At, Then, Darken, safety, Quiet,
       OrderlyMeansSaved, Gone, Darkened
<1>10. CASE StopReborn
  BY <1>10, FailsType DEF StopReborn, At, Then, safety, Quiet, OrderlyMeansSaved,
       Gone, Darkened
<1>11. CASE Kill
  BY <1>11 DEF Kill, At, Then, Ended, safety, past, Quiet, OrderlyMeansSaved, Gone,
       Darkened
<1>12. CASE Backlight
  BY <1>12, FailsType DEF Backlight, At, Then, Darken, safety, Quiet,
       OrderlyMeansSaved, Gone, Darkened
<1>13. CASE Sync
  BY <1>13, FailsType DEF Sync, At, Then, safety, past, Quiet, OrderlyMeansSaved,
       Gone, Darkened
<1>14. CASE StopRadios
  BY <1>14 DEF StopRadios, At, Then, safety, app, past, Quiet, OrderlyMeansSaved,
       Gone, Darkened
<1>15. CASE JournalComplete
  BY <1>15 DEF JournalComplete, At, Then, Mark, safety, app, past, Quiet,
       OrderlyMeansSaved, Gone, Darkened
<1>16. CASE InitAsked
  BY <1>16, Publishes DEF InitAsked, At, Then, safety, app, Quiet, OrderlyMeansSaved,
       Gone, Darkened
<1>17. CASE InitRefuses
  BY <1>17, Publishes DEF InitRefuses, At, Then, safety, app, Quiet,
       OrderlyMeansSaved, Gone, Darkened
<1>18. CASE RebornLights
  BY <1>18 DEF RebornLights, daemon, safety, past, Quiet, OrderlyMeansSaved, Gone,
       Darkened
<1>19. CASE RebornDies
  BY <1>19 DEF RebornDies, Ended, daemon, safety, past, Quiet, OrderlyMeansSaved,
       Gone, Darkened
<1>20. CASE RebornStarts
  BY <1>20 DEF RebornStarts, daemon, safety, past, Quiet, OrderlyMeansSaved, Gone,
       Darkened
<1>21. CASE Discharge
  BY <1>21 DEF Discharge, At, daemon, safety, app, past, Quiet, OrderlyMeansSaved,
       Gone, Darkened
<1>22. CASE Deadline
  BY <1>22 DEF Deadline, At, daemon, safety, app, past, Quiet, OrderlyMeansSaved,
       Gone, Darkened
<1>23. CASE DaemonDies
  BY <1>23 DEF DaemonDies, safety, app, Quiet, OrderlyMeansSaved, Gone, Darkened
<1>24. CASE Stalls
  BY <1>24 DEF Stalls, daemon, safety, app, past, Quiet, OrderlyMeansSaved, Gone,
       Darkened
<1>25. CASE WatchdogFires
  BY <1>25 DEF WatchdogFires, Ends, Quiet, OrderlyMeansSaved, Gone, Darkened
<1>26. CASE LongPressResets
  BY <1>26 DEF LongPressResets, Ends, Quiet, OrderlyMeansSaved, Gone, Darkened
<1>27. CASE InitEnds
  BY <1>27 DEF InitEnds, Ends, Quiet, OrderlyMeansSaved, Gone, Darkened
<1>28. CASE Boot
  BY <1>28 DEF Boot, Quiet, OrderlyMeansSaved, Gone, Darkened
<1>29. CASE UNCHANGED vars
  BY <1>29 DEF vars, daemon, safety, app, past, Quiet, OrderlyMeansSaved, Gone, Darkened
<1> QED
  BY <1>1, <1>2, <1>3, <1>4, <1>5, <1>6, <1>7, <1>8, <1>9, <1>10, <1>11, <1>12, <1>13,
       <1>14, <1>15, <1>16, <1>17, <1>18, <1>19, <1>20, <1>21, <1>22, <1>23, <1>24,
       <1>25, <1>26, <1>27, <1>28, <1>29
     DEF Next, Coordinate, World

(* A published change of the intent is about the action it was about.        *)
LEMMA SameAction ==
  ASSUME OneAction, Running, pc # "down", Publish(intent'),
         intent'.action = intent.action, promised' = promised,
         asked' \in {asked, intent.action}, powersOff' = powersOff
  PROVE  OneAction'
<1> SUFFICES ASSUME "publish" \notin mishaps'
             PROVE  /\ promised' \subseteq {file'.action}
                    /\ asked' \in {"none", file'.action}
                    /\ powersOff' => file'.action = "poweroff"
                    /\ intent'.action = file'.action
  BY DEF OneAction
<1>1. "publish" \notin mishaps /\ file' = intent'
  BY Publishes
<1> QED
  BY <1>1 DEF OneAction

(* Before an intent nothing is promised, asked or switched.                  *)
LEMMA FirstAction ==
  ASSUME TypeOK, OneAction, Running, pc # "down", intent = Nothing,
         NEW action \in Actions, Begin(action),
         promised' \subseteq promised \cup {action}, asked' = asked, powersOff' =
              powersOff
  PROVE  OneAction'
<1> SUFFICES ASSUME "publish" \notin mishaps'
             PROVE  /\ promised' \subseteq {file'.action}
                    /\ asked' \in {"none", file'.action}
                    /\ powersOff' => file'.action = "poweroff"
                    /\ intent'.action = file'.action
  BY DEF OneAction
<1>1. intent'.action = action /\ Publish(intent')
  BY BeginIntent
<1>2. "publish" \notin mishaps /\ file' = intent'
  BY <1>1, Publishes
<1>3. file.action = "none"
  BY <1>2, NothingFields DEF OneAction
<1>4. promised = {} /\ asked = "none" /\ ~powersOff
  BY <1>2, <1>3, NothingFields DEF OneAction, TypeOK
<1> QED
  BY <1>1, <1>2, <1>4

(* One action in a boot, and its end.                                        *)
LEMMA OneActionStep ==
  TypeOK /\ Intended /\ OneAction /\ EndsAsPromised /\ [Next]_vars
    => OneAction' /\ EndsAsPromised'
<1> SUFFICES ASSUME TypeOK, Intended, OneAction, EndsAsPromised, [Next]_vars PROVE
     OneAction' /\ EndsAsPromised'
  OBVIOUS
<1>1. CASE \E action \in Actions : Request(action)
  <2> PICK action \in Actions : Request(action)
    BY <1>1
  <2>1. /\ Running /\ pc # "down" /\ pc' = pc /\ power' = "on"
        /\ asked' = asked /\ powersOff' = powersOff
    BY DEF Request, Serves, Running, safety
  <2>2. CASE intent = Nothing
    <3>1. Begin(action) /\ promised' \subseteq promised \cup {action}
      BY <2>2, NothingFields DEF Request
    <3> QED
      BY <2>1, <2>2, <3>1, FirstAction DEF EndsAsPromised
  <2>3. CASE intent # Nothing
    BY <2>1, <2>3 DEF Request, OneAction, EndsAsPromised
  <2> QED
    BY <2>2, <2>3
<1>2. CASE \E outcome \in {"Ready", "Failed"} : Ack(outcome)
  <2> PICK outcome \in {"Ready", "Failed"} : Ack(outcome)
    BY <1>2
  <2>1. /\ Running /\ pc # "down" /\ pc' = pc /\ power' = "on" /\ promised' = promised
        /\ asked' = asked /\ powersOff' = powersOff
    BY DEF Ack, Serves, Running, safety
  <2>2. CASE intent.client = process_identity
    BY <2>1, <2>2, AckIntent, SameAction DEF EndsAsPromised
  <2>3. CASE intent.client # process_identity
    BY <2>1, <2>3 DEF Ack, OneAction, EndsAsPromised
  <2> QED
    BY <2>2, <2>3
<1>3. CASE Sample
  <2>1. /\ Running /\ pc # "down" /\ pc' = pc /\ power' = "on" /\ promised' = promised
        /\ asked' = asked /\ powersOff' = powersOff
    BY <1>3 DEF Sample, observe, Running, safety
  <2>2. CASE samples' = critical_samples /\ intent = Nothing
    <3>1. Begin("poweroff") /\ "poweroff" \in Actions
      BY <1>3, <2>2 DEF Sample, observe, Actions
    <3> QED
      BY <2>1, <2>2, <3>1, FirstAction DEF EndsAsPromised
  <2>3. CASE UNCHANGED <<intent, file, late, mishaps>>
    BY <2>1, <2>3 DEF OneAction, EndsAsPromised
  <2> QED
    BY <1>3, <2>2, <2>3 DEF Sample, observe
<1>4. CASE New
  <2>1. intent'.action = file.action
    BY <1>4, IntentFields DEF New, TypeOK
  <2> QED
    BY <1>4, <2>1 DEF New, OneAction, EndsAsPromised, Running, safety, past
<1>5. CASE Execute
  <2>1. intent \in Intent
    BY <1>5 DEF Execute, At, due, pending, TypeOK, Intended, Steps
  <2>2. intent'.action = intent.action /\ Publish(intent')
    BY <1>5, <2>1, IntentFields DEF Execute
  <2>3. /\ Running /\ pc # "down" /\ promised' = promised /\ power' = "on"
        /\ asked' \in {asked, intent.action} /\ powersOff' = powersOff
    BY <1>5 DEF Execute, At, Running, safety
  <2> QED
    BY <2>2, <2>3, SameAction DEF EndsAsPromised
<1>6. CASE arm_watchdog
  BY <1>6, FailsType DEF arm_watchdog, At, Then, app, OneAction, EndsAsPromised,
       Intended, Running, EndOf, Steps
<1>7. CASE long_press_reset_off
  BY <1>7 DEF long_press_reset_off, At, Then, app, past, OneAction, EndsAsPromised,
       Intended, Running, EndOf, Steps
<1>8. CASE JournalPending
  BY <1>8 DEF JournalPending, At, Then, Mark, safety, app, past, OneAction,
       EndsAsPromised, Intended, Running, EndOf, Steps
<1>9. CASE BacklightEarly
  BY <1>9, FailsType DEF BacklightEarly, At, Then, Darken, safety, OneAction,
       EndsAsPromised, Intended, Running, EndOf, Steps
<1>10. CASE StopReborn
  BY <1>10, FailsType DEF StopReborn, At, Then, safety, OneAction, EndsAsPromised,
       Intended, Running, EndOf, Steps
<1>11. CASE Kill
  BY <1>11 DEF Kill, At, Then, Ended, safety, past, OneAction, EndsAsPromised,
       Intended, Running, EndOf, Steps
<1>12. CASE Backlight
  BY <1>12, FailsType DEF Backlight, At, Then, Darken, safety, OneAction,
       EndsAsPromised, Intended, Running, EndOf, Steps
<1>13. CASE Sync
  BY <1>13, FailsType DEF Sync, At, Then, safety, past, OneAction, EndsAsPromised,
       Intended, Running, EndOf, Steps
<1>14. CASE StopRadios
  BY <1>14 DEF StopRadios, At, Then, safety, app, past, OneAction, EndsAsPromised,
       Intended, Running, EndOf, Steps
<1>15. CASE JournalComplete
  BY <1>15 DEF JournalComplete, At, Then, Mark, safety, app, past, OneAction,
       EndsAsPromised, Intended, Running, EndOf, Steps
<1>16. CASE InitAsked
  <2>1. intent \in Intent
    BY <1>16 DEF InitAsked, At, due, pending, TypeOK, Intended, Steps
  <2>2. intent'.action = intent.action /\ Publish(intent')
    BY <1>16, <2>1, IntentFields DEF InitAsked
  <2>3. /\ Running /\ pc # "down" /\ promised' = promised /\ power' = "on"
        /\ asked' \in {asked, intent.action} /\ powersOff' = powersOff
    BY <1>16 DEF InitAsked, At, Running, safety
  <2> QED
    BY <2>2, <2>3, SameAction DEF EndsAsPromised
<1>17. CASE InitRefuses
  <2>1. intent \in Intent
    BY <1>17 DEF InitRefuses, At, due, pending, TypeOK, Intended, Steps
  <2>2. intent'.action = intent.action /\ Publish(intent')
    BY <1>17, <2>1, IntentFields DEF InitRefuses
  <2>3. /\ Running /\ pc # "down" /\ promised' = promised /\ power' = "on"
        /\ asked' \in {asked, intent.action} /\ powersOff' = powersOff
    BY <1>17 DEF InitRefuses, At, Running, safety
  <2> QED
    BY <2>2, <2>3, SameAction DEF EndsAsPromised
<1>18. CASE RebornLights
  BY <1>18 DEF RebornLights, daemon, safety, past, OneAction, EndsAsPromised,
       Intended, Running, EndOf, Steps
<1>19. CASE RebornDies
  BY <1>19 DEF RebornDies, Ended, daemon, safety, past, OneAction, EndsAsPromised,
       Intended, Running, EndOf, Steps
<1>20. CASE RebornStarts
  BY <1>20 DEF RebornStarts, daemon, safety, past, OneAction, EndsAsPromised,
       Intended, Running, EndOf, Steps
<1>21. CASE Discharge
  BY <1>21 DEF Discharge, At, daemon, safety, app, past, OneAction, EndsAsPromised,
       Intended, Running, EndOf, Steps
<1>22. CASE Deadline
  BY <1>22 DEF Deadline, At, daemon, safety, app, past, OneAction, EndsAsPromised,
       Intended, Running, EndOf, Steps
<1>23. CASE DaemonDies
  BY <1>23 DEF DaemonDies, safety, app, OneAction, EndsAsPromised, Intended, Running,
       EndOf, Steps
<1>24. CASE Stalls
  BY <1>24 DEF Stalls, daemon, safety, app, past, OneAction, EndsAsPromised, Intended,
       Running, EndOf, Steps
<1>25. CASE WatchdogFires
  <2>1. Running /\ Ends(IF powersOff THEN "off" ELSE "restarted")
    BY <1>25 DEF WatchdogFires, Running
  <2>2. OneAction'
    BY <2>1 DEF Ends, OneAction, Running
  <2>3. ASSUME "publish" \notin mishaps', NEW action \in promised'
        PROVE  power' = EndOf[action] \/ (action = "poweroff" /\ ~powersOff')
    <3>1. /\ action \in Actions /\ action = file.action
          /\ powersOff => action = "poweroff"
      BY <2>1, <2>3 DEF Ends, OneAction, TypeOK
    <3>2. power' = (IF powersOff THEN "off" ELSE "restarted") /\ powersOff' = powersOff
      BY <2>1 DEF Ends
    <3> QED
      BY <3>1, <3>2 DEF Actions, EndOf
  <2> QED
    BY <2>2, <2>3 DEF EndsAsPromised
<1>26. CASE LongPressResets
  BY <1>26 DEF LongPressResets, Ends, OneAction, EndsAsPromised, Intended, Running,
       EndOf, Steps
<1>27. CASE InitEnds
  <2>1. Running /\ Ends(EndOf[asked])
    BY <1>27 DEF InitEnds, Running
  <2>2. OneAction'
    <3>1. EndOf[asked] \in {"off", "restarted"}
      BY <1>27 DEF InitEnds, EndOf, Actions, TypeOK
    <3> QED
      BY <2>1, <3>1 DEF Ends, OneAction, Running
  <2>3. ASSUME "publish" \notin mishaps', NEW action \in promised'
        PROVE  power' = EndOf[action]
    <3>1. action = file.action /\ asked = file.action
      BY <1>27, <2>1, <2>3 DEF Ends, OneAction, InitEnds
    <3> QED
      BY <2>1, <3>1 DEF Ends
  <2> QED
    BY <2>2, <2>3 DEF EndsAsPromised
<1>28. CASE Boot
  BY <1>28 DEF Boot, OneAction, EndsAsPromised, Intended, Running, EndOf, Steps
<1>29. CASE UNCHANGED vars
  BY <1>29 DEF vars, daemon, safety, app, past, OneAction, EndsAsPromised, Intended,
       Running, EndOf, Steps
<1> QED
  BY <1>1, <1>2, <1>3, <1>4, <1>5, <1>6, <1>7, <1>8, <1>9, <1>10, <1>11, <1>12, <1>13,
       <1>14, <1>15, <1>16, <1>17, <1>18, <1>19, <1>20, <1>21, <1>22, <1>23, <1>24,
       <1>25, <1>26, <1>27, <1>28, <1>29
     DEF Next, Coordinate, World

-----------------------------------------------------------------------------
(* All together.                                                             *)

LEMMA InitHolds == Init => IInv
<1> SUFFICES ASSUME Init PROVE IInv
  OBVIOUS
<1>1. TypeOK
  <2>1. /\ samples \in 0..critical_samples /\ starts \in 1..MaxStarts /\ crashes \in Nat
    BY PowerAssumption DEF Init
  <2>2. /\ pc \in {"loop", "down"} \cup Steps
        /\ intent \in Intent \cup {Nothing} /\ file \in Intent \cup {Nothing}
        /\ late \in BOOLEAN /\ critical \in BOOLEAN /\ synced \in BOOLEAN
        /\ watchdog \in BOOLEAN /\ powersOff \in BOOLEAN /\ longPress \in BOOLEAN
        /\ reborn \in BOOLEAN /\ lit \in BOOLEAN /\ saved \in BOOLEAN
    BY DEF Init
  <2>3. /\ stage \in {"started", "shutdown_pending", "shutdown_complete"}
        /\ asked \in Actions \cup {"none"}
        /\ power \in {"on", "stalled", "off", "restarted", "cut"}
        /\ sup \in {"watches", "naps", "gone"} /\ promised \subseteq Actions
        /\ mishaps \subseteq {"publish", "watchdog", "light", "stop"}
    BY DEF Init
  <2> QED
    BY <2>1, <2>2, <2>3 DEF TypeOK
<1>2. Intended /\ Answered /\ Armed /\ EscapeRemains
  BY DEF Init, Intended, Running, Steps, Answered, Armed, EscapeRemains
<1>3. OneAction /\ EndsAsPromised
  BY NothingFields DEF Init, OneAction, EndsAsPromised
<1>4. Quiet /\ Dark /\ DarkForInit /\ OrderlyMeansSaved
  BY DEF Init, Quiet, Dark, Darkened, DarkForInit, OrderlyMeansSaved
<1> QED
  BY <1>1, <1>2, <1>3, <1>4 DEF IInv

LEMMA StepType == TypeOK /\ Intended /\ [Next]_vars => TypeOK'
<1>1. ASSUME TypeOK, UNCHANGED vars PROVE TypeOK'
  BY <1>1 DEF TypeOK, vars, daemon, safety, app, past
<1> QED
  BY <1>1, RequestType, AckType, SampleType, NewType, CoordinateType, WorldType DEF Next

LEMMA StepHolds == IInv /\ [Next]_vars => IInv'
  BY StepType, IntendedStep, ArmedStep, AnsweredStep, QuietStep, DarkStep, SavedStep,
     OneActionStep DEF IInv

(* The strengthened invariant holds.                                         *)
THEOREM Inductive == Spec => []IInv
  BY InitHolds, StepHolds, PTL DEF Spec

(* The daemon, its record, Reborn and the switches keep their types; Reborn  *)
(* is never started more often than its supervisor's budget allows.          *)
THEOREM TypeCorrect == Spec => []TypeOK
<1>1. IInv => TypeOK
  BY DEF IInv
<1> QED
  BY <1>1, Inductive, PTL

(* A watchdog runs or the long-press reset works, through every step, every  *)
(* death of the daemon and every stall (arm_watchdog, long_press_reset_off). *)
THEOREM WayOut == Spec => []EscapeRemains
<1>1. IInv => EscapeRemains
  BY DEF IInv
<1> QED
  BY <1>1, Inductive, PTL

(* Every answered request is what the player ends with, whichever of init    *)
(* and the watchdog ends it, while the records could be published (request,  *)
(* new, execute).                                                            *)
THEOREM PromiseKept == Spec => []EndsAsPromised
<1>1. IInv => EndsAsPromised
  BY DEF IInv
<1> QED
  BY <1>1, Inductive, PTL

(* Init never gets a lit panel, unless Reborn could not be stopped or the     *)
(* light not put out (execute).                                              *)
THEOREM OrderlyEnd == Spec => []DarkForInit
<1>1. IInv => DarkForInit
  BY DEF IInv
<1> QED
  BY <1>1, Inductive, PTL

(* shutdown_complete is only written over data that a sync saved after the    *)
(* end of Reborn, unless its supervisor could not be stopped (execute).      *)
THEOREM OrderlySaved == Spec => []OrderlyMeansSaved
<1>1. IInv => OrderlyMeansSaved
  BY DEF IInv
<1> QED
  BY <1>1, Inductive, PTL

(* The owner's grace ends early only by the answer of the Reborn that the    *)
(* shutdown was requested under (ack, due).                                  *)
THEOREM Grace == Spec => GraceKept
<1>1. ASSUME IInv, Next, pc = "loop", pc' \in Steps
      PROVE  late \/ (intent.ack = "Ready" /\ intent.by = intent.client)
  <2>1. Execute
    <3>1. \A step \in Steps : step # "loop"
      BY DEF Steps
    <3>2. ~\E action \in Actions : Request(action)
      BY <1>1, <3>1 DEF Request
    <3>3. ~\E outcome \in {"Ready", "Failed"} : Ack(outcome)
      BY <1>1, <3>1 DEF Ack
    <3>4. ~Sample /\ ~New
      BY <1>1, <3>1 DEF Sample, observe, New
    <3>5. ~World
      BY <1>1, <3>1 DEF World, RebornLights, RebornDies, RebornStarts, Discharge,
           Deadline,
         DaemonDies, Stalls, WatchdogFires, LongPressResets, InitEnds, Ends, Boot,
              daemon, Steps
    <3> QED
      BY <1>1, <3>2, <3>3, <3>4, <3>5
         DEF Next, Coordinate, At, arm_watchdog, long_press_reset_off, JournalPending,
         BacklightEarly, StopReborn, Kill, Backlight, Sync, StopRadios, JournalComplete,
         InitAsked, InitRefuses
  <2> QED
    BY <1>1, <2>1 DEF Execute, due, ready, pending, IInv, Answered
<1>2. IInv /\ [Next]_vars =>
        [pc = "loop" /\ pc' \in Steps =>
           late \/ (intent.ack = "Ready" /\ intent.by = intent.client)]_vars
  BY <1>1
<1> QED
  BY <1>2, Inductive, PTL DEF GraceKept, Spec
-----------------------------------------------------------------------------
(* One way to end for one boot: every step is one of ShutdownPromise, or     *)
(* does not concern it.                                                      *)

(* A daemon that runs has the intent of its record; a dead one has none.     *)
Recorded ==
  /\ pc = "down" => intent = Nothing
  /\ pc # "down" /\ file # Nothing => intent # Nothing /\ intent.action = file.action

Kept == Recorded' /\ [Boots!Next]_Boots!vars

(* An intent is for an action.                                               *)
LEMMA IntentActs ==
  ASSUME NEW i \in Intent
  PROVE  i # Nothing /\ i.action \in Actions /\ i.action # "none"
<1>1. i # Nothing /\ i.action \in Actions
  BY IntentFields
<1> QED
  BY <1>1, NothingFields

(* Who touches neither the record nor a switch.                              *)
LEMMA Beside ==
  ASSUME Recorded, UNCHANGED <<intent, file, promised, asked, watchdog, powersOff, longPress, power>>,
         (pc' = "down") = (pc = "down")
  PROVE  Kept
<1>1. Recorded' /\ Goal' = Goal /\ (file' # Nothing) = (file # Nothing)
  BY DEF Recorded, Goal
<1> QED
  BY <1>1 DEF Kept, Boots!vars

(* Who changes the intent of the same action and may publish it.             *)
LEMMA Republished ==
  ASSUME TypeOK, Recorded, pc # "down", pc' # "down", intent \in Intent, intent' \in Intent,
         intent'.action = intent.action, Publish(intent'),
         UNCHANGED <<promised, watchdog, powersOff, longPress, power>>,
         asked' \in {asked, intent.action}
  PROVE  Kept
<1>1. file' = file \/ file' = intent'
  BY Publishes
<1>2. intent # Nothing /\ intent' # Nothing
  BY IntentActs
<1>3. Recorded'
  BY <1>1, <1>2 DEF Recorded
<1>4. Goal' = Goal /\ Goal = intent.action /\ Goal # "none"
  BY <1>2, IntentActs DEF Goal
<1>5. file # Nothing => file' # Nothing
  BY <1>1, <1>2
<1>6. CASE asked' = intent.action
  <2>1. Boots!HandOver
    BY <1>4, <1>5, <1>6 DEF Boots!HandOver
  <2> QED
    BY <2>1, <1>3 DEF Kept, Boots!Next
<1>7. CASE asked' = asked /\ file' # Nothing
  <2>1. Boots!Record
    BY <1>4, <1>7 DEF Boots!Record
  <2> QED
    BY <2>1, <1>3 DEF Kept, Boots!Next
<1>8. CASE asked' = asked /\ file' = Nothing
  <2>1. (file' # Nothing) = (file # Nothing)
    BY <1>8, <1>5
  <2> QED
    BY <2>1, <1>3, <1>4, <1>8 DEF Kept, Boots!vars
<1> QED
  BY <1>6, <1>7, <1>8

(* The first intent of a boot.                                               *)
LEMMA Decided ==
  ASSUME TypeOK, Recorded, power = "on", pc # "down", pc' # "down", intent = Nothing,
         NEW action \in Actions, Begin(action),
         promised' \in {promised, IF file' = intent' THEN promised \cup {action} ELSE promised},
         UNCHANGED <<asked, watchdog, powersOff, longPress, power>>
  PROVE  Kept
<1>1. intent' \in Intent /\ intent'.action = action /\ (file' = file \/ file' = intent')
  BY BeginIntent, Publishes
<1>2. file = Nothing /\ Goal = "none"
  BY NothingFields DEF Recorded, Goal
<1>3. intent' # Nothing /\ Goal' = action
  BY <1>1, IntentActs DEF Goal
<1>4. Recorded'
  BY <1>1, <1>2, <1>3 DEF Recorded
<1>5. (file' # Nothing) = (file' = intent')
  BY <1>1, <1>2, <1>3
<1>6. promised' \in {promised, IF file' # Nothing THEN promised \cup {action} ELSE promised}
  BY <1>5
<1>7. Boots!Decide(action)
  BY <1>2, <1>3, <1>6 DEF Boots!Decide
<1> QED
  BY <1>4, <1>7 DEF Kept, Boots!Next, Boots!Ways, Actions

(* The end of the boot.                                                      *)
LEMMA Finished ==
  ASSUME NEW end, Running, Ends(end)
  PROVE  Recorded' /\ Boots!End(end)
<1>1. Goal' = "none" /\ file' = Nothing /\ intent' = Nothing
  BY NothingFields DEF Ends, Goal
<1>2. Recorded'
  BY <1>1 DEF Ends, Recorded
<1> QED
  BY <1>1, <1>2 DEF Ends, Boots!End, Running

(* What a client asks for, a sample and a start of the daemon.               *)
LEMMA ClientsKept ==
  ASSUME TypeOK, Recorded,
         \/ \E action \in Actions : Request(action)
         \/ \E outcome \in {"Ready", "Failed"} : Ack(outcome)
         \/ Sample \/ New
  PROVE  Kept
<1>1. CASE \E action \in Actions : Request(action)
  <2>1. PICK action \in Actions : Request(action)
    BY <1>1
  <2>2. /\ power = "on" /\ pc # "down" /\ UNCHANGED <<pc, asked, power>>
        /\ UNCHANGED <<watchdog, powersOff, longPress>>
    BY <2>1 DEF Request, Serves, safety
  <2>3. CASE /\ intent = Nothing /\ Begin(action)
             /\ promised' = IF file' = intent' THEN promised \cup {action} ELSE promised
    BY <2>2, <2>3, Decided
  <2>4. CASE /\ intent # Nothing /\ intent.action = action
             /\ promised' = promised \cup {action} /\ UNCHANGED <<intent, file>>
    <3>1. Goal = action /\ Goal' = Goal /\ Recorded' /\ Goal # "none"
      BY <2>2, <2>4, IntentActs DEF Goal, Recorded, TypeOK
    <3>2. Boots!Promise
      BY <2>2, <2>4, <3>1 DEF Boots!Promise
    <3> QED
      BY <3>1, <3>2 DEF Kept, Boots!Next
  <2> QED
    BY <2>1, <2>3, <2>4 DEF Request
<1>2. CASE \E outcome \in {"Ready", "Failed"} : Ack(outcome)
  <2>1. PICK outcome \in {"Ready", "Failed"} : Ack(outcome)
    BY <1>2
  <2>2. /\ pc # "down" /\ UNCHANGED <<pc, asked, power, promised>>
        /\ UNCHANGED <<watchdog, powersOff, longPress>> /\ intent \in Intent
    BY <2>1 DEF Ack, Serves, pending, safety, TypeOK
  <2>3. CASE intent.client = process_identity
    <3>1. intent' \in Intent /\ Publish(intent') /\ intent'.action = intent.action
      BY <2>1, <2>3, AckIntent
    <3> QED
      BY <2>2, <3>1, Republished
  <2>4. CASE UNCHANGED <<intent, file>>
    BY <2>2, <2>4, Beside
  <2> QED
    BY <2>1, <2>3, <2>4 DEF Ack
<1>3. CASE Sample
  <2>1. /\ power = "on" /\ pc # "down" /\ UNCHANGED <<pc, asked, power, promised>>
        /\ UNCHANGED <<watchdog, powersOff, longPress>>
    BY <1>3 DEF Sample, safety
  <2>2. CASE Begin("poweroff") /\ intent = Nothing
    BY <2>1, <2>2, Decided DEF Actions
  <2>3. CASE UNCHANGED <<intent, file>>
    BY <2>1, <2>3, Beside
  <2> QED
    BY <1>3, <2>2, <2>3 DEF Sample
<1>4. CASE New
  <2>1. /\ pc = "down" /\ pc' = "loop" /\ intent = Nothing
        /\ UNCHANGED <<file, asked, power, promised, watchdog, powersOff, longPress>>
    BY <1>4 DEF New, Recorded, safety, past
  <2>2. file # Nothing => intent' # Nothing /\ intent'.action = file.action
    BY <1>4, IntentFields DEF New, TypeOK
  <2>3. file = Nothing => intent' = Nothing
    BY <1>4 DEF New
  <2>4. Recorded'
    BY <2>1, <2>2 DEF Recorded
  <2>5. Goal' = Goal /\ (file' # Nothing) = (file # Nothing)
    BY <2>1, <2>2, <2>3 DEF Goal
  <2> QED
    BY <2>1, <2>4, <2>5 DEF Kept, Boots!vars
<1> QED
  BY <1>1, <1>2, <1>3, <1>4

(* The steps of a shutdown.                                                  *)
LEMMA CoordinateKept ==
  ASSUME TypeOK, Intended, Armed, EscapeRemains, Recorded, Coordinate
  PROVE  Kept
<1>1. CASE Execute
  <2>1. /\ pc # "down" /\ pc' # "down" /\ intent \in Intent
        /\ intent' = [intent EXCEPT !.state = "Executing"] /\ Publish(intent')
        /\ UNCHANGED <<promised, watchdog, powersOff, longPress, power, asked>>
    BY <1>1 DEF Execute, At, Then, due, pending, TypeOK, safety
  <2>2. intent' \in Intent /\ intent'.action = intent.action
    BY <2>1, IntentFields
  <2> QED
    BY <2>1, <2>2, Republished
<1>2. CASE arm_watchdog
  <2>1. /\ pc # "down" /\ pc' # "down" /\ intent \in Intent
        /\ UNCHANGED <<intent, file, promised, longPress, power, asked>>
        /\ watchdog => watchdog'
        /\ powersOff => powersOff'
        /\ powersOff' => powersOff \/ intent.action = "poweroff"
    BY <1>2, FailsType DEF arm_watchdog, At, Then, Intended, Steps, TypeOK, app
  <2>2. Recorded' /\ Goal' = Goal /\ Goal = intent.action /\ Goal # "none"
    BY <2>1, IntentActs DEF Recorded, Goal
  <2>3. Boots!Arm
    BY <2>1, <2>2 DEF Boots!Arm
  <2> QED
    BY <2>2, <2>3 DEF Kept, Boots!Next
<1>3. CASE long_press_reset_off
  <2>1. /\ pc = "long_press_reset" /\ pc' # "down"
        /\ UNCHANGED <<intent, file, promised, watchdog, powersOff, power, asked>>
    BY <1>3 DEF long_press_reset_off, At, Then, app, past
  <2>2. CASE longPress' = longPress
    BY <2>1, <2>2, Beside
  <2>3. CASE watchdog /\ ~longPress'
    <3>1. Recorded' /\ Goal' = Goal /\ (file' # Nothing) = (file # Nothing)
      BY <2>1 DEF Recorded, Goal
    <3>2. Boots!GiveUpEscape
      BY <2>1, <2>3, <3>1 DEF Boots!GiveUpEscape
    <3> QED
      BY <3>1, <3>2 DEF Kept, Boots!Next
  <2>4. CASE "watchdog" \in mishaps
    <3>1. longPress' = longPress
      BY <1>3, <2>4 DEF long_press_reset_off
    <3> QED
      BY <2>1, <3>1, Beside
  <2>5. CASE "watchdog" \notin mishaps
    <3>1. longPress' = longPress \/ longPress' = FALSE
      BY <1>3, <2>5 DEF long_press_reset_off
    <3>2. watchdog
      BY <2>1, <2>5 DEF Armed
    <3> QED
      BY <3>1, <3>2, <2>2, <2>3
  <2> QED
    BY <2>4, <2>5
<1>4. CASE JournalPending \/ BacklightEarly \/ StopReborn \/ Kill \/ Backlight \/ Sync
           \/ StopRadios \/ JournalComplete
  <2>1. /\ pc # "down" /\ pc' # "down"
        /\ UNCHANGED <<intent, file, promised, watchdog, powersOff, longPress, power, asked>>
    BY <1>4 DEF JournalPending, BacklightEarly, StopReborn, Kill, Backlight, Sync, StopRadios,
       JournalComplete, At, Then, safety, app, past
  <2> QED
    BY <2>1, Beside
<1>5. CASE InitAsked
  <2>1. /\ pc # "down" /\ pc' # "down" /\ intent \in Intent /\ intent' = intent
        /\ Publish(intent) /\ asked' = intent.action
        /\ UNCHANGED <<promised, watchdog, powersOff, longPress, power>>
    BY <1>5 DEF InitAsked, At, Then, Intended, Steps, TypeOK, safety
  <2>2. Publish(intent')
    BY <2>1
  <2> QED
    BY <2>1, <2>2, Republished
<1>6. CASE InitRefuses
  <2>1. /\ pc # "down" /\ pc' # "down" /\ intent \in Intent
        /\ intent' = [intent EXCEPT !.state = "Failed"] /\ Publish(intent')
        /\ UNCHANGED <<promised, watchdog, powersOff, longPress, power, asked>>
    BY <1>6 DEF InitRefuses, At, Then, Intended, Steps, TypeOK, safety
  <2>2. intent' \in Intent /\ intent'.action = intent.action
    BY <2>1, IntentFields
  <2> QED
    BY <2>1, <2>2, Republished
<1> QED
  BY <1>1, <1>2, <1>3, <1>4, <1>5, <1>6 DEF Coordinate

(* The world around the daemon, its death and the end of the boot.           *)
LEMMA WorldKept ==
  ASSUME TypeOK, Intended, Recorded, World
  PROVE  Kept
<1>1. CASE RebornLights \/ RebornDies \/ RebornStarts \/ Discharge \/ Deadline
  <2>1. /\ UNCHANGED <<pc, intent, file, promised, watchdog, powersOff, longPress, power, asked>>
    BY <1>1 DEF RebornLights, RebornDies, RebornStarts, Discharge, Deadline, daemon, safety, app, past
  <2> QED
    BY <2>1, Beside
<1>2. CASE DaemonDies
  <2>1. /\ pc # "down" /\ pc' = "down" /\ intent' = Nothing
        /\ UNCHANGED <<file, promised, watchdog, powersOff, longPress, power, asked>>
    BY <1>2 DEF DaemonDies, safety
  <2>2. Recorded' /\ Goal' = file.action /\ (file' # Nothing) = (file # Nothing)
    BY <2>1 DEF Recorded, Goal
  <2>3. CASE file # Nothing
    <3>1. Goal' = Goal
      BY <2>1, <2>2, <2>3 DEF Recorded, Goal
    <3> QED
      BY <2>1, <2>2, <3>1 DEF Kept, Boots!vars
  <2>4. CASE file = Nothing
    <3>1. Goal' = "none"
      BY <2>2, <2>4, NothingFields
    <3>2. Boots!Lose
      BY <2>1, <2>2, <2>4, <3>1 DEF Boots!Lose
    <3> QED
      BY <2>2, <3>2 DEF Kept, Boots!Next
  <2> QED
    BY <2>3, <2>4
<1>3. CASE Stalls
  <2>1. /\ power = "on" /\ power' = "stalled" /\ (intent # Nothing \/ asked # "none")
        /\ UNCHANGED <<pc, intent, file, promised, watchdog, powersOff, longPress, asked>>
    BY <1>3 DEF Stalls, Intended, daemon, safety, past
  <2>2. Recorded' /\ Goal' = Goal /\ (file' # Nothing) = (file # Nothing)
    BY <2>1 DEF Recorded, Goal
  <2>3. Goal # "none" \/ asked # "none"
    BY <2>1, IntentActs DEF Goal, TypeOK
  <2>4. Boots!Stall
    BY <2>1, <2>2, <2>3 DEF Boots!Stall
  <2> QED
    BY <2>2, <2>4 DEF Kept, Boots!Next
<1>4. CASE WatchdogFires
  <2>1. /\ watchdog /\ Running /\ Ends(IF powersOff THEN "off" ELSE "restarted")
    BY <1>4 DEF WatchdogFires, Running
  <2>2. Recorded' /\ Boots!End(IF powersOff THEN "off" ELSE "restarted")
    BY <2>1, Finished
  <2> QED
    BY <2>1, <2>2 DEF Kept, Boots!Next, Boots!EndsByGuard
<1>5. CASE LongPressResets
  <2>1. longPress /\ Running /\ Ends("cut")
    BY <1>5 DEF LongPressResets, Running
  <2>2. Recorded' /\ Boots!End("cut")
    BY <2>1, Finished
  <2> QED
    BY <2>1, <2>2 DEF Kept, Boots!Next, Boots!EndsByOwner
<1>6. CASE InitEnds
  <2>1. power = "on" /\ Running /\ asked # "none" /\ Ends(EndOf[asked])
    BY <1>6 DEF InitEnds, Running
  <2>2. Recorded' /\ Boots!End(EndOf[asked])
    BY <2>1, Finished
  <2>3. EndOf[asked] = Boots!Result(asked)
    BY <2>1 DEF EndOf, Boots!Result, TypeOK, Actions
  <2>4. Boots!End(Boots!Result(asked))
    BY <2>2, <2>3
  <2> QED
    BY <2>1, <2>2, <2>4 DEF Kept, Boots!Next, Boots!EndsAsHanded
<1>7. CASE Boot
  <2>1. /\ ~Running /\ power' = "on" /\ promised' = {} /\ powersOff' = FALSE /\ pc' = "loop"
        /\ UNCHANGED <<intent, file, watchdog, longPress, asked>>
    BY <1>7 DEF Boot, Running
  <2>2. Recorded' /\ Goal' = Goal /\ (file' # Nothing) = (file # Nothing)
    BY <2>1 DEF Recorded, Goal, Intended
  <2>3. Boots!Boot
    BY <2>1, <2>2 DEF Boots!Boot, Running
  <2> QED
    BY <2>2, <2>3 DEF Kept, Boots!Next
<1> QED
  BY <1>1, <1>2, <1>3, <1>4, <1>5, <1>6, <1>7 DEF World

(* The daemon refines ShutdownPromise: once there is a record nothing but    *)
(* that end is promised, handed to init or made of the watchdog's reset,     *)
(* whoever asks, whichever step fails and however often the daemon dies.     *)
THEOREM OneEnd == Spec => ImplementsShutdown
<1>1. Init => Recorded /\ Boots!Init
  BY NothingFields DEF Init, Recorded, Goal, Boots!Init
<1>2. IInv /\ Recorded /\ [Next]_vars => Kept
  <2> SUFFICES ASSUME IInv, Recorded, [Next]_vars PROVE Kept
    OBVIOUS
  <2>1. TypeOK /\ Intended /\ Armed /\ EscapeRemains
    BY DEF IInv
  <2>2. CASE UNCHANGED vars
    BY <2>2, Beside DEF vars, daemon, safety, app, past
  <2> QED
    BY <2>1, <2>2, ClientsKept, CoordinateKept, WorldKept DEF Next
<1>3. IInv /\ Recorded /\ [Next]_vars => Recorded' /\ [Boots!Next]_Boots!vars
  BY <1>2 DEF Kept
<1> QED
  BY <1>1, <1>3, Inductive, PTL DEF Spec, ImplementsShutdown, Boots!Spec
=============================================================================
