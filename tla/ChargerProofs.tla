---------------------------- MODULE ChargerProofs ----------------------------
(***************************************************************************)
(* What the charger's driver keeps of its engines, for every set of faults *)
(* and every number of retries: theorems of Charger!Spec.                  *)
(*                                                                         *)
(* None of the claims is inductive alone.  An engine is switched on under  *)
(* an armed watchdog because nothing but that watchdog itself touches the  *)
(* PMIC between Prepare and Enable; no fault is latched then, and nobody   *)
(* has inhibited the charge, because a poll carries on from Present only   *)
(* without a fault and holds the lock; and a verdict is about this cable,  *)
(* or its interrupt is on its way or noted, because only Quiet clears the  *)
(* note, when there is no verdict left.                                    *)
(***************************************************************************)
EXTENDS ChargerRefinement, TLAPS

Starting == {"resample", "decide", "prepare", "recheck", "enable", "watch", "serve", "pet"}
Working  == {"quiet", "detect"} \cup Starting

\* A poll runs only while the driver is not paused for sleep.
Awake == pc # "idle" => ~paused

\* A poll carries on only without a fault and without the owner's inhibit.
Clear == pc \in Working => fault = "none" /\ ~inhibit

\* The watchdog is armed before an engine is switched on, and still visible.
Armed == pc \in {"recheck", "enable"} => wd # "off" /\ awake

\* A verdict is about the cable of now, or its interrupt has not been served.
VerdictFresh ==
  /\ pc \in {"quiet", "detect"} => ~valid
  /\ pc \in Starting => valid
  /\ valid => cable \/ edge \/ changed

\* What is watched and served is a charge the driver knows of.
Known == pc \in {"watch", "serve", "pet"} => active

IInv == EnginesGuarded /\ RunsForAReason /\ Awake /\ Clear /\ Armed /\ VerdictFresh /\ Known

\* What may fail is a truth value.
LEMMA MayFailTyped == ASSUME NEW f, NEW a \in MayFail(f) PROVE a \in BOOLEAN
  BY DEF MayFail

\* Stopping the engines keeps the types of what it changes.
LEMMA InhibitedTyped ==
  ASSUME TypeOK, NEW failed \in BOOLEAN, NEW found \in {"none", "source", "latched"},
         Inhibited(failed, found)
  PROVE  /\ engines' \in BOOLEAN /\ wd' \in {"off", "armed", "expired"}
         /\ stopError' \in BOOLEAN /\ active' \in BOOLEAN /\ awake' \in BOOLEAN
         /\ fault' \in {"none", "source", "latched"}
<1>1. engines' \in BOOLEAN
  BY Zenon DEF Inhibited, Stop, pmic, TypeOK
<1>2. wd' \in {"off", "armed", "expired"}
  BY DEF Inhibited, Stop, pmic, TypeOK
<1>3. stopError' \in BOOLEAN /\ active' \in BOOLEAN /\ awake' \in BOOLEAN
  BY Zenon DEF Inhibited
<1>4. fault' \in {"none", "source", "latched"}
  BY DEF Inhibited
<1> QED
  BY <1>1, <1>2, <1>3, <1>4

\* A stop never switches an engine on; verified, none runs; not verified, the
\* CPU stays awake and a fault is latched; and an engine that still runs keeps
\* its watchdog.
LEMMA InhibitedSafe ==
  ASSUME NEW failed \in BOOLEAN, NEW found, Inhibited(failed, found)
  PROVE  /\ engines' => engines /\ failed /\ wd' = wd
         /\ failed => stopError' /\ awake' /\ fault' = "latched"
         /\ ~failed => fault' = found
<1>1. engines' => engines /\ failed /\ wd' = wd
  BY Zenon DEF Inhibited, Stop, pmic
<1>2. failed => stopError' /\ awake' /\ fault' = "latched"
  BY Zenon DEF Inhibited
<1>3. ~failed => fault' = found
  BY Zenon DEF Inhibited
<1> QED
  BY <1>1, <1>2, <1>3

\* Every step keeps the types.
LEMMA NextTyped == ASSUME TypeOK, [Next]_vars PROVE TypeOK'
<1>1. CASE PollOut
  <2>1. chq' \in BOOLEAN
    BY <1>1, Zenon DEF PollOut, pmic, driver, TypeOK
  <2>2. UNCHANGED <<cable, edge, electric, engines, wd, age, pc, fault, stopError, active, awake,
                    online, valid, tries, changed, inhibit, paused, stopping>>
    BY <1>1 DEF PollOut, world, pmic, driver, owner
  <2> QED
    BY <2>1, <2>2 DEF TypeOK
<1>2. CASE SampleFails
  <2>1. chq' \in BOOLEAN /\ online' \in BOOLEAN
    BY <1>2, Zenon DEF SampleFails, pmic, TypeOK
  <2>2. fault' \in {"none", "source", "latched"}
    BY <1>2 DEF SampleFails, pmic, TypeOK
  <2>3. pc' \in Places
    BY <1>2 DEF SampleFails, pmic, TypeOK, Places
  <2>4. UNCHANGED <<cable, edge, electric, engines, wd, age, stopError, active, awake, valid,
                    tries, changed, inhibit, paused, stopping>>
    BY <1>2 DEF SampleFails, world, pmic, owner
  <2> QED
    BY <2>1, <2>2, <2>3, <2>4 DEF TypeOK
<1>3. CASE Absent
  <2>1. online' \in BOOLEAN /\ valid' \in BOOLEAN /\ chq' \in BOOLEAN
    BY <1>3, Zenon DEF Absent, PollEnds, MayFail, TypeOK
  <2>2. tries' \in 0..SourceRetries
    BY <1>3, ChargerAssumption DEF Absent, PollEnds, Latch, TypeOK
  <2>3. pc' \in Places
    BY <1>3 DEF Absent, PollEnds, Latch, TypeOK, Places
  <2>4. engines' \in BOOLEAN /\ wd' \in {"off", "armed", "expired"}
         /\ stopError' \in BOOLEAN /\ active' \in BOOLEAN /\ awake' \in BOOLEAN
         /\ fault' \in {"none", "source", "latched"}
    BY <1>3, MayFailTyped, InhibitedTyped DEF Absent, PollEnds, Latch, TypeOK, pmic, driver
  <2>5. UNCHANGED <<cable, edge, electric, age, changed, inhibit, paused, stopping>>
    BY <1>3 DEF Absent, world, owner
  <2> QED
    BY <2>1, <2>2, <2>3, <2>4, <2>5 DEF TypeOK
<1>4. CASE Present
  <2>1. online' \in BOOLEAN /\ chq' \in BOOLEAN /\ valid' \in BOOLEAN
    BY <1>4, Zenon DEF Present, MayFail, pmic, TypeOK
  <2>2. tries' \in 0..SourceRetries
    <3>1. PICK retried \in {FALSE, Retries} : tries' = IF retried THEN tries + 1 ELSE tries
      BY <1>4, Zenon DEF Present
    <3>2. retried => tries < SourceRetries
      BY <3>1, Zenon DEF Retries
    <3> QED
      BY <3>1, <3>2, ChargerAssumption DEF TypeOK
  <2>3. fault' \in {"none", "source", "latched"}
    BY <1>4 DEF Present, pmic, TypeOK
  <2>4. pc' \in Places
    BY <1>4 DEF Present, pmic, TypeOK, Places
  <2>5. UNCHANGED <<cable, edge, electric, engines, wd, age, stopError, active, awake, changed,
                    inhibit, paused, stopping>>
    BY <1>4 DEF Present, world, pmic, owner
  <2> QED
    BY <2>1, <2>2, <2>3, <2>4, <2>5 DEF TypeOK
<1>5. CASE Quiet
  <2>1. changed' \in BOOLEAN
    BY <1>5, Zenon DEF Quiet, MayFail, TypeOK
  <2>2. pc' \in Places
    BY <1>5 DEF Quiet, TypeOK, Places
  <2>3. engines' \in BOOLEAN /\ wd' \in {"off", "armed", "expired"}
         /\ stopError' \in BOOLEAN /\ active' \in BOOLEAN /\ awake' \in BOOLEAN
         /\ fault' \in {"none", "source", "latched"}
    BY <1>5, MayFailTyped, InhibitedTyped DEF Quiet, TypeOK
  <2>4. UNCHANGED <<cable, edge, electric, age, chq, online, valid, tries, inhibit, paused,
                    stopping>>
    BY <1>5 DEF Quiet, world, owner
  <2> QED
    BY <2>1, <2>2, <2>3, <2>4 DEF TypeOK
<1>6. CASE Detected
  <2>1. valid' \in BOOLEAN
    BY <1>6, Zenon DEF Detected, pmic, TypeOK
  <2>2. pc' \in Places
    BY <1>6 DEF Detected, pmic, TypeOK, Places
  <2>3. fault' \in {"none", "source", "latched"}
    BY <1>6 DEF Detected, pmic, TypeOK
  <2>4. UNCHANGED <<cable, edge, electric, engines, wd, age, chq, stopError, active, awake,
                    online, tries, changed, inhibit, paused, stopping>>
    BY <1>6 DEF Detected, world, pmic, owner
  <2> QED
    BY <2>1, <2>2, <2>3, <2>4 DEF TypeOK
<1>7. CASE Resample
  <2>1. online' \in BOOLEAN
    BY <1>7, Zenon DEF Resample, MayFail, pmic, TypeOK
  <2>2. fault' \in {"none", "source", "latched"}
    BY <1>7 DEF Resample, Latch, pmic, TypeOK
  <2>3. pc' \in Places
    BY <1>7 DEF Resample, Latch, pmic, TypeOK, Places
  <2>4. UNCHANGED <<cable, edge, electric, engines, wd, age, chq, stopError, active, awake, valid,
                    tries, changed, inhibit, paused, stopping>>
    BY <1>7 DEF Resample, world, pmic, owner
  <2> QED
    BY <2>1, <2>2, <2>3, <2>4 DEF TypeOK
<1>8. CASE Decide
  <2>1. pc' \in Places
    BY <1>8 DEF Decide, pmic, driver, TypeOK, Places
  <2>2. engines' \in BOOLEAN /\ wd' \in {"off", "armed", "expired"}
         /\ stopError' \in BOOLEAN /\ active' \in BOOLEAN /\ awake' \in BOOLEAN
         /\ fault' \in {"none", "source", "latched"}
    BY <1>8, MayFailTyped, InhibitedTyped DEF Decide, TypeOK, pmic, driver
  <2>3. UNCHANGED <<cable, edge, electric, age, chq, online, valid, tries, changed, inhibit,
                    paused, stopping>>
    BY <1>8 DEF Decide, world, pmic, driver, owner
  <2> QED
    BY <2>1, <2>2, <2>3 DEF TypeOK
<1>9. CASE Prepare
  <2>1. awake' \in BOOLEAN /\ engines' \in BOOLEAN
    BY <1>9, Zenon DEF Prepare, Stop, pmic, TypeOK
  <2>2. age' \in {"fresh", "late"}
    BY <1>9 DEF Prepare, Stop, pmic, TypeOK
  <2>3. wd' \in {"off", "armed", "expired"}
    BY <1>9 DEF Prepare, Stop, pmic, TypeOK
  <2>4. pc' \in Places
    BY <1>9 DEF Prepare, Stop, pmic, TypeOK, Places
  <2>5. fault' \in {"none", "source", "latched"}
    BY <1>9 DEF Prepare, Stop, pmic, TypeOK
  <2>6. UNCHANGED <<cable, edge, electric, chq, stopError, active, online, valid, tries, changed,
                    inhibit, paused, stopping>>
    BY <1>9 DEF Prepare, world, owner
  <2> QED
    BY <2>1, <2>2, <2>3, <2>4, <2>5, <2>6 DEF TypeOK
<1>10. CASE Recheck
  <2>1. online' \in BOOLEAN
    BY <1>10, Zenon DEF Recheck, MayFail, pmic, TypeOK
  <2>2. fault' \in {"none", "source", "latched"}
    BY <1>10 DEF Recheck, Latch, pmic, TypeOK
  <2>3. pc' \in Places
    BY <1>10 DEF Recheck, Latch, pmic, TypeOK, Places
  <2>4. UNCHANGED <<cable, edge, electric, engines, wd, age, chq, stopError, active, awake, valid,
                    tries, changed, inhibit, paused, stopping>>
    BY <1>10 DEF Recheck, world, pmic, owner
  <2> QED
    BY <2>1, <2>2, <2>3, <2>4 DEF TypeOK
<1>11. CASE Enable
  <2>1. engines' \in BOOLEAN /\ active' \in BOOLEAN
    BY <1>11, Zenon DEF Enable, TypeOK
  <2>2. pc' \in Places
    BY <1>11 DEF Enable, TypeOK, Places
  <2>3. fault' \in {"none", "source", "latched"}
    BY <1>11 DEF Enable, TypeOK
  <2>4. UNCHANGED <<cable, edge, electric, wd, age, chq, stopError, awake, online, valid, tries,
                    changed, inhibit, paused, stopping>>
    BY <1>11 DEF Enable, world, owner
  <2> QED
    BY <2>1, <2>2, <2>3, <2>4 DEF TypeOK
<1>12. CASE Watch
  <2>1. fault' \in {"none", "source", "latched"}
    BY <1>12 DEF Watch, Latch, pmic, TypeOK
  <2>2. pc' \in Places
    BY <1>12 DEF Watch, Latch, pmic, TypeOK, Places
  <2>3. UNCHANGED <<cable, edge, electric, engines, wd, age, chq, stopError, active, awake,
                    online, valid, tries, changed, inhibit, paused, stopping>>
    BY <1>12 DEF Watch, world, pmic, owner
  <2> QED
    BY <2>1, <2>2, <2>3 DEF TypeOK
<1>13. CASE Serve
  <2>1. fault' \in {"none", "source", "latched"}
    BY <1>13 DEF Serve, Latch, pmic, TypeOK
  <2>2. pc' \in Places
    BY <1>13 DEF Serve, Latch, pmic, TypeOK, Places
  <2>3. UNCHANGED <<cable, edge, electric, engines, wd, age, chq, stopError, active, awake,
                    online, valid, tries, changed, inhibit, paused, stopping>>
    BY <1>13 DEF Serve, world, pmic, owner
  <2> QED
    BY <2>1, <2>2, <2>3 DEF TypeOK
<1>14. CASE Pet
  <2>1. chq' \in BOOLEAN
    BY <1>14, Zenon DEF Pet, PollEnds, TypeOK
  <2>2. wd' \in {"off", "armed", "expired"}
    BY <1>14 DEF Pet, PollEnds, TypeOK
  <2>3. age' \in {"fresh", "late"}
    BY <1>14 DEF Pet, PollEnds, TypeOK
  <2>4. pc' \in Places
    BY <1>14 DEF Pet, PollEnds, TypeOK, Places
  <2>5. fault' \in {"none", "source", "latched"}
    BY <1>14 DEF Pet, PollEnds, TypeOK
  <2>6. UNCHANGED <<cable, edge, electric, engines, stopError, active, awake, online, valid,
                    tries, changed, inhibit, paused, stopping>>
    BY <1>14 DEF Pet, world, owner
  <2> QED
    BY <2>1, <2>2, <2>3, <2>4, <2>5, <2>6 DEF TypeOK
<1>15. CASE PollInhibits
  <2>1. chq' \in BOOLEAN
    BY <1>15, Zenon DEF PollInhibits, PollEnds, MayFail, TypeOK
  <2>2. pc' \in Places
    BY <1>15 DEF PollInhibits, PollEnds, TypeOK, Places
  <2>3. engines' \in BOOLEAN /\ wd' \in {"off", "armed", "expired"}
         /\ stopError' \in BOOLEAN /\ active' \in BOOLEAN /\ awake' \in BOOLEAN
         /\ fault' \in {"none", "source", "latched"}
    BY <1>15, MayFailTyped, InhibitedTyped DEF PollInhibits, TypeOK
  <2>4. UNCHANGED <<cable, edge, electric, age, online, valid, tries, changed, inhibit, paused,
                    stopping>>
    BY <1>15 DEF PollInhibits, world, owner
  <2> QED
    BY <2>1, <2>2, <2>3, <2>4 DEF TypeOK
<1>16. CASE SetBehaviour
  <2>1. inhibit' \in BOOLEAN /\ chq' \in BOOLEAN
    BY <1>16, Zenon DEF SetBehaviour, Kicked, MayFail, pmic, TypeOK
  <2>2. engines' \in BOOLEAN /\ wd' \in {"off", "armed", "expired"}
         /\ stopError' \in BOOLEAN /\ active' \in BOOLEAN /\ awake' \in BOOLEAN
         /\ fault' \in {"none", "source", "latched"}
    BY <1>16, MayFailTyped, InhibitedTyped DEF SetBehaviour, Kicked, TypeOK, pmic, driver
  <2>3. UNCHANGED <<cable, edge, electric, age, pc, online, valid, tries, changed, paused,
                    stopping>>
    BY <1>16 DEF SetBehaviour, world, pmic
  <2> QED
    BY <2>1, <2>2, <2>3 DEF TypeOK
<1>17. CASE LowerCeiling
  <2>1. chq' \in BOOLEAN
    BY <1>17, Zenon DEF LowerCeiling, Kicked, MayFail, TypeOK
  <2>2. engines' \in BOOLEAN /\ wd' \in {"off", "armed", "expired"}
         /\ stopError' \in BOOLEAN /\ active' \in BOOLEAN /\ awake' \in BOOLEAN
         /\ fault' \in {"none", "source", "latched"}
    BY <1>17, MayFailTyped, InhibitedTyped DEF LowerCeiling, TypeOK
  <2>3. UNCHANGED <<cable, edge, electric, age, pc, online, valid, tries, changed, inhibit,
                    paused, stopping>>
    BY <1>17 DEF LowerCeiling, world, owner
  <2> QED
    BY <2>1, <2>2, <2>3 DEF TypeOK
<1>18. CASE SleepPrepares
  <2>1. paused' \in BOOLEAN /\ chq' \in BOOLEAN
    BY <1>18, Zenon DEF SleepPrepares, MayFail, TypeOK
  <2>2. engines' \in BOOLEAN /\ wd' \in {"off", "armed", "expired"}
         /\ stopError' \in BOOLEAN /\ active' \in BOOLEAN /\ awake' \in BOOLEAN
         /\ fault' \in {"none", "source", "latched"}
    BY <1>18, MayFailTyped, InhibitedTyped DEF SleepPrepares, TypeOK
  <2>3. UNCHANGED <<cable, edge, electric, age, pc, online, valid, tries, changed, inhibit,
                    stopping>>
    BY <1>18 DEF SleepPrepares, world
  <2> QED
    BY <2>1, <2>2, <2>3 DEF TypeOK
<1>19. CASE SleepCompletes
  <2>1. paused' \in BOOLEAN /\ chq' \in BOOLEAN
    BY <1>19, Zenon DEF SleepCompletes, pmic, driver, TypeOK
  <2>2. UNCHANGED <<cable, edge, electric, engines, wd, age, pc, fault, stopError, active, awake,
                    online, valid, tries, changed, inhibit, stopping>>
    BY <1>19 DEF SleepCompletes, world, pmic, driver
  <2> QED
    BY <2>1, <2>2 DEF TypeOK
<1>20. CASE Shutdown
  <2>1. stopping' \in BOOLEAN /\ chq' \in BOOLEAN
    BY <1>20, Zenon DEF Shutdown, MayFail, TypeOK
  <2>2. engines' \in BOOLEAN /\ wd' \in {"off", "armed", "expired"}
         /\ stopError' \in BOOLEAN /\ active' \in BOOLEAN /\ awake' \in BOOLEAN
         /\ fault' \in {"none", "source", "latched"}
    BY <1>20, MayFailTyped, InhibitedTyped DEF Shutdown, TypeOK
  <2>3. UNCHANGED <<cable, edge, electric, age, pc, online, valid, tries, changed, inhibit, paused>>
    BY <1>20 DEF Shutdown, world
  <2> QED
    BY <2>1, <2>2, <2>3 DEF TypeOK
<1>21. CASE CableChanges
  <2>1. cable' \in BOOLEAN /\ edge' \in BOOLEAN
    BY <1>21, Zenon DEF CableChanges, pmic, driver, TypeOK
  <2>2. UNCHANGED <<electric, engines, wd, age, pc, chq, fault, stopError, active, awake, online,
                    valid, tries, changed, inhibit, paused, stopping>>
    BY <1>21 DEF CableChanges, pmic, driver, owner
  <2> QED
    BY <2>1, <2>2 DEF TypeOK
<1>22. CASE Irq
  <2>1. edge' \in BOOLEAN /\ changed' \in BOOLEAN /\ chq' \in BOOLEAN
    BY <1>22, Zenon DEF Irq, pmic, driver, TypeOK
  <2>2. UNCHANGED <<cable, electric, engines, wd, age, pc, fault, stopError, active, awake,
                    online, valid, tries, inhibit, paused, stopping>>
    BY <1>22 DEF Irq, pmic, driver, owner
  <2> QED
    BY <2>1, <2>2 DEF TypeOK
<1>23. CASE InputChanges
  <2>1. chq' \in BOOLEAN
    BY <1>23, Zenon DEF InputChanges, pmic, driver, TypeOK
  <2>2. UNCHANGED <<cable, edge, electric, engines, wd, age, pc, fault, stopError, active, awake,
                    online, valid, tries, changed, inhibit, paused, stopping>>
    BY <1>23 DEF InputChanges, world, pmic, driver, owner
  <2> QED
    BY <2>1, <2>2 DEF TypeOK
<1>24. CASE Electrics
  <2>1. electric' \in BOOLEAN
    BY <1>24, Zenon DEF Electrics, pmic, driver, TypeOK
  <2>2. UNCHANGED <<cable, edge, engines, wd, age, pc, chq, fault, stopError, active, awake,
                    online, valid, tries, changed, inhibit, paused, stopping>>
    BY <1>24 DEF Electrics, pmic, driver, owner
  <2> QED
    BY <2>1, <2>2 DEF TypeOK
<1>25. CASE Delays
  <2>1. age' \in {"fresh", "late"}
    BY <1>25 DEF Delays, pmic, driver, TypeOK
  <2>2. UNCHANGED <<cable, edge, electric, engines, wd, pc, chq, fault, stopError, active, awake,
                    online, valid, tries, changed, inhibit, paused, stopping>>
    BY <1>25 DEF Delays, world, pmic, driver, owner
  <2> QED
    BY <2>1, <2>2 DEF TypeOK
<1>26. CASE Expires
  <2>1. engines' \in BOOLEAN
    BY <1>26, Zenon DEF Expires, driver, TypeOK
  <2>2. wd' \in {"off", "armed", "expired"}
    BY <1>26 DEF Expires, driver, TypeOK
  <2>3. UNCHANGED <<cable, edge, electric, age, pc, chq, fault, stopError, active, awake, online,
                    valid, tries, changed, inhibit, paused, stopping>>
    BY <1>26 DEF Expires, world, driver, owner
  <2> QED
    BY <2>1, <2>2, <2>3 DEF TypeOK
<1>27. CASE UNCHANGED vars
  BY <1>27 DEF TypeOK, world, pmic, driver, owner, vars
<1> QED
  BY <1>1, <1>2, <1>3, <1>4, <1>5, <1>6, <1>7, <1>8, <1>9, <1>10, <1>11, <1>12, <1>13, <1>14,
     <1>15, <1>16, <1>17, <1>18, <1>19, <1>20, <1>21, <1>22, <1>23, <1>24, <1>25, <1>26, <1>27 DEF
     Next

\* Type correctness, for every set of faults: in particular, the retries of a
\* failed classification stay within Y2_SOURCE_RETRIES.
THEOREM TypeCorrect == Spec => []TypeOK
<1>1. Init => TypeOK
  <2> SUFFICES ASSUME Init PROVE TypeOK
    OBVIOUS
  <2>1. /\ cable \in BOOLEAN /\ edge \in BOOLEAN /\ electric \in BOOLEAN /\ engines \in BOOLEAN
        /\ chq \in BOOLEAN /\ stopError \in BOOLEAN /\ active \in BOOLEAN /\ awake \in BOOLEAN
        /\ online \in BOOLEAN /\ valid \in BOOLEAN /\ changed \in BOOLEAN
        /\ inhibit \in BOOLEAN /\ paused \in BOOLEAN /\ stopping \in BOOLEAN
    BY Zenon DEF Init
  <2>2. /\ wd \in {"off", "armed", "expired"} /\ age \in {"fresh", "late"} /\ pc \in Places
        /\ fault \in {"none", "source", "latched"} /\ tries \in 0..SourceRetries
    BY ChargerAssumption DEF Init, Places
  <2> QED
    BY <2>1, <2>2 DEF TypeOK
<1> QED
  BY <1>1, NextTyped, PTL DEF Spec

\* The steps that touch neither the engines nor anything that speaks of them.
Quietly == UNCHANGED <<engines, wd, pc, fault, stopError, active, awake, valid, inhibit, paused>>

\* They keep the invariant when the note of the cable stays.
LEMMA QuietSafe ==
  ASSUME TypeOK, IInv, Quietly, cable \/ edge \/ changed => cable' \/ edge' \/ changed'
  PROVE IInv'
  BY DEF Quietly, IInv, EnginesGuarded, RunsForAReason, Awake, Clear, Armed, VerdictFresh, Known,
     Working, Starting

\* A step that ends outside the lock's steps with a stop.
LEMMA StoppedSafe ==
  ASSUME TypeOK, IInv, NEW failed \in BOOLEAN, NEW found, Inhibited(failed, found),
         pc' \in {"idle", "inhibit"}, paused' => pc' = "idle" /\ (paused \/ ~failed),
         valid' => valid, UNCHANGED <<cable, edge, changed>>
  PROVE IInv'
<1>1. /\ engines' => engines /\ failed /\ wd' = wd
      /\ failed => stopError' /\ awake' /\ fault' = "latched"
  BY InhibitedSafe
<1>2. EnginesGuarded' /\ RunsForAReason'
  BY <1>1 DEF IInv, EnginesGuarded, RunsForAReason
<1>3. Awake' /\ Clear' /\ Armed' /\ VerdictFresh' /\ Known'
  BY DEF IInv, Awake, Clear, Armed, VerdictFresh, Known, Working, Starting
<1> QED
  BY <1>2, <1>3 DEF IInv

\* Every step keeps the invariant.
LEMMA NextSafe == ASSUME TypeOK, IInv, [Next]_vars PROVE IInv'
<1>1. CASE PollOut
  <2>1. Quietly /\ (cable \/ edge \/ changed => cable' \/ edge' \/ changed')
    BY <1>1 DEF PollOut, Quietly, world, pmic, driver, owner
  <2> QED
    BY <2>1, QuietSafe
<1>2. CASE SampleFails
  BY <1>2 DEF SampleFails, Polls, world, pmic, owner, IInv, EnginesGuarded, RunsForAReason, Awake,
     Clear, Armed, VerdictFresh, Known, Working, Starting, TypeOK
<1>3. CASE Absent
  <2>1. PICK failed \in BOOLEAN, found \in {"none", "source", "latched"} : Inhibited(failed, found)
    BY <1>3, MayFailTyped DEF Absent, Latch, TypeOK
  <2>2. valid' = FALSE /\ pc' = "idle" /\ UNCHANGED <<cable, edge, changed, paused>> /\ ~paused
    BY <1>3 DEF Absent, Polls, PollEnds, world, owner
  <2> QED
    BY <2>1, <2>2, StoppedSafe
<1>4. CASE Present
  BY <1>4 DEF Present, MayFail, Polls, world, pmic, owner, IInv, EnginesGuarded, RunsForAReason,
     Awake, Clear, Armed, VerdictFresh, Known, Working, Starting, TypeOK
<1>5. CASE Quiet
  BY <1>5 DEF Quiet, MayFail, Inhibited, Stop, world, owner, pmic, IInv, EnginesGuarded,
     RunsForAReason, Awake, Clear, Armed, VerdictFresh, Known, Working, Starting, TypeOK
<1>6. CASE Detected
  BY <1>6 DEF Detected, world, pmic, owner, IInv, EnginesGuarded, RunsForAReason, Awake, Clear,
     Armed, VerdictFresh, Known, Working, Starting, TypeOK
<1>7. CASE Resample
  BY <1>7 DEF Resample, MayFail, Latch, world, pmic, owner, IInv, EnginesGuarded, RunsForAReason,
     Awake, Clear, Armed, VerdictFresh, Known, Working, Starting, TypeOK
<1>8. CASE Decide
  <2>1. pc = "decide" /\ UNCHANGED <<world, changed, owner, valid>>
    BY <1>8 DEF Decide, driver
  <2>2. CASE UNCHANGED <<pmic, driver>>
    <3>1. pc' \in {"inhibit", "watch", "prepare"} /\ (pc' = "watch" => active)
      BY <1>8, <2>1 DEF Decide
    <3> QED
      BY <2>1, <2>2, <3>1 DEF IInv, EnginesGuarded, RunsForAReason, Awake, Clear, Armed,
         VerdictFresh, Known, Working, Starting, world, pmic, driver, owner
  <2>3. CASE ~UNCHANGED <<pmic, driver>>
    <3>1. PICK failed \in BOOLEAN :
            Inhibited(failed, fault) /\ pc' = IF failed THEN "inhibit" ELSE "prepare"
      BY <1>8, <2>3, MayFailTyped DEF Decide
    <3>2. CASE failed
      <4>1. pc' = "inhibit" /\ ~paused'
        BY <3>1, <3>2, <2>1 DEF IInv, Awake, owner
      <4> QED
        BY <3>1, <4>1, <2>1, StoppedSafe DEF world
    <3>3. CASE ~failed
      <4>1. ~engines' /\ fault' = fault /\ pc' = "prepare"
        BY <3>1, <3>3, InhibitedSafe
      <4> QED
        BY <4>1, <2>1 DEF IInv, EnginesGuarded, RunsForAReason, Awake, Clear, Armed, VerdictFresh,
           Known, Working, Starting, world, owner
    <3> QED
      BY <3>2, <3>3
  <2> QED
    BY <2>2, <2>3
<1>9. CASE Prepare
  BY <1>9 DEF Prepare, Stop, world, owner, pmic, IInv, EnginesGuarded, RunsForAReason, Awake,
     Clear, Armed, VerdictFresh, Known, Working, Starting, TypeOK
<1>10. CASE Recheck
  BY <1>10 DEF Recheck, MayFail, Latch, world, pmic, owner, IInv, EnginesGuarded, RunsForAReason,
     Awake, Clear, Armed, VerdictFresh, Known, Working, Starting, TypeOK
<1>11. CASE Enable
  BY <1>11 DEF Enable, world, owner, IInv, EnginesGuarded, RunsForAReason, Awake, Clear, Armed,
     VerdictFresh, Known, Working, Starting, TypeOK
<1>12. CASE Watch
  BY <1>12 DEF Watch, MayFail, Latch, world, pmic, owner, IInv, EnginesGuarded, RunsForAReason,
     Awake, Clear, Armed, VerdictFresh, Known, Working, Starting, TypeOK
<1>13. CASE Serve
  BY <1>13 DEF Serve, MayFail, Latch, Eligible, world, pmic, owner, IInv, EnginesGuarded,
     RunsForAReason, Awake, Clear, Armed, VerdictFresh, Known, Working, Starting, TypeOK
<1>14. CASE Pet
  BY <1>14 DEF Pet, PollEnds, world, owner, IInv, EnginesGuarded, RunsForAReason, Awake, Clear,
     Armed, VerdictFresh, Known, Working, Starting, TypeOK
<1>15. CASE PollInhibits
  <2>1. PICK failed \in BOOLEAN : Inhibited(failed, fault)
    BY <1>15, MayFailTyped DEF PollInhibits
  <2>2. pc' = "idle" /\ UNCHANGED <<cable, edge, changed, valid, paused>>
    BY <1>15 DEF PollInhibits, PollEnds, world, owner
  <2>3. paused => pc' = "idle"
    BY <2>2
  <2> QED
    BY <2>1, <2>2, StoppedSafe
<1>16. CASE SetBehaviour
  <2>1. pc = "idle" /\ pc' = "idle" /\ UNCHANGED <<cable, edge, changed, valid, paused>>
    BY <1>16 DEF SetBehaviour, world
  <2>2. CASE ~inhibit
    <3>1. PICK failed \in BOOLEAN : Inhibited(failed, fault)
      BY <1>16, <2>2, MayFailTyped, Zenon DEF SetBehaviour, TypeOK
    <3>2. paused' => pc' = "idle" /\ (paused \/ ~failed)
      BY <2>1
    <3> QED
      BY <2>1, <3>1, <3>2, StoppedSafe
  <2>3. CASE inhibit
    <3>1. UNCHANGED <<pmic, fault, stopError, active, awake>>
      BY <1>16, <2>3, Zenon DEF SetBehaviour, TypeOK
    <3> QED
      BY <2>1, <2>3, <3>1 DEF IInv, EnginesGuarded, RunsForAReason, Awake, Clear, Armed,
         VerdictFresh, Known, Working, Starting, pmic
  <2> QED
    BY <2>2, <2>3
<1>17. CASE LowerCeiling
  <2>1. PICK failed \in BOOLEAN : Inhibited(failed, fault)
    BY <1>17, MayFailTyped DEF LowerCeiling
  <2>2. pc' = "idle" /\ UNCHANGED <<cable, edge, changed, valid, paused>>
    BY <1>17 DEF LowerCeiling, PollEnds, world, owner
  <2>3. paused => pc' = "idle"
    BY <2>2
  <2> QED
    BY <2>1, <2>2, StoppedSafe
<1>18. CASE SleepPrepares
  <2>1. PICK failed \in BOOLEAN : Inhibited(failed, fault) /\ paused' = ~failed
    BY <1>18, MayFailTyped DEF SleepPrepares
  <2>2. pc' = "idle" /\ UNCHANGED <<cable, edge, changed, valid>>
    BY <1>18 DEF SleepPrepares, world
  <2> QED
    BY <2>1, <2>2, StoppedSafe
<1>19. CASE SleepCompletes
  BY <1>19 DEF SleepCompletes, world, pmic, driver, IInv, EnginesGuarded, RunsForAReason, Awake,
     Clear, Armed, VerdictFresh, Known, Working, Starting, TypeOK
<1>20. CASE Shutdown
  <2>1. PICK failed \in BOOLEAN : Inhibited(failed, fault)
    BY <1>20, MayFailTyped DEF Shutdown
  <2>2. pc' = "idle" /\ UNCHANGED <<cable, edge, changed, valid, paused>>
    BY <1>20 DEF Shutdown, PollEnds, world, owner
  <2>3. paused => pc' = "idle"
    BY <2>2
  <2> QED
    BY <2>1, <2>2, StoppedSafe
<1>21. CASE CableChanges
  <2>1. Quietly /\ (cable \/ edge \/ changed => cable' \/ edge' \/ changed')
    BY <1>21 DEF CableChanges, Quietly, pmic, driver, owner
  <2> QED
    BY <2>1, QuietSafe
<1>22. CASE Irq
  <2>1. Quietly /\ (cable \/ edge \/ changed => cable' \/ edge' \/ changed')
    BY <1>22 DEF Irq, Quietly, pmic, driver, owner
  <2> QED
    BY <2>1, QuietSafe
<1>23. CASE InputChanges
  <2>1. Quietly /\ (cable \/ edge \/ changed => cable' \/ edge' \/ changed')
    BY <1>23 DEF InputChanges, Quietly, world, pmic, driver, owner
  <2> QED
    BY <2>1, QuietSafe
<1>24. CASE Electrics
  <2>1. Quietly /\ (cable \/ edge \/ changed => cable' \/ edge' \/ changed')
    BY <1>24 DEF Electrics, Quietly, pmic, driver, owner
  <2> QED
    BY <2>1, QuietSafe
<1>25. CASE Delays
  <2>1. Quietly /\ (cable \/ edge \/ changed => cable' \/ edge' \/ changed')
    BY <1>25 DEF Delays, Quietly, world, pmic, driver, owner
  <2> QED
    BY <2>1, QuietSafe
<1>26. CASE Expires
  BY <1>26 DEF Expires, world, driver, owner, IInv, EnginesGuarded, RunsForAReason, Awake, Clear,
     Armed, VerdictFresh, Known, Working, Starting, TypeOK
<1>27. CASE UNCHANGED vars
  <2>1. Quietly /\ UNCHANGED <<cable, edge, changed>>
    BY <1>27 DEF Quietly, world, pmic, driver, owner, vars
  <2> QED
    BY <2>1, QuietSafe
<1> QED
  BY <1>1, <1>2, <1>3, <1>4, <1>5, <1>6, <1>7, <1>8, <1>9, <1>10, <1>11, <1>12, <1>13, <1>14,
     <1>15, <1>16, <1>17, <1>18, <1>19, <1>20, <1>21, <1>22, <1>23, <1>24, <1>25, <1>26, <1>27 DEF
     Next

\* The invariant is one, from the first state on.
LEMMA Inductive == Spec => []IInv
<1>1. Init => IInv
  BY DEF Init, IInv, EnginesGuarded, RunsForAReason, Awake, Clear, Armed, VerdictFresh, Known,
     Working, Starting
<1>2. TypeOK /\ IInv /\ [Next]_vars => IInv'
  BY NextSafe
<1> QED
  BY <1>1, <1>2, TypeCorrect, PTL DEF Spec

\* While an engine runs its watchdog is not off, the CPU is kept awake, and
\* the driver is not paused for sleep (y2_charge_stop, y2_charge_start).
THEOREM Guarded == Spec => []EnginesGuarded
<1>1. IInv => EnginesGuarded
  BY DEF IInv
<1> QED
  BY <1>1, Inductive, PTL

\* Between two polls an engine runs for a proven source, wanted and watched,
\* unless the last attempt to stop it failed.
THEOREM Reasoned == Spec => []RunsForAReason
<1>1. IInv => RunsForAReason
  BY DEF IInv
<1> QED
  BY <1>1, Inductive, PTL

\* A latched fault switches no engine on, and only an absent cable and a
\* verified stop lift it (y2_charger_run).
THEOREM FaultStays == Spec => FaultHolds
<1> DEFINE Holds == fault = "latched" =>
                      /\ engines' => engines
                      /\ fault' = "latched" \/ (~engines' /\ ~online')
<1>1. ASSUME TypeOK, IInv, [Next]_vars, fault = "latched" PROVE Holds
  <2> SUFFICES (engines' => engines) /\ (fault' = "latched" \/ (~engines' /\ ~online'))
    BY Zenon
  <2>1. pc \notin Working
    BY <1>1 DEF IInv, Clear
  <2>2. CASE SampleFails
    BY <2>2 DEF SampleFails, pmic
  <2>3. CASE Absent
    <3>1. online' = FALSE
      BY <2>3 DEF Absent
    <3>2. PICK failed \in BOOLEAN, found \in {"none", "source", "latched"} : Inhibited(failed, found)
      BY <2>3, <1>1, MayFailTyped DEF Absent, Latch, TypeOK
    <3>3. (engines' => engines /\ failed) /\ (failed => fault' = "latched")
      BY <3>2, InhibitedSafe
    <3> QED
      BY <3>1, <3>3
  <2>4. CASE Present
    <3>1. fault' = "latched" /\ UNCHANGED pmic
      BY <2>4, <1>1 DEF Present, Retries
    <3> QED
      BY <3>1 DEF pmic
  <2>5. CASE PollInhibits
    <3>1. PICK failed \in BOOLEAN : Inhibited(failed, fault)
      BY <2>5, MayFailTyped DEF PollInhibits
    <3> QED
      BY <1>1, <3>1, InhibitedSafe
  <2>6. CASE SetBehaviour
    <3>1. CASE ~inhibit
      <4>1. PICK failed \in BOOLEAN : Inhibited(failed, fault)
        BY <2>6, <1>1, <3>1, MayFailTyped, Zenon DEF SetBehaviour, TypeOK
      <4> QED
        BY <1>1, <4>1, InhibitedSafe
    <3>2. CASE inhibit
      <4>1. UNCHANGED <<pmic, fault>>
        BY <2>6, <1>1, <3>2, Zenon DEF SetBehaviour, TypeOK
      <4> QED
        BY <1>1, <4>1 DEF pmic
    <3> QED
      BY <3>1, <3>2
  <2>7. CASE LowerCeiling
    <3>1. PICK failed \in BOOLEAN : Inhibited(failed, fault)
      BY <2>7, MayFailTyped DEF LowerCeiling
    <3> QED
      BY <1>1, <3>1, InhibitedSafe
  <2>8. CASE SleepPrepares
    <3>1. PICK failed \in BOOLEAN : Inhibited(failed, fault)
      BY <2>8, MayFailTyped DEF SleepPrepares
    <3> QED
      BY <1>1, <3>1, InhibitedSafe
  <2>9. CASE Shutdown
    <3>1. PICK failed \in BOOLEAN : Inhibited(failed, fault)
      BY <2>9, MayFailTyped DEF Shutdown
    <3> QED
      BY <1>1, <3>1, InhibitedSafe
  <2>10. CASE Expires
    BY <2>10, <1>1 DEF Expires, driver
  <2>11. CASE PollOut \/ SleepCompletes \/ CableChanges \/ Irq \/ InputChanges \/ Electrics \/
            Delays \/ UNCHANGED vars
    BY <2>11, <1>1 DEF PollOut, SleepCompletes, CableChanges, Irq, InputChanges, Electrics,
       Delays, pmic, driver, vars
  <2>12. ~(Quiet \/ Detected \/ Resample \/ Decide \/ Prepare \/ Recheck \/ Enable \/ Watch \/
            Serve \/ Pet)
    BY <2>1 DEF Working, Starting, Quiet, Detected, Resample, Decide, Prepare, Recheck, Enable,
       Watch, Serve, Pet
  <2> QED
    BY <1>1, <2>2, <2>3, <2>4, <2>5, <2>6, <2>7, <2>8, <2>9, <2>10, <2>11, <2>12 DEF Next
<1>2. TypeOK /\ IInv /\ [Next]_vars => [Holds]_vars
  BY <1>1
<1> QED
  BY <1>2, TypeCorrect, Inductive, PTL DEF Spec, FaultHolds

-----------------------------------------------------------------------------
(* The engine nobody has to trust the driver for: every step of the driver is *)
(* one of GuardedEngine, or leaves the engine alone.                          *)

\* A source is judged only while the engines are off.
Judged == pc = "detect" => ~engines

LEMMA JudgedStep == ASSUME Judged, [Next]_vars PROVE Judged'
<1>1. CASE Quiet
  <2>1. PICK failed \in BOOLEAN : /\ Inhibited(failed, fault) \/ Inhibited(failed, "source")
                                  /\ (pc' = "detect" => ~failed)
    BY <1>1, MayFailTyped DEF Quiet
  <2>2. ~failed => ~engines'
    <3>1. CASE Inhibited(failed, fault)
      BY <3>1, InhibitedSafe
    <3>2. CASE Inhibited(failed, "source")
      BY <3>2, InhibitedSafe
    <3> QED
      BY <2>1, <3>1, <3>2
  <2> QED
    BY <2>1, <2>2 DEF Judged
<1>2. CASE PollOut \/ SampleFails \/ Absent \/ Present \/ Detected \/ Resample \/ Decide \/ Prepare
           \/ Recheck \/ Enable \/ Watch \/ Serve \/ Pet \/ PollInhibits
  <2>1. pc' # "detect"
    BY <1>2 DEF PollOut, SampleFails, Absent, Present, Detected, Resample, Decide, Prepare, Recheck,
       Enable, Watch, Serve, Pet, PollInhibits, Polls, PollEnds
  <2> QED
    BY <2>1 DEF Judged
<1>3. CASE SetBehaviour \/ LowerCeiling \/ SleepPrepares \/ Shutdown
  BY <1>3 DEF SetBehaviour, LowerCeiling, SleepPrepares, Shutdown, Judged
<1>4. CASE SleepCompletes \/ CableChanges \/ Irq \/ InputChanges \/ Electrics \/ Delays \/ Expires
           \/ UNCHANGED vars
  <2>1. UNCHANGED pc /\ (engines' => engines)
    BY <1>4 DEF SleepCompletes, CableChanges, Irq, InputChanges, Electrics, Delays, Expires, pmic, vars
  <2> QED
    BY <2>1 DEF Judged
<1> QED
  BY <1>1, <1>2, <1>3, <1>4 DEF Next

Kept == [Engine!Next]_Engine!vars

\* Who leaves the engines alone may find something wrong.
LEMMA Doubts ==
  ASSUME UNCHANGED <<engines, wd, awake, paused>>, fault = "latched" => fault' = "latched",
         valid' => valid
  PROVE Kept
<1>1. Engine!Doubt
  BY DEF Engine!Doubt
<1> QED
  BY <1>1 DEF Kept, Engine!Next

\* Who stops them may end what was wrong, if there is no source.
LEMMA Stops ==
  ASSUME IInv, NEW failed \in BOOLEAN, NEW found, Inhibited(failed, found), valid' => valid,
         fault = "latched" /\ found # "latched" => ~online', failed => UNCHANGED paused \/ ~paused'
  PROVE Kept
<1>1. /\ engines' => engines /\ failed /\ wd' = wd
      /\ failed => stopError' /\ awake' /\ fault' = "latched"
      /\ ~failed => fault' = found
  BY InhibitedSafe
<1>2. wd' \in {wd, "off"}
  BY DEF Inhibited, Stop, pmic
<1>3. engines => ~paused
  BY DEF IInv, EnginesGuarded
<1>4. Engine!Stop
  BY <1>1, <1>2, <1>3 DEF Engine!Stop
<1> QED
  BY <1>4 DEF Kept, Engine!Next

\* A poll beyond its first look has a proven source, or is about to, and no fault.
LEMMA Undisturbed ==
  ASSUME IInv, pc \in Working
  PROVE fault = "none" /\ ~paused /\ (pc \in Starting => valid)
  BY DEF IInv, Awake, Clear, VerdictFresh, Working, Starting

LEMMA PollKept == ASSUME TypeOK, TypeOK', IInv, Judged, Poll PROVE Kept
<1>1. CASE PollOut
  BY <1>1, Doubts DEF PollOut, pmic, driver, owner
<1>2. CASE SampleFails
  BY <1>2, Doubts DEF SampleFails, pmic, owner
<1>3. CASE Absent
  <2>1. PICK failed \in BOOLEAN, found \in {"none", "source", "latched"} : Inhibited(failed, found)
    BY <1>3, MayFailTyped DEF Absent, Latch, TypeOK
  <2>2. online' = FALSE /\ valid' = FALSE /\ UNCHANGED paused
    BY <1>3 DEF Absent, owner
  <2> QED
    BY <2>1, <2>2, Stops
<1>4. CASE Present
  <2>1. UNCHANGED <<engines, wd, awake, paused>>
    BY <1>4 DEF Present, pmic, owner
  <2>2. fault = "latched" => fault' = "latched"
    BY <1>4 DEF Present, Retries
  <2>3. valid' => valid
    BY <1>4, Zenon DEF Present
  <2> QED
    BY <2>1, <2>2, <2>3, Doubts
<1>5. CASE Quiet
  <2>1. PICK failed, found : failed \in BOOLEAN /\ Inhibited(failed, found)
    BY <1>5, MayFailTyped DEF Quiet
  <2>2. fault = "none" /\ UNCHANGED <<valid, paused>>
    BY <1>5, Undisturbed DEF Quiet, Working, owner
  <2> QED
    BY <2>1, <2>2, Stops
<1>6. CASE Detected
  <2>1. pc = "detect" /\ UNCHANGED <<engines, wd, awake, paused, online>>
    BY <1>6 DEF Detected, pmic, owner
  <2>2. fault = "none" /\ ~paused /\ ~engines
    BY <2>1, Undisturbed DEF Working, Judged
  <2>3. CASE valid' = TRUE /\ UNCHANGED fault
    <3>1. Engine!Prove
      BY <2>1, <2>2, <2>3 DEF Engine!Prove
    <3> QED
      BY <3>1 DEF Kept, Engine!Next
  <2>4. CASE UNCHANGED valid
    BY <2>1, <2>2, <2>4, Doubts
  <2> QED
    BY <1>6, <2>3, <2>4 DEF Detected
<1>7. CASE Resample \/ Recheck \/ Watch \/ Serve
  <2>1. pc \in Working /\ UNCHANGED <<engines, wd, awake, paused, valid>>
    BY <1>7 DEF Resample, Recheck, Watch, Serve, Working, Starting, pmic, owner
  <2>2. fault = "none"
    BY <2>1, Undisturbed
  <2> QED
    BY <2>1, <2>2, Doubts
<1>8. CASE Decide
  <2>1. pc \in Working /\ UNCHANGED <<paused, valid>>
    BY <1>8 DEF Decide, Working, Starting, driver, owner
  <2>2. fault = "none"
    BY <2>1, Undisturbed
  <2>3. CASE UNCHANGED <<pmic, driver>>
    BY <2>1, <2>2, <2>3, Doubts DEF pmic, driver
  <2>4. CASE ~UNCHANGED <<pmic, driver>>
    <3>1. PICK failed \in BOOLEAN : Inhibited(failed, fault)
      BY <1>8, <2>4, MayFailTyped DEF Decide
    <3> QED
      BY <2>1, <2>2, <3>1, Stops
  <2> QED
    BY <2>3, <2>4
<1>9. CASE Prepare
  <2>1. pc = "prepare" /\ awake' /\ UNCHANGED <<valid, online, paused>>
    BY <1>9 DEF Prepare, owner
  <2>2. fault = "none" /\ ~paused /\ valid
    BY <2>1, Undisturbed DEF Working, Starting
  <2>3. (fault' = "latched") \/ (~engines' /\ wd' = "armed" /\ fault' = fault)
    BY <1>9 DEF Prepare
  <2>4. engines' => engines /\ wd' = wd /\ fault' = "latched"
    BY <1>9, Zenon DEF Prepare, Stop, pmic
  <2>5. Engine!Arm
    BY <2>1, <2>2, <2>3, <2>4 DEF Engine!Arm
  <2> QED
    BY <2>5 DEF Kept, Engine!Next
<1>10. CASE Enable
  <2>1. pc = "enable" /\ UNCHANGED <<wd, awake, valid, online, paused>>
    BY <1>10 DEF Enable, owner
  <2>2. fault = "none" /\ ~paused /\ valid
    BY <2>1, Undisturbed DEF Working, Starting
  <2>3. wd # "off" /\ awake
    BY <2>1 DEF IInv, Armed
  <2>4. CASE engines'
    <3>1. Engine!Start
      BY <2>1, <2>2, <2>3, <2>4 DEF Engine!Start
    <3> QED
      BY <3>1 DEF Kept, Engine!Next
  <2>5. CASE ~engines'
    <3>1. Engine!Stop
      BY <2>1, <2>2, <2>5 DEF Engine!Stop
    <3> QED
      BY <3>1 DEF Kept, Engine!Next
  <2> QED
    BY <2>4, <2>5
<1>11. CASE Pet
  <2>1. pc = "pet" /\ UNCHANGED <<engines, awake, valid, online, paused>>
    BY <1>11 DEF Pet, owner
  <2>2. fault = "none" /\ ~paused /\ valid
    BY <2>1, Undisturbed DEF Working, Starting
  <2>3. wd' \in {wd, "armed"}
    BY <1>11 DEF Pet
  <2>4. CASE wd' = "armed"
    <3>1. Engine!Serve
      BY <2>1, <2>2, <2>4 DEF Engine!Serve
    <3> QED
      BY <3>1 DEF Kept, Engine!Next
  <2>5. CASE wd' = wd
    BY <2>1, <2>2, <2>5, Doubts
  <2> QED
    BY <2>3, <2>4, <2>5
<1>12. CASE PollInhibits
  <2>1. PICK failed \in BOOLEAN : Inhibited(failed, fault)
    BY <1>12, MayFailTyped DEF PollInhibits
  <2>2. UNCHANGED <<valid, paused>>
    BY <1>12 DEF PollInhibits, owner
  <2> QED
    BY <2>1, <2>2, Stops
<1> QED
  BY <1>1, <1>2, <1>3, <1>4, <1>5, <1>6, <1>7, <1>8, <1>9, <1>10, <1>11, <1>12 DEF Poll

LEMMA OwnerKept ==
  ASSUME TypeOK, TypeOK', IInv,
         SetBehaviour \/ LowerCeiling \/ SleepPrepares \/ SleepCompletes \/ Shutdown
  PROVE Kept
<1>1. CASE SetBehaviour
  <2>1. UNCHANGED <<valid, paused>>
    BY <1>1 DEF SetBehaviour
  <2>2. CASE inhibit'
    <3>1. PICK failed \in BOOLEAN : Inhibited(failed, fault)
      BY <1>1, <2>2, MayFailTyped, Zenon DEF SetBehaviour
    <3> QED
      BY <2>1, <3>1, Stops
  <2>3. CASE ~inhibit'
    <3>1. UNCHANGED <<pmic, fault, awake>>
      BY <1>1, <2>3, Zenon DEF SetBehaviour
    <3> QED
      BY <2>1, <3>1, Doubts DEF pmic
  <2> QED
    BY <2>2, <2>3
<1>2. CASE LowerCeiling \/ Shutdown
  <2>1. PICK failed \in BOOLEAN : Inhibited(failed, fault)
    BY <1>2, MayFailTyped DEF LowerCeiling, Shutdown
  <2>2. UNCHANGED <<valid, paused>>
    BY <1>2 DEF LowerCeiling, Shutdown, owner
  <2> QED
    BY <2>1, <2>2, Stops
<1>3. CASE SleepPrepares
  <2>1. PICK failed \in BOOLEAN : Inhibited(failed, fault) /\ paused' = ~failed
    BY <1>3, MayFailTyped DEF SleepPrepares
  <2>2. UNCHANGED valid
    BY <1>3 DEF SleepPrepares
  <2> QED
    BY <2>1, <2>2, Stops
<1>4. CASE SleepCompletes
  <2>1. Engine!Wake
    BY <1>4 DEF SleepCompletes, Engine!Wake, pmic, driver
  <2> QED
    BY <2>1 DEF Kept, Engine!Next
<1> QED
  BY <1>1, <1>2, <1>3, <1>4

LEMMA WorldKept ==
  ASSUME CableChanges \/ Irq \/ InputChanges \/ Electrics \/ Delays \/ Expires \/ UNCHANGED vars
  PROVE Kept
<1>1. CASE Expires
  <2>1. Engine!Expire
    BY <1>1 DEF Expires, Engine!Expire, driver, owner
  <2> QED
    BY <2>1 DEF Kept, Engine!Next
<1>2. CASE ~Expires
  <2>1. UNCHANGED <<engines, wd, awake, fault, valid, paused>>
    BY <1>2 DEF CableChanges, Irq, InputChanges, Electrics, Delays, pmic, driver, owner, vars
  <2> QED
    BY <2>1, Doubts
<1> QED
  BY <1>1, <1>2

\* Whichever access fails and however late a poll comes, the driver does with
\* the engines only what GuardedEngine allows.
THEOREM EngineGuarded == Spec => ImplementsEngine
<1>1. Init => Engine!Init /\ Judged
  <2> SUFFICES ASSUME Init PROVE Engine!Init
    BY DEF Init, Judged
  <2>1. (fault = "latched") = FALSE
    BY DEF Init
  <2> QED
    BY <2>1 DEF Init, Engine!Init
<1>2. Judged /\ [Next]_vars => Judged'
  BY JudgedStep
<1>3. TypeOK /\ TypeOK' /\ IInv /\ Judged /\ [Next]_vars => [Engine!Next]_Engine!vars
  BY PollKept, OwnerKept, WorldKept DEF Next, Poll, Kept
<1> QED
  BY <1>1, <1>2, <1>3, TypeCorrect, Inductive, PTL DEF Spec, ImplementsEngine, Engine!Spec
==============================================================================
