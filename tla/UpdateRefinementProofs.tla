------------------------ MODULE UpdateRefinementProofs ------------------------
(***************************************************************************)
(* The proof that the updater implements UpdateSwitch: every step of it is *)
(* one step of the abstract specification, or changes nothing of it.       *)
(***************************************************************************)
EXTENDS UpdateRefinement, UpdateProofs

LEMMA PowerMaps == IInv /\ Power => [Switch!Next]_Switch!vars
<1> SUFFICES ASSUME IInv, Power PROVE Switch!Next \/ UNCHANGED Switch!vars
  OBVIOUS
<1> USE ReleaseAssumption DEF IInv, TypeOK, Places, Underway, Records,
          Requested, Progress, RestorableLonger, MatchedPair, Restorable,
          SystemOnPair, ReturnsToRecovery, AcceptedIsRunning, RecoveryReady,
          Whole, Saved, vars, stored, running, history, disk, copies, packages,
          Terminal, Resumable, JournalState, File, Image, Journal, Stop, state,
          Step, Free, OwnerAt, HealthAt, StagingAt, RecoveryStep, PrepareStep,
          CoreStep, HealthBoots, Later, initial, runs, PhaseOf, Switch!vars
<1>1. CASE PowerLoss
  BY <1>1 DEF PowerLoss
<1>2. CASE SwitchOff
  BY <1>2 DEF SwitchOff
<1>3. CASE LoadRecovery
  BY <1>3 DEF LoadRecovery, Boot
<1>4. CASE LoadBootimg
  BY <1>4 DEF LoadBootimg, Boot
<1> QED
  BY <1>1, <1>2, <1>3, <1>4 DEF Power

LEMMA OwnerMaps == IInv /\ Owner => [Switch!Next]_Switch!vars
<1> SUFFICES ASSUME IInv, Owner PROVE Switch!Next \/ UNCHANGED Switch!vars
  OBVIOUS
<1> USE ReleaseAssumption DEF IInv, TypeOK, Places, Underway, Records,
          Requested, Progress, RestorableLonger, MatchedPair, Restorable,
          SystemOnPair, ReturnsToRecovery, AcceptedIsRunning, RecoveryReady,
          Whole, Saved, vars, stored, running, history, disk, copies, packages,
          Terminal, Resumable, JournalState, File, Image, Journal, Stop, state,
          Step, Free, OwnerAt, HealthAt, StagingAt, RecoveryStep, PrepareStep,
          CoreStep, HealthBoots, Later, initial, runs, PhaseOf, Switch!vars
<1>1. CASE StageBegin
  BY <1>1 DEF StageBegin
<1>2. CASE StageFails
  BY <1>2 DEF StageFails
<1>3. CASE \E r \in Release : StageCommit(r)
  BY <1>3 DEF StageCommit
<1>4. CASE Queue
  <2>1. /\ where = "system" /\ pc = "idle" /\ journal.state \in Terminal
        /\ root' = root /\ accepted' = accepted
    BY <1>4 DEF Queue
  <2>2. root \in Release /\ Later(root, accepted.current) = root
    BY <2>1
  <2>3. pending > accepted.sequence \/ pending \in MayDowngrade
    BY <1>4, <2>2 DEF Queue, verify
  <2>4. /\ pending \in Release /\ journal' \in Journal
        /\ journal'.state = "Queued" /\ journal'.sequence = pending
        /\ journal'.previous = root
    BY <1>4, <2>2, QueueJournal
  <2>5. Switch!Offer(pending)
    BY <2>1, <2>2, <2>3, <2>4 DEF Switch!Offer
  <2>6. \E r \in Release : Switch!Offer(r)
    <3> HIDE DEF runs, PhaseOf, Journal
    <3> QED BY <2>4, <2>5 DEF Switch!Offer
  <2> QED
    BY <2>6 DEF Switch!Next
<1>5. CASE QueueFails
  BY <1>5 DEF QueueFails, verify
<1>6. CASE Cancel
  <2>1. Switch!Drop
    BY <1>6 DEF Cancel, Switch!Drop
  <2> QED
    BY <2>1 DEF Switch!Next
<1>7. CASE ApplyGate
  BY <1>7 DEF ApplyGate
<1>8. CASE RollbackGate
  BY <1>8 DEF RollbackGate, rollback_permitted
<1>9. CASE ProbeGate
  BY <1>9 DEF ProbeGate
<1> QED
  BY <1>1, <1>2, <1>3, <1>4, <1>5, <1>6, <1>7, <1>8, <1>9 DEF Owner

LEMMA PlatformMaps == IInv /\ Platform => [Switch!Next]_Switch!vars
<1> SUFFICES ASSUME IInv, Platform PROVE Switch!Next \/ UNCHANGED Switch!vars
  OBVIOUS
<1> USE ReleaseAssumption DEF IInv, TypeOK, Places, Underway, Records,
          Requested, Progress, RestorableLonger, MatchedPair, Restorable,
          SystemOnPair, ReturnsToRecovery, AcceptedIsRunning, RecoveryReady,
          Whole, Saved, vars, stored, running, history, disk, copies, packages,
          Terminal, Resumable, JournalState, File, Image, Journal, Stop, state,
          Step, Free, OwnerAt, HealthAt, StagingAt, RecoveryStep, PrepareStep,
          CoreStep, HealthBoots, Later, initial, runs, PhaseOf, Switch!vars
<1>1. CASE CoreRollback
  <2>1. Switch!Return \/ UNCHANGED Switch!vars
    BY <1>1 DEF CoreRollback, rollback_permitted, Switch!Return
  <2> QED
    BY <2>1 DEF Switch!Next
<1>2. CASE ApplyBusy
  BY <1>2 DEF ApplyBusy
<1>3. CASE Restart
  BY <1>3 DEF Restart
<1>4. CASE RestartRefused
  BY <1>4 DEF RestartRefused
<1>5. CASE ApplyPrepare
  BY <1>5 DEF ApplyPrepare, PrepareFrom, queued, verify, newer,
      recovery_installed, Finish
<1>6. CASE ProbePrepare
  BY <1>6 DEF ProbePrepare, PrepareFrom, queued, verify, newer,
      recovery_installed, Finish
<1>7. CASE HealthPrepare
  BY <1>7 DEF HealthPrepare, PrepareFrom, queued, verify, newer,
      recovery_installed, Finish
<1>8. CASE AckAccept
  <2>1. Switch!Vouch
    BY <1>8 DEF AckAccept, Switch!Vouch, Switch!Higher
  <2> QED
    BY <2>1 DEF Switch!Next
<1>9. CASE AckState
  <2>1. Switch!Confirm
    BY <1>9 DEF AckState, Switch!Confirm
  <2> QED
    BY <2>1 DEF Switch!Next
<1>10. CASE AckKeep
  BY <1>10 DEF AckKeep
<1>11. CASE HealthDeadline
  <2>1. Switch!Return
    BY <1>11 DEF HealthDeadline, rollback_permitted, Switch!Return
  <2> QED
    BY <2>1 DEF Switch!Next
<1> QED
  BY <1>1, <1>2, <1>3, <1>4, <1>5, <1>6, <1>7, <1>8, <1>9, <1>10, <1>11 DEF Platform

LEMMA PrepareMaps == IInv /\ Prepare => [Switch!Next]_Switch!vars
<1> SUFFICES ASSUME IInv, Prepare PROVE Switch!Next \/ UNCHANGED Switch!vars
  OBVIOUS
<1> USE ReleaseAssumption DEF IInv, TypeOK, Places, Underway, Records,
          Requested, Progress, RestorableLonger, MatchedPair, Restorable,
          SystemOnPair, ReturnsToRecovery, AcceptedIsRunning, RecoveryReady,
          Whole, Saved, vars, stored, running, history, disk, copies, packages,
          Terminal, Resumable, JournalState, File, Image, Journal, Stop, state,
          Step, Free, OwnerAt, HealthAt, StagingAt, RecoveryStep, PrepareStep,
          CoreStep, HealthBoots, Later, initial, runs, PhaseOf, Switch!vars
<1>1. CASE RecoveryWriteBegins
  BY <1>1 DEF RecoveryWriteBegins
<1>2. CASE RecoveryWritten
  BY <1>2 DEF RecoveryWritten
<1>3. CASE RecoveryWriteFails
  BY <1>3 DEF RecoveryWriteFails, Finish
<1>4. CASE Request
  BY <1>4 DEF Request, operation, Finish
<1>5. CASE CountRequest
  BY <1>5 DEF CountRequest, Finish
<1> QED
  BY <1>1, <1>2, <1>3, <1>4, <1>5 DEF Prepare

LEMMA BootCheckMaps == IInv /\ BootCheck => [Switch!Next]_Switch!vars
<1> SUFFICES ASSUME IInv, BootCheck PROVE Switch!Next \/ UNCHANGED Switch!vars
  OBVIOUS
<1> USE ReleaseAssumption DEF IInv, TypeOK, Places, Underway, Records,
          Requested, Progress, RestorableLonger, MatchedPair, Restorable,
          SystemOnPair, ReturnsToRecovery, AcceptedIsRunning, RecoveryReady,
          Whole, Saved, vars, stored, running, history, disk, copies, packages,
          Terminal, Resumable, JournalState, File, Image, Journal, Stop, state,
          Step, Free, OwnerAt, HealthAt, StagingAt, RecoveryStep, PrepareStep,
          CoreStep, HealthBoots, Later, initial, runs, PhaseOf, Switch!vars
<1>1. CASE BootNormally
  BY <1>1 DEF BootNormally, Checking, Mount
<1>2. CASE BootUnstarted
  BY <1>2 DEF BootUnstarted
<1>3. CASE BootFailed
  <2>1. Switch!Drop
    BY <1>3 DEF BootFailed, Mount, Switch!Drop
  <2> QED
    BY <2>1 DEF Switch!Next
<1>4. CASE BootCounted
  BY <1>4 DEF BootCounted, Checking, Mount
<1>5. CASE BootUnconfirmed
  <2>1. Switch!Return
    BY <1>5 DEF BootUnconfirmed, Switch!Return
  <2> QED
    BY <2>1 DEF Switch!Next
<1>6. CASE BootGivesUp
  <2>1. Switch!GiveUp
    BY <1>6 DEF BootGivesUp, Unfinished, Checking, GiveUp, Switch!GiveUp
  <2> QED
    BY <2>1 DEF Switch!Next
<1>7. CASE BootRequests
  BY <1>7 DEF BootRequests, Unfinished, Checking, GiveUp, PrepareFrom, queued,
      verify, newer, recovery_installed, Finish
<1>8. CASE BootHeld
  BY <1>8 DEF BootHeld, Checking
<1> QED
  BY <1>1, <1>2, <1>3, <1>4, <1>5, <1>6, <1>7, <1>8 DEF BootCheck

LEMMA InstallMaps == IInv /\ Install => [Switch!Next]_Switch!vars
<1> SUFFICES ASSUME IInv, Install PROVE Switch!Next \/ UNCHANGED Switch!vars
  OBVIOUS
<1> USE ReleaseAssumption DEF IInv, TypeOK, Places, Underway, Records,
          Requested, Progress, RestorableLonger, MatchedPair, Restorable,
          SystemOnPair, ReturnsToRecovery, AcceptedIsRunning, RecoveryReady,
          Whole, Saved, vars, stored, running, history, disk, copies, packages,
          Terminal, Resumable, JournalState, File, Image, Journal, Stop, state,
          Step, Free, OwnerAt, HealthAt, StagingAt, RecoveryStep, PrepareStep,
          CoreStep, HealthBoots, Later, initial, runs, PhaseOf, Switch!vars
<1>1. CASE RecoverInstall
  BY <1>1 DEF RecoverInstall, Identified, verify
<1>2. CASE RecoverMismatch
  <2>1. Switch!Drop
    BY <1>2 DEF RecoverMismatch, Identified, verify, Switch!Drop
  <2> QED
    BY <2>1 DEF Switch!Next
<1>3. CASE BackupBegins
  BY <1>3 DEF BackupBegins
<1>4. CASE CopyRoot
  BY <1>4 DEF CopyRoot
<1>5. CASE CopyBoot
  BY <1>5 DEF CopyBoot
<1>6. CASE BackupFails
  <2>1. Switch!Drop
    BY <1>6 DEF BackupFails, Switch!Drop
  <2> QED
    BY <2>1 DEF Switch!Next
<1>7. CASE BackupSaved
  BY <1>7 DEF BackupSaved
<1>8. CASE InstallBegins
  BY <1>8 DEF InstallBegins
<1>9. CASE RootWriteBegins
  BY <1>9 DEF RootWriteBegins
<1>10. CASE RootWritten
  BY <1>10 DEF RootWritten
<1>11. CASE BootWriteBegins
  BY <1>11 DEF BootWriteBegins
<1>12. CASE BootWritten
  BY <1>12 DEF BootWritten
<1>13. CASE InstallFails
  BY <1>13 DEF InstallFails
<1>14. CASE Installed
  <2>1. Switch!Move
    BY <1>14 DEF Installed, Switch!Move
  <2> QED
    BY <2>1 DEF Switch!Next
<1> QED
  BY <1>1, <1>2, <1>3, <1>4, <1>5, <1>6, <1>7, <1>8, <1>9, <1>10,
     <1>11, <1>12, <1>13, <1>14 DEF Install

LEMMA RestoreMaps == IInv /\ Restore => [Switch!Next]_Switch!vars
<1> SUFFICES ASSUME IInv, Restore PROVE Switch!Next \/ UNCHANGED Switch!vars
  OBVIOUS
<1> USE ReleaseAssumption DEF IInv, TypeOK, Places, Underway, Records,
          Requested, Progress, RestorableLonger, MatchedPair, Restorable,
          SystemOnPair, ReturnsToRecovery, AcceptedIsRunning, RecoveryReady,
          Whole, Saved, vars, stored, running, history, disk, copies, packages,
          Terminal, Resumable, JournalState, File, Image, Journal, Stop, state,
          Step, Free, OwnerAt, HealthAt, StagingAt, RecoveryStep, PrepareStep,
          CoreStep, HealthBoots, Later, initial, runs, PhaseOf, Switch!vars
<1>1. CASE RecoverRestore
  BY <1>1 DEF RecoverRestore
<1>2. CASE RestoreBegins
  <2>1. Switch!Undo \/ UNCHANGED Switch!vars
    BY <1>2 DEF RestoreBegins, Switch!Undo
  <2> QED
    BY <2>1 DEF Switch!Next
<1>3. CASE RestoreRootBegins
  BY <1>3 DEF RestoreRootBegins
<1>4. CASE RootRestored
  BY <1>4 DEF RootRestored
<1>5. CASE RestoreBootBegins
  BY <1>5 DEF RestoreBootBegins
<1>6. CASE BootRestored
  BY <1>6 DEF BootRestored
<1>7. CASE RestoreFails
  <2>1. Switch!GiveUp \/ UNCHANGED Switch!vars
    BY <1>7 DEF RestoreFails, Switch!GiveUp
  <2> QED
    BY <2>1 DEF Switch!Next
<1>8. CASE RestoreAccepts
  BY <1>8 DEF RestoreAccepts
<1>9. CASE Restored
  <2>1. Switch!Settle
    BY <1>9 DEF Restored, Switch!Settle
  <2> QED
    BY <2>1 DEF Switch!Next
<1> QED
  BY <1>1, <1>2, <1>3, <1>4, <1>5, <1>6, <1>7, <1>8, <1>9 DEF Restore

LEMMA RecoverMaps == IInv /\ Recover => [Switch!Next]_Switch!vars
<1> SUFFICES ASSUME IInv, Recover PROVE Switch!Next \/ UNCHANGED Switch!vars
  OBVIOUS
<1> USE ReleaseAssumption DEF IInv, TypeOK, Places, Underway, Records,
          Requested, Progress, RestorableLonger, MatchedPair, Restorable,
          SystemOnPair, ReturnsToRecovery, AcceptedIsRunning, RecoveryReady,
          Whole, Saved, vars, stored, running, history, disk, copies, packages,
          Terminal, Resumable, JournalState, File, Image, Journal, Stop, state,
          Step, Free, OwnerAt, HealthAt, StagingAt, RecoveryStep, PrepareStep,
          CoreStep, HealthBoots, Later, initial, runs, PhaseOf, Switch!vars
<1>1. CASE RecoverNothing
  BY <1>1 DEF RecoverNothing
<1>2. CASE RecoverRefuses
  BY <1>2 DEF RecoverRefuses, Recovering
<1>3. CASE RecoverNeedsPower
  BY <1>3 DEF RecoverNeedsPower, Recovering
<1>4. CASE ClearRequest
  BY <1>4 DEF ClearRequest
<1> QED
  BY <1>1, <1>2, <1>3, <1>4 DEF Recover

(* The updater implements UpdateSwitch: whatever fails and whenever the    *)
(* power goes, it moves between whole releases as the owner was promised.  *)
THEOREM Implements == Spec => ImplementsSwitch
<1>1. Init => Switch!Init
  BY DEF Init, Switch!Init, runs, PhaseOf, JournalState, Terminal, initial
<1>2. IInv /\ [Next]_vars => [Switch!Next]_Switch!vars
  <2>1. IInv /\ UNCHANGED vars => UNCHANGED Switch!vars
    BY DEF vars, stored, disk, Switch!vars, runs
  <2> QED
    BY <2>1, PowerMaps, OwnerMaps, PlatformMaps, PrepareMaps, BootCheckMaps,
       InstallMaps, RestoreMaps, RecoverMaps DEF Next
<1> QED
  BY Inductive, <1>1, <1>2, PTL DEF Spec, ImplementsSwitch, Switch!Spec
===============================================================================
