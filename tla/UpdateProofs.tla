----------------------------- MODULE UpdateProofs -----------------------------
(***************************************************************************)
(* Proofs about the updater: its type invariant and its safety invariants  *)
(* hold for every set of releases, every policy of theirs, any faults and  *)
(* any number of power losses.                                             *)
(*                                                                         *)
(* The invariants are not inductive as they stand: what a step of recover  *)
(* or restore writes is right only because of what the journal and the     *)
(* partitions already hold when it is reached.  IInv adds that, step by    *)
(* step of the core's commands.                                            *)
(***************************************************************************)
EXTENDS UpdateCore, TLAPS

Whole == root \in Release /\ bootimg = root

(* What the copies on Y2DATA and the journal say of them when they count. *)
Saved == /\ journal.saved
         /\ rootCopy \in Release /\ bootCopy = rootCopy /\ journal.previous = rootCopy

(* Which steps belong to which environment, and that nothing of the        *)
(* platform is under way outside of the normal system.                     *)
Places ==
  /\ where \in {"off", "held", "dead"} => pc = "idle"
  /\ where = "system" => pc \in {"idle", "a_state", "a_keep"} \cup PrepareStep
  /\ where = "rescue" => pc \in {"start", "b_failed", "b_unfinished"} \cup PrepareStep
  /\ where = "recovery" => pc \in {"start"} \cup RecoveryStep
  /\ where # "system" => apply = "idle" /\ health = "idle" /\ staging = "idle"
  /\ pc \in PrepareStep => caller \in {"apply", "probe", "health", "boot"}
  /\ pc \in PrepareStep => (caller = "boot" <=> where = "rescue")

(* What the journal may say while a step of the platform is under way. *)
Underway ==
  /\ health = "preparing" => journal.state = "RollbackPending"
  /\ staging # "idle" => journal.state # "Queued"
  /\ pc \in {"p_recovery", "p_readback"} => journal.state = "Queued"
  /\ pc \in PrepareStep /\ caller = "probe" => journal.state \in Terminal
  /\ where = "system" =>
       journal.state \notin {"BackingUp", "Installing", "RollingBack", "RescueRequired"}
  /\ pc = "a_state" => /\ journal.state = "PendingHealth" /\ accepted.current = root
                       /\ accepted.sequence >= journal.sequence
  /\ pc = "a_keep" => journal.state = "Acknowledged"
  /\ pc = "b_failed" => journal.state = "Queued"
  /\ pc = "b_unfinished" => journal.state = "RollbackPending"

(* The journal against the packages and accepted.json. *)
Records ==
  /\ journal.state # "Idle" =>
       journal.sequence \in Release /\ journal.previous \in Release
  /\ journal.state = "Queued" => pending = journal.sequence
  /\ journal.state \in {"Queued", "BackingUp"} =>
       /\ journal.previous = root
       /\ journal.kept \in {Nothing, root}
  /\ journal.state \in {"PendingHealth", "Acknowledged"} => root = journal.sequence
  /\ journal.state \in Terminal \cup {"Queued", "BackingUp"} =>
       accepted.current \in {0, root}
  /\ journal.state \in {"Queued", "BackingUp", "Installing"} =>
       journal.sequence > accepted.sequence \/ journal.sequence \in MayDowngrade

(* The request and RECOVERY. *)
Requested ==
  /\ where = "recovery" => misc # "none" /\ recovery \in Release
  /\ pc \in RecoveryStep \ {"clear"} => misc = "y2-update"
  /\ pc = "clear" =>
       misc = "y2-probe" \/ journal.state \in Terminal \cup {"PendingHealth"}
  /\ misc # "y2-update" => Whole

(* What each step of recover and restore may rely on. *)
Progress ==
  /\ pc = "r_backup" => journal.state \in {"Queued", "BackingUp"}
  /\ pc \in {"r_copy_root", "r_copy_boot", "r_saved", "r_install"} =>
       journal.state = "BackingUp"
  /\ pc \in {"r_copy_boot", "r_saved"} => rootCopy = root
  /\ pc = "r_saved" => bootCopy = bootimg
  /\ pc \in {"r_root", "r_root_check", "r_boot", "r_boot_check", "r_pending"} =>
       journal.state = "Installing"
  /\ pc \in {"r_boot", "r_boot_check", "r_pending"} => root = journal.sequence
  /\ pc = "r_pending" => bootimg = root
  /\ pc = "s_check" =>
       journal.state \in {"BackingUp", "Installing", "RollingBack", "RollbackPending"}
  /\ pc \in {"r_install", "s_check"} => Saved
  /\ pc \in {"s_root", "s_root_check", "s_boot", "s_boot_check", "s_accept", "s_done"} =>
       journal.state = "RollingBack"
  /\ pc \in {"s_boot", "s_boot_check", "s_accept", "s_done"} => root = rootCopy
  /\ pc \in {"s_accept", "s_done"} => bootimg = root
  /\ pc = "s_done" => accepted.current = root

(* An acknowledged release can still be rolled back. *)
RestorableLonger == journal.state = "Acknowledged" => Saved

IInv ==
  /\ TypeOK /\ Places /\ Underway /\ Records /\ Requested /\ Progress
  /\ RestorableLonger
  /\ MatchedPair /\ Restorable /\ SystemOnPair /\ ReturnsToRecovery
  /\ AcceptedIsRunning /\ RecoveryReady

(* The journal after the steps that write more of it than its state. *)
LEMMA QueueJournal ==
  ASSUME TypeOK, Queue, Later(root, accepted.current) = root, root \in Release
  PROVE  /\ journal' \in Journal
         /\ journal'.state = "Queued" /\ journal'.sequence = pending
         /\ journal'.previous = root /\ journal'.kept = current'
         /\ pending \in Release
<1>1. pending \in Release /\ current' \in File
  BY DEF TypeOK, Queue, verify, File
<1>2. journal' = [initial EXCEPT !.state = "Queued", !.sequence = pending,
                                  !.previous = root, !.kept = current']
  BY DEF Queue
<1>3. journal' = [state |-> "Queued", sequence |-> pending, previous |-> root,
                  saved |-> FALSE, kept |-> current', boots |-> 0, requests |-> 0]
  BY <1>2 DEF initial
<1>4. journal' \in Journal
  BY <1>1, <1>3 DEF Journal, JournalState, Resumable, HealthBoots
<1> QED
  BY <1>1, <1>3, <1>4

LEMMA SequenceIsNat == \A x \in Release \cup {0} : x \in Nat
BY ReleaseAssumption

LEMMA QueueType ==
  ASSUME TypeOK, Queue, Later(root, accepted.current) = root, root \in Release
  PROVE  TypeOK' /\ accepted'.sequence \in Nat /\ journal'.sequence \in Nat
<1>1. /\ UNCHANGED <<root, bootimg, recovery, misc, accepted, rootCopy, bootCopy>>
      /\ UNCHANGED pending
      /\ UNCHANGED <<where, pc, caller, apply, health, losses>>
      /\ staging' = "idle" /\ asked' = FALSE /\ current' \in File
  BY DEF Queue, StagingAt, disk, copies, TypeOK, File
<1>2. TypeOK'
  <2>1. journal' \in Journal
    BY QueueJournal
  <2>2. /\ root' \in Image /\ bootimg' \in Image
        /\ recovery' \in Release \cup {Torn, Headless}
        /\ accepted' \in [sequence : Release \cup {0}, current : Release \cup {0}]
        /\ rootCopy' \in Image \cup {Nothing} /\ bootCopy' \in Image \cup {Nothing}
    BY <1>1 DEF TypeOK
  <2>3. asked' \in BOOLEAN
    BY <1>1 DEF TypeOK
  <2> QED
    BY <1>1, <2>1, <2>2, <2>3 DEF TypeOK
<1>3. accepted'.sequence \in Nat
  <2>1. accepted'.sequence \in Release \cup {0}
    BY <1>1 DEF TypeOK
  <2> QED
    BY <2>1, SequenceIsNat
<1>4. journal'.sequence \in Nat
  BY QueueJournal, SequenceIsNat
<1> QED
  BY <1>2, <1>3, <1>4

LEMMA BackupJournal ==
  ASSUME journal \in Journal, BackupBegins
  PROVE  /\ journal' \in Journal /\ journal'.state = "BackingUp"
         /\ journal'.sequence = journal.sequence
         /\ journal'.previous = journal.previous /\ journal'.kept = journal.kept
<1>1. journal' = [[journal EXCEPT !.state = "BackingUp"] EXCEPT !.saved = FALSE]
  BY DEF BackupBegins, Journal
<1>2. [journal EXCEPT !.state = "BackingUp"] \in Journal
  BY DEF Journal, JournalState, Resumable
<1> QED
  BY <1>1, <1>2 DEF Journal

LEMMA SavedJournal ==
  ASSUME journal \in Journal, BackupSaved
  PROVE  /\ journal' \in Journal /\ journal'.saved
         /\ journal'.state = journal.state /\ journal'.sequence = journal.sequence
         /\ journal'.previous = journal.previous /\ journal'.kept = journal.kept
BY DEF BackupSaved, Journal

LEMMA InstalledJournal ==
  ASSUME journal \in Journal, Installed
  PROVE  /\ journal' \in Journal /\ journal'.state = "PendingHealth"
         /\ journal'.saved = journal.saved /\ journal'.sequence = journal.sequence
         /\ journal'.previous = journal.previous
<1>1. journal' = [[journal EXCEPT !.state = "PendingHealth"] EXCEPT !.boots = 0]
  BY DEF Installed, Journal
<1>2. [journal EXCEPT !.state = "PendingHealth"] \in Journal
  BY DEF Journal, JournalState
<1>3. \A j \in Journal : [j EXCEPT !.boots = 0] \in Journal
  BY DEF Journal, HealthBoots
<1>4. journal' \in Journal
  BY <1>1, <1>2, <1>3
<1> QED
  BY <1>1, <1>4 DEF Journal

(* Power, the boot loader and what they leave. *)
(* Power, the boot loader and what they leave. *)
(* Power, the boot loader and what they leave. *)
(* Power, the boot loader and what they leave. *)
LEMMA PowerPreserves == IInv /\ Power => IInv'
<1> SUFFICES ASSUME IInv, Power PROVE IInv'
  OBVIOUS
<1> USE ReleaseAssumption DEF IInv, TypeOK, Places, Underway, Records,
          Requested, Progress, RestorableLonger, MatchedPair, Restorable,
          SystemOnPair, ReturnsToRecovery, AcceptedIsRunning, RecoveryReady,
          Whole, Saved, vars, stored, running, history, disk, copies, packages,
          Terminal, Resumable, JournalState, File, Image, Journal, Stop, state,
          Step, Free, OwnerAt, HealthAt, StagingAt, RecoveryStep, PrepareStep,
          CoreStep, HealthBoots, Later, initial
<1>1. CASE PowerLoss
  BY <1>1 DEF PowerLoss
<1>2. CASE SwitchOff
  BY <1>2 DEF SwitchOff
<1>3. CASE LoadRecovery
  BY <1>3 DEF LoadRecovery, Boot
<1>4. CASE LoadBootimg
  BY <1>4 DEF LoadBootimg, Boot
<1> QED
  BY <1>1, <1>2, <1>3, <1>4 DEF Power

(* Staging, queueing, cancelling and the platform's gates. *)
LEMMA OwnerPreserves == IInv /\ Owner => IInv'
<1> SUFFICES ASSUME IInv, Owner PROVE IInv'
  OBVIOUS
<1> USE ReleaseAssumption DEF IInv, TypeOK, Places, Underway, Records,
          Requested, Progress, RestorableLonger, MatchedPair, Restorable,
          SystemOnPair, ReturnsToRecovery, AcceptedIsRunning, RecoveryReady,
          Whole, Saved, vars, stored, running, history, disk, copies, packages,
          Terminal, Resumable, JournalState, File, Image, Journal, Stop, state,
          Step, Free, OwnerAt, HealthAt, StagingAt, RecoveryStep, PrepareStep,
          CoreStep, HealthBoots, Later, initial
<1>1. CASE StageBegin
  BY <1>1 DEF StageBegin
<1>2. CASE StageFails
  BY <1>2 DEF StageFails
<1>3. CASE \E r \in Release : StageCommit(r)
  BY <1>3 DEF StageCommit
<1>4. CASE Queue
  <2>1. /\ where = "system" /\ pc = "idle" /\ staging = "queueing"
        /\ journal.state \in Terminal
        /\ UNCHANGED <<disk, accepted, copies, pending>>
        /\ UNCHANGED <<where, pc, caller, apply, health, losses>>
        /\ staging' = "idle" /\ asked' = FALSE
        /\ current' \in {Nothing, root} /\ current' \in File
    BY <1>4 DEF Queue
  <2>2. Whole /\ accepted.current \in {0, root} /\ Later(root, accepted.current) = root
    BY <2>1
  <2>3. pending > accepted.sequence \/ pending \in MayDowngrade
    BY <1>4 DEF Queue, verify
  <2>4. /\ journal' \in Journal /\ pending \in Release
        /\ journal'.state = "Queued" /\ journal'.sequence = pending
        /\ journal'.previous = root /\ journal'.kept = current'
    BY <1>4, <2>2, QueueJournal
  <2>5. TypeOK' /\ Places' /\ Underway' /\ Requested' /\ Progress'
    <3>1. TypeOK'
      BY <1>4, <2>2, QueueType
    <3> QED
      BY <2>1, <2>2, <2>4, <3>1
  <2>6. Records'
    <3>1. accepted'.sequence \in Nat /\ journal'.sequence \in Nat
      BY <1>4, <2>2, QueueType
    <3>2. journal'.sequence > accepted'.sequence \/ journal'.sequence \in MayDowngrade
      BY <2>1, <2>3, <2>4, <3>1
    <3> HIDE DEF Journal
    <3> QED BY <2>1, <2>2, <2>4, <3>2
  <2>7. /\ RestorableLonger' /\ MatchedPair' /\ Restorable' /\ SystemOnPair'
        /\ ReturnsToRecovery' /\ AcceptedIsRunning' /\ RecoveryReady'
    BY <2>1, <2>2, <2>4
  <2> QED
    BY <2>5, <2>6, <2>7
<1>5. CASE QueueFails
  BY <1>5 DEF QueueFails, verify
<1>6. CASE Cancel
  BY <1>6 DEF Cancel
<1>7. CASE ApplyGate
  BY <1>7 DEF ApplyGate
<1>8. CASE RollbackGate
  BY <1>8 DEF RollbackGate, rollback_permitted
<1>9. CASE ProbeGate
  BY <1>9 DEF ProbeGate
<1> QED
  BY <1>1, <1>2, <1>3, <1>4, <1>5, <1>6, <1>7, <1>8, <1>9 DEF Owner

(* The platform's calls of the core, and ack. *)
LEMMA PlatformPreserves == IInv /\ Platform => IInv'
<1> SUFFICES ASSUME IInv, Platform PROVE IInv'
  OBVIOUS
<1> USE ReleaseAssumption DEF IInv, TypeOK, Places, Underway, Records,
          Requested, Progress, RestorableLonger, MatchedPair, Restorable,
          SystemOnPair, ReturnsToRecovery, AcceptedIsRunning, RecoveryReady,
          Whole, Saved, vars, stored, running, history, disk, copies, packages,
          Terminal, Resumable, JournalState, File, Image, Journal, Stop, state,
          Step, Free, OwnerAt, HealthAt, StagingAt, RecoveryStep, PrepareStep,
          CoreStep, HealthBoots, Later, initial
<1>1. CASE CoreRollback
  BY <1>1 DEF CoreRollback, rollback_permitted
<1>2. CASE ApplyBusy
  BY <1>2 DEF ApplyBusy
<1>3. CASE Restart
  BY <1>3 DEF Restart
<1>4. CASE RestartRefused
  BY <1>4 DEF RestartRefused
<1>5. CASE ApplyPrepare
  BY <1>5 DEF ApplyPrepare, PrepareFrom, queued, verify, newer,
      recovery_installed, Finish
<1>6. CASE ProbePrepare
  BY <1>6 DEF ProbePrepare, PrepareFrom, queued, verify, newer,
      recovery_installed, Finish
<1>7. CASE HealthPrepare
  BY <1>7 DEF HealthPrepare, PrepareFrom, queued, verify, newer,
      recovery_installed, Finish
<1>8. CASE AckAccept
  BY <1>8 DEF AckAccept
<1>9. CASE AckState
  BY <1>9 DEF AckState
<1>10. CASE AckKeep
  BY <1>10 DEF AckKeep
<1>11. CASE HealthDeadline
  BY <1>11 DEF HealthDeadline, rollback_permitted
<1> QED
  BY <1>1, <1>2, <1>3, <1>4, <1>5, <1>6, <1>7, <1>8, <1>9, <1>10, <1>11 DEF Platform

(* The writes of prepare. *)
LEMMA PreparePreserves == IInv /\ Prepare => IInv'
<1> SUFFICES ASSUME IInv, Prepare PROVE IInv'
  OBVIOUS
<1> USE ReleaseAssumption DEF IInv, TypeOK, Places, Underway, Records,
          Requested, Progress, RestorableLonger, MatchedPair, Restorable,
          SystemOnPair, ReturnsToRecovery, AcceptedIsRunning, RecoveryReady,
          Whole, Saved, vars, stored, running, history, disk, copies, packages,
          Terminal, Resumable, JournalState, File, Image, Journal, Stop, state,
          Step, Free, OwnerAt, HealthAt, StagingAt, RecoveryStep, PrepareStep,
          CoreStep, HealthBoots, Later, initial
<1>1. CASE RecoveryWriteBegins
  BY <1>1 DEF RecoveryWriteBegins
<1>2. CASE RecoveryWritten
  BY <1>2 DEF RecoveryWritten
<1>3. CASE RecoveryWriteFails
  BY <1>3 DEF RecoveryWriteFails, Finish
<1>4. CASE Request
  BY <1>4 DEF Request, operation, Finish
<1>5. CASE CountRequest
  BY <1>5 DEF CountRequest, Finish
<1> QED
  BY <1>1, <1>2, <1>3, <1>4, <1>5 DEF Prepare

(* The rescue's decisions. *)
LEMMA BootCheckPreserves == IInv /\ BootCheck => IInv'
<1> SUFFICES ASSUME IInv, BootCheck PROVE IInv'
  OBVIOUS
<1> USE ReleaseAssumption DEF IInv, TypeOK, Places, Underway, Records,
          Requested, Progress, RestorableLonger, MatchedPair, Restorable,
          SystemOnPair, ReturnsToRecovery, AcceptedIsRunning, RecoveryReady,
          Whole, Saved, vars, stored, running, history, disk, copies, packages,
          Terminal, Resumable, JournalState, File, Image, Journal, Stop, state,
          Step, Free, OwnerAt, HealthAt, StagingAt, RecoveryStep, PrepareStep,
          CoreStep, HealthBoots, Later, initial
<1>1. CASE BootNormally
  BY <1>1 DEF BootNormally, Checking, Mount
<1>2. CASE BootUnstarted
  BY <1>2 DEF BootUnstarted
<1>3. CASE BootFailed
  BY <1>3 DEF BootFailed, Mount
<1>4. CASE BootCounted
  BY <1>4 DEF BootCounted, Checking, Mount
<1>5. CASE BootUnconfirmed
  BY <1>5 DEF BootUnconfirmed
<1>6. CASE BootGivesUp
  BY <1>6 DEF BootGivesUp, Unfinished, Checking, GiveUp
<1>7. CASE BootRequests
  BY <1>7 DEF BootRequests, Unfinished, Checking, GiveUp, PrepareFrom, queued,
      verify, newer, recovery_installed, Finish
<1>8. CASE BootHeld
  BY <1>8 DEF BootHeld, Checking
<1> QED
  BY <1>1, <1>2, <1>3, <1>4, <1>5, <1>6, <1>7, <1>8 DEF BootCheck

(* The installer. *)
LEMMA InstallPreserves == IInv /\ Install => IInv'
<1> SUFFICES ASSUME IInv, Install PROVE IInv'
  OBVIOUS
<1> USE ReleaseAssumption DEF IInv, TypeOK, Places, Underway, Records,
          Requested, Progress, RestorableLonger, MatchedPair, Restorable,
          SystemOnPair, ReturnsToRecovery, AcceptedIsRunning, RecoveryReady,
          Whole, Saved, vars, stored, running, history, disk, copies, packages,
          Terminal, Resumable, JournalState, File, Image, Journal, Stop, state,
          Step, Free, OwnerAt, HealthAt, StagingAt, RecoveryStep, PrepareStep,
          CoreStep, HealthBoots, Later, initial
<1>1. CASE RecoverInstall
  BY <1>1 DEF RecoverInstall, Identified, verify
<1>2. CASE RecoverMismatch
  BY <1>2 DEF RecoverMismatch, Identified, verify
<1>3. CASE BackupBegins
  <2>1. /\ journal' \in Journal
        /\ journal'.state = "BackingUp" /\ journal'.sequence = journal.sequence
        /\ journal'.previous = journal.previous /\ journal'.kept = journal.kept
    BY <1>3, BackupJournal
  <2> QED
    BY <1>3, <2>1 DEF BackupBegins
<1>4. CASE CopyRoot
  BY <1>4 DEF CopyRoot
<1>5. CASE CopyBoot
  BY <1>5 DEF CopyBoot
<1>6. CASE BackupFails
  BY <1>6 DEF BackupFails
<1>7. CASE BackupSaved
  <2>1. journal' \in Journal /\ journal'.saved /\ journal'.state = journal.state
        /\ journal'.sequence = journal.sequence
        /\ journal'.previous = journal.previous /\ journal'.kept = journal.kept
    BY <1>7, SavedJournal
  <2> QED
    BY <1>7, <2>1 DEF BackupSaved
<1>8. CASE InstallBegins
  BY <1>8 DEF InstallBegins
<1>9. CASE RootWriteBegins
  BY <1>9 DEF RootWriteBegins
<1>10. CASE RootWritten
  BY <1>10 DEF RootWritten
<1>11. CASE BootWriteBegins
  BY <1>11 DEF BootWriteBegins
<1>12. CASE BootWritten
  BY <1>12 DEF BootWritten
<1>13. CASE InstallFails
  BY <1>13 DEF InstallFails
<1>14. CASE Installed
  <2>1. /\ journal' \in Journal /\ journal'.saved = journal.saved
        /\ journal'.state = "PendingHealth"
        /\ journal'.sequence = journal.sequence /\ journal'.previous = journal.previous
    BY <1>14, InstalledJournal
  <2> QED
    BY <1>14, <2>1 DEF Installed
<1> QED
  BY <1>1, <1>2, <1>3, <1>4, <1>5, <1>6, <1>7, <1>8, <1>9, <1>10,
     <1>11, <1>12, <1>13, <1>14 DEF Install

(* The restore from the copies. *)
LEMMA RestorePreserves == IInv /\ Restore => IInv'
<1> SUFFICES ASSUME IInv, Restore PROVE IInv'
  OBVIOUS
<1> USE ReleaseAssumption DEF IInv, TypeOK, Places, Underway, Records,
          Requested, Progress, RestorableLonger, MatchedPair, Restorable,
          SystemOnPair, ReturnsToRecovery, AcceptedIsRunning, RecoveryReady,
          Whole, Saved, vars, stored, running, history, disk, copies, packages,
          Terminal, Resumable, JournalState, File, Image, Journal, Stop, state,
          Step, Free, OwnerAt, HealthAt, StagingAt, RecoveryStep, PrepareStep,
          CoreStep, HealthBoots, Later, initial
<1>1. CASE RecoverRestore
  BY <1>1 DEF RecoverRestore
<1>2. CASE RestoreBegins
  BY <1>2 DEF RestoreBegins
<1>3. CASE RestoreRootBegins
  BY <1>3 DEF RestoreRootBegins
<1>4. CASE RootRestored
  BY <1>4 DEF RootRestored
<1>5. CASE RestoreBootBegins
  BY <1>5 DEF RestoreBootBegins
<1>6. CASE BootRestored
  BY <1>6 DEF BootRestored
<1>7. CASE RestoreFails
  BY <1>7 DEF RestoreFails
<1>8. CASE RestoreAccepts
  BY <1>8 DEF RestoreAccepts
<1>9. CASE Restored
  BY <1>9 DEF Restored
<1> QED
  BY <1>1, <1>2, <1>3, <1>4, <1>5, <1>6, <1>7, <1>8, <1>9 DEF Restore

(* The ends of recover. *)
LEMMA RecoverPreserves == IInv /\ Recover => IInv'
<1> SUFFICES ASSUME IInv, Recover PROVE IInv'
  OBVIOUS
<1> USE ReleaseAssumption DEF IInv, TypeOK, Places, Underway, Records,
          Requested, Progress, RestorableLonger, MatchedPair, Restorable,
          SystemOnPair, ReturnsToRecovery, AcceptedIsRunning, RecoveryReady,
          Whole, Saved, vars, stored, running, history, disk, copies, packages,
          Terminal, Resumable, JournalState, File, Image, Journal, Stop, state,
          Step, Free, OwnerAt, HealthAt, StagingAt, RecoveryStep, PrepareStep,
          CoreStep, HealthBoots, Later, initial
<1>1. CASE RecoverNothing
  BY <1>1 DEF RecoverNothing
<1>2. CASE RecoverRefuses
  BY <1>2 DEF RecoverRefuses, Recovering
<1>3. CASE RecoverNeedsPower
  BY <1>3 DEF RecoverNeedsPower, Recovering
<1>4. CASE ClearRequest
  BY <1>4 DEF ClearRequest
<1> QED
  BY <1>1, <1>2, <1>3, <1>4 DEF Recover

LEMMA InitEstablishes == Init => IInv
<1> SUFFICES ASSUME Init PROVE IInv
  OBVIOUS
<1> USE ReleaseAssumption DEF Init
<1>1. TypeOK
  <2>1. journal \in Journal
    BY DEF initial, Journal, JournalState, Terminal, File, HealthBoots
  <2>2. asked \in BOOLEAN
    OBVIOUS
  <2> QED
    BY <2>1, <2>2 DEF TypeOK, Image, File, CoreStep
<1>2. Places /\ Underway
  BY DEF Places, Underway, PrepareStep, initial
<1>3. Records /\ Requested
  BY DEF Records, Requested, Whole, RecoveryStep, initial
<1>4. Progress
  BY DEF Progress
<1>5. /\ RestorableLonger /\ MatchedPair /\ Restorable /\ SystemOnPair
      /\ ReturnsToRecovery /\ AcceptedIsRunning /\ RecoveryReady
  BY DEF initial, RestorableLonger, MatchedPair, Restorable, SystemOnPair,
         ReturnsToRecovery, AcceptedIsRunning, RecoveryReady
<1> QED
  BY <1>1, <1>2, <1>3, <1>4, <1>5 DEF IInv

LEMMA StutterPreserves == IInv /\ UNCHANGED vars => IInv'
<1> SUFFICES ASSUME IInv, UNCHANGED vars PROVE IInv'
  OBVIOUS
<1>1. TypeOK'
  BY DEF IInv, TypeOK, vars, stored, running, history, disk, copies, packages
<1>2. Places' /\ Underway' /\ Records' /\ Requested' /\ Progress'
  BY DEF IInv, Places, Underway, Records, Requested, Progress, Whole, Saved,
         vars, stored, running, history, disk, copies, packages
<1>3. /\ RestorableLonger' /\ MatchedPair' /\ Restorable' /\ SystemOnPair'
      /\ ReturnsToRecovery' /\ AcceptedIsRunning' /\ RecoveryReady'
  BY DEF IInv, RestorableLonger, Saved, MatchedPair, Restorable, SystemOnPair,
         ReturnsToRecovery, AcceptedIsRunning, RecoveryReady,
         vars, stored, running, history, disk, copies, packages
<1> QED
  BY <1>1, <1>2, <1>3 DEF IInv

(* Every reachable state of the updater satisfies the inductive invariant. *)
THEOREM Inductive == Spec => []IInv
<1>1. IInv /\ [Next]_vars => IInv'
  BY PowerPreserves, OwnerPreserves, PlatformPreserves, PreparePreserves,
     BootCheckPreserves, InstallPreserves, RestorePreserves, RecoverPreserves,
     StutterPreserves DEF Next
<1> QED
  BY InitEstablishes, <1>1, PTL DEF Spec

(* Every variable of the updater keeps its type; in particular the rescue  *)
(* never counts an unconfirmed system's boots past HEALTH_BOOTS.           *)
THEOREM TypeCorrect == Spec => []TypeOK
<1>1. IInv => TypeOK
  BY DEF IInv
<1> QED
  BY Inductive, <1>1, PTL

(* Root and BOOTIMG are one release except while the journal says that the *)
(* recovery is writing them, and the normal system only ever runs on such  *)
(* a pair (order of state() and region_write in recover and restore).      *)
THEOREM PairIsMatched == Spec => []OneRelease
<1>1. IInv => OneRelease
  BY DEF IInv, OneRelease
<1> QED
  BY Inductive, <1>1, PTL

(* From the first write of an install until it is confirmed or undone, the *)
(* copies of the release before it are there, whole and of one release     *)
(* (backup, kept_backup and the order in which they are saved).            *)
THEOREM AlwaysRestorable == Spec => []Restorable
<1>1. IInv => Restorable
  BY DEF IInv
<1> QED
  BY Inductive, <1>1, PTL

(* An interruption always finds a way on: MISC asks for the recovery while *)
(* root or BOOTIMG may be torn, BOOTIMG is whole when it does not, and     *)
(* RECOVERY is whole from the backup of an install until the next package  *)
(* is queued or an attempt failed.                                         *)
THEOREM InterruptionRecovers == Spec => []ComesBack
<1>1. IInv => ReturnsToRecovery /\ RecoveryReady
  BY DEF IInv
<1>2. IInv => BootimgWhole
  BY DEF IInv, Requested, Whole, BootimgWhole
<1> QED
  BY Inductive, <1>1, <1>2, PTL DEF ComesBack

(* accepted.json names the running release after a verdict, and only what  *)
(* is newer than every accepted release is installed without a development *)
(* key (verify, ack, restore).                                             *)
THEOREM NothingReplayed == Spec => []RecordsHold
<1>1. IInv => RecordsHold
  BY DEF IInv, Records, RecordsHold, NoReplay
<1> QED
  BY Inductive, <1>1, PTL

(* The high-water mark of accepted releases never goes back: not when a    *)
(* development key downgrades and not when a release is restored (ack).    *)
THEOREM MarkNeverFalls == Spec => HighWater
<1>1. TypeOK /\ [Next]_vars => [accepted'.sequence >= accepted.sequence]_accepted
  <2> SUFFICES ASSUME TypeOK, [Next]_vars, accepted' # accepted
               PROVE  accepted'.sequence >= accepted.sequence
    OBVIOUS
  <2>1. /\ accepted.sequence \in Nat /\ journal.sequence \in Nat
    <3>1. accepted.sequence \in Release \cup {0} /\ journal.sequence \in Release \cup {0}
      BY DEF TypeOK, Journal
    <3> QED
      BY <3>1, SequenceIsNat
  <2>2. CASE AckAccept
    BY <2>1, <2>2 DEF AckAccept, Later
  <2>3. CASE RestoreAccepts
    BY <2>1, <2>3 DEF RestoreAccepts, TypeOK
  <2>4. CASE Power
    BY <2>4 DEF Power, PowerLoss, SwitchOff, LoadRecovery, LoadBootimg, stored
  <2>5. CASE Owner
    BY <2>5 DEF Owner, StageBegin, StageFails, StageCommit, Queue, QueueFails,
        Cancel, ApplyGate, RollbackGate, ProbeGate, stored
  <2>6. CASE Platform
    BY <2>6, <2>2 DEF Platform, CoreRollback, ApplyBusy, Restart,
        RestartRefused, ApplyPrepare, ProbePrepare, HealthPrepare, AckState,
        AckKeep, HealthDeadline, PrepareFrom, stored
  <2>7. CASE Prepare
    BY <2>7 DEF Prepare, RecoveryWriteBegins, RecoveryWritten,
        RecoveryWriteFails, Request, CountRequest, stored
  <2>8. CASE BootCheck
    BY <2>8 DEF BootCheck, BootNormally, BootUnstarted, BootFailed,
        BootCounted, BootUnconfirmed, BootGivesUp, BootRequests, BootHeld,
        PrepareFrom, stored
  <2>9. CASE Install
    BY <2>9 DEF Install, RecoverInstall, RecoverMismatch, BackupBegins,
        CopyRoot, CopyBoot, BackupFails, BackupSaved, InstallBegins,
        RootWriteBegins, RootWritten, BootWriteBegins, BootWritten,
        InstallFails, Installed, stored
  <2>10. CASE Restore
    BY <2>10, <2>3 DEF Restore, RecoverRestore, RestoreBegins,
        RestoreRootBegins, RootRestored, RestoreBootBegins, BootRestored,
        RestoreFails, Restored, stored
  <2>11. CASE Recover
    BY <2>11 DEF Recover, RecoverNothing, RecoverRefuses, RecoverNeedsPower,
        ClearRequest, stored
  <2> QED
    BY <2>4, <2>5, <2>6, <2>7, <2>8, <2>9, <2>10, <2>11 DEF Next, vars, stored
<1> QED
  BY TypeCorrect, <1>1, PTL DEF Spec, HighWater
===============================================================================
