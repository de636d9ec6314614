------------------------------ MODULE UpdateCore ------------------------------
(***************************************************************************)
(* The over-the-air updater: y2-update-core (tools/update/core.c), the     *)
(* boot loader that picks the image to start, the rescue of BOOTIMG        *)
(* (initramfs/production/init), the recovery image (recovery.sh) and the   *)
(* platform's apply, rollback, probe, cancel and health worker.            *)
(*                                                                         *)
(* Every durable write is a step of its own and the power may fail between *)
(* any two of them.  Images are named by the release they belong to.       *)
(*                                                                         *)
(* A definition commented "Slip:" is not part of the model.  It is a       *)
(* plausible mistake in the definition below it, kept to show that the     *)
(* property it names would notice (README.md, Mutants).                    *)
(***************************************************************************)
EXTENDS Naturals

CONSTANTS
  Release,         \* the releases, by the sequence number of their manifest
  First,           \* the release the player left the computer with
  CarriesRecovery, \* releases whose package has a RECOVERY payload
  MayRollBack,     \* releases signed with rollback_allowed
  MayDowngrade,    \* releases signed with allow_downgrade by a development key
  Minimum,         \* minimum_sequence of each release
  Torn,            \* an image whose write was interrupted
  Headless,        \* a RECOVERY without the name of a Y2 recovery image
  Nothing,         \* no file
  Faults,          \* which things may fail besides the power
  MaxLosses,       \* bound: power losses
  MaxRequests      \* bound: requests for recovery the owner makes

HealthBoots == 2   \* HEALTH_BOOTS
GiveUp == 3        \* requests after which the boot check stays in the rescue

ASSUME ReleaseAssumption ==
  /\ Release \subseteq Nat \ {0}
  /\ First \in Release
  /\ CarriesRecovery \subseteq Release
  /\ MayRollBack \subseteq Release
  /\ MayDowngrade \subseteq Release
  /\ Minimum \in [Release -> Nat]
  /\ Torn \notin Nat /\ Headless \notin Nat /\ Nothing \notin Nat
  /\ Torn # Headless /\ Torn # Nothing /\ Headless # Nothing
  /\ Faults \subseteq {"package", "backup", "media", "copy", "lk"}
  /\ MaxLosses \in Nat /\ MaxRequests \in Nat

VARIABLES
  root, bootimg, recovery, misc,    \* the partitions the updater writes
  journal, accepted,                \* state.json and accepted.json
  rootCopy, bootCopy,               \* previous.ext4.gz, previous-bootimg.gz
  pending, current,                 \* the staged and the kept package
  where,                            \* what runs on the player
  pc, caller,                       \* the core command that holds .lock
  apply, health, staging,           \* owner's command, health worker, download
  losses, asked                     \* bound, and history for a property

disk == <<root, bootimg, recovery, misc>>
copies == <<rootCopy, bootCopy>>
packages == <<pending, current>>
stored == <<disk, journal, accepted, copies, packages>>
running == <<where, pc, caller, apply, health, staging>>
history == <<losses, asked>>
vars == <<stored, running, history>>

-----------------------------------------------------------------------------
(* The journal. *)

Terminal == {"Idle", "Acknowledged", "RolledBack", "Failed"}
Resumable == {"Queued", "RollbackPending", "BackingUp", "Installing", "RollingBack"}
JournalState == Terminal \cup Resumable \cup {"PendingHealth", "RescueRequired"}

File == Release \cup {Nothing}
Image == Release \cup {Torn}

Journal == [state : JournalState, sequence : Release \cup {0},
            previous : Release \cup {0}, saved : BOOLEAN, kept : File,
            boots : 0..HealthBoots, requests : Nat]

initial == [state |-> "Idle", sequence |-> 0, previous |-> 0, saved |-> FALSE,
            kept |-> Nothing, boots |-> 0, requests |-> 0]

Later(a, b) == IF a >= b THEN a ELSE b

(* Slip: the high-water mark is not asked (RecordsHold). *)
verifyRunningOnly(r, installed) ==
  /\ r \in Release
  /\ Minimum[r] <= Later(installed, accepted.current)
  /\ r <= installed => r \in MayDowngrade

(* verify: may this package replace a system that names itself installed? *)
verify(r, installed) ==
  /\ r \in Release
  /\ Minimum[r] <= Later(installed, accepted.current)
  /\ (r <= installed \/ r <= accepted.sequence) => r \in MayDowngrade

(* recovery_installed without a hash: only the image's own header is read. *)
recovery_installed == recovery # Headless

rollback_permitted ==
  /\ journal.saved
  /\ \/ journal.state = "PendingHealth"
     \/ (journal.state = "Acknowledged" /\ journal.sequence \in MayRollBack)

-----------------------------------------------------------------------------
Init ==
  /\ root = First /\ bootimg = First
  /\ recovery \in {First, Headless} /\ misc = "none"
  /\ journal = initial /\ accepted = [sequence |-> 0, current |-> 0]
  /\ rootCopy = Nothing /\ bootCopy = Nothing
  /\ pending = Nothing /\ current = Nothing
  /\ where = "system" /\ pc = "idle" /\ caller = "none"
  /\ apply = "idle" /\ health = "idle" /\ staging = "idle"
  /\ losses = 0 /\ asked = FALSE

Stop(place) == /\ where' = place /\ pc' = "idle" /\ caller' = "none"
               /\ apply' = "idle" /\ health' = "idle" /\ staging' = "idle"

state(s) == journal' = [journal EXCEPT !.state = s]
Step(from, to) == /\ pc = from /\ pc' = to
                  /\ UNCHANGED <<where, caller, apply, health, staging>>
Free == where = "system" /\ pc = "idle"

(* Steps of the platform's processes, outside of a core command. *)
OwnerAt(a) == apply' = a /\ UNCHANGED <<where, pc, caller, health, staging>>
HealthAt(h) == health' = h /\ UNCHANGED <<where, pc, caller, apply, staging>>
StagingAt(g) == staging' = g /\ UNCHANGED <<where, pc, caller, apply, health>>

-----------------------------------------------------------------------------
(* Power and the boot loader. *)

PowerLoss ==
  /\ where # "off" /\ losses < MaxLosses
  /\ losses' = losses + 1
  /\ Stop("off")
  /\ UNCHANGED <<stored, asked>>

(* The owner turns the player off, or restarts it, with nothing under way. *)
SwitchOff ==
  /\ where \in {"system", "held", "dead"} /\ pc = "idle" /\ apply = "idle"
  /\ Stop("off")
  /\ UNCHANGED <<stored, history>>

(* LK starts RECOVERY when MISC says boot-recovery, else BOOTIMG. *)
Boot(place, image) ==
  /\ where' = IF image \in Release THEN place ELSE "dead"
  /\ pc' = IF image \in Release THEN "start" ELSE "idle"
  /\ UNCHANGED <<caller, apply, health, staging>>

LoadRecovery ==
  /\ where = "off" /\ misc # "none"
  /\ Boot("recovery", recovery)
  /\ UNCHANGED <<stored, history>>

LoadBootimg ==
  /\ where = "off"
  /\ misc = "none" \/ "lk" \in Faults
  /\ Boot("rescue", bootimg)
  /\ UNCHANGED <<stored, history>>

-----------------------------------------------------------------------------
(* Staging, queueing and cancelling in the normal system. *)

(* stage: only with a terminal journal; the package before it goes first,  *)
(* and the kept one when the download does not fit (begin, make_room).     *)
StageBegin ==
  /\ where = "system" /\ staging = "idle" /\ journal.state \in Terminal
  /\ StagingAt("loading")
  /\ pending' = Nothing /\ current' \in {current, Nothing}
  /\ UNCHANGED <<disk, journal, accepted, copies, history>>

StageFails ==
  /\ staging = "loading"
  /\ StagingAt("idle")
  /\ UNCHANGED <<stored, history>>

(* The commit point.  A download takes minutes and apply's calls follow    *)
(* each other at once: none is committed between two of them.              *)
StageCommit(r) ==
  /\ staging = "loading" /\ apply = "idle"
  /\ StagingAt("queueing")
  /\ pending' = r
  /\ UNCHANGED <<disk, journal, accepted, copies, current, history>>

(* Slip: the kept package is not compared with the running release (Restorable). *)
QueueKeepsAny ==
  /\ Free /\ staging = "queueing"
  /\ journal.state \in Terminal /\ verify(pending, root)
  /\ StagingAt("idle")
  /\ journal' = [initial EXCEPT !.state = "Queued", !.sequence = pending,
                   !.previous = Later(root, accepted.current), !.kept = current]
  /\ asked' = FALSE
  /\ UNCHANGED <<disk, accepted, copies, packages, losses>>

Queue ==
  /\ Free /\ staging = "queueing"
  /\ journal.state \in Terminal /\ verify(pending, root)
  /\ StagingAt("idle")
  /\ current' = IF current = root THEN current ELSE Nothing
  /\ journal' = [initial EXCEPT !.state = "Queued", !.sequence = pending,
                   !.previous = Later(root, accepted.current), !.kept = current']
  /\ asked' = FALSE
  /\ UNCHANGED <<disk, accepted, copies, pending, losses>>

(* Refused by verify, or "update busy": the package stays in pending. *)
QueueFails ==
  /\ staging = "queueing"
  /\ pc # "idle" \/ journal.state \notin Terminal \/ ~verify(pending, root)
  /\ StagingAt("idle")
  /\ UNCHANGED <<stored, history>>

(* Slip: an installed release on trial can be cancelled (ImplementsSwitch). *)
CancelTrial ==
  /\ Free /\ journal.state \in {"Queued", "PendingHealth"}
  /\ state("Failed")
  /\ pending' \in {pending, Nothing}
  /\ UNCHANGED <<disk, accepted, copies, current, running, history>>

Cancel ==
  /\ Free /\ journal.state = "Queued"
  /\ state("Failed")
  /\ pending' \in {pending, Nothing}
  /\ UNCHANGED <<disk, accepted, copies, current, running, history>>

-----------------------------------------------------------------------------
(* The platform: apply, rollback, probe and the restart that follows. *)

(* A battery that is too low refuses the step: the gate is not a state. *)
ApplyGate ==
  /\ where = "system" /\ apply = "idle" /\ journal.state = "Queued"
  /\ journal.requests < MaxRequests
  /\ OwnerAt("preparing") /\ asked' = TRUE
  /\ UNCHANGED <<stored, losses>>

RollbackGate ==
  /\ where = "system" /\ apply = "idle" /\ rollback_permitted
  /\ OwnerAt("restoring")
  /\ UNCHANGED <<stored, history>>

ProbeGate ==
  /\ where = "system" /\ apply = "idle" /\ journal.state \in Terminal
  /\ OwnerAt("probing")
  /\ UNCHANGED <<stored, history>>

CoreRollback ==
  /\ Free /\ apply = "restoring"
  /\ IF rollback_permitted
       THEN state("RollbackPending") /\ OwnerAt("preparing")
       ELSE OwnerAt("idle") /\ UNCHANGED journal
  /\ UNCHANGED <<disk, accepted, copies, packages, history>>

(* Another core command holds .lock: "update busy". *)
ApplyBusy ==
  /\ where = "system" /\ pc # "idle"
  /\ apply \in {"restoring", "preparing", "probing"} /\ caller \notin {"apply", "probe"}
  /\ OwnerAt("idle")
  /\ UNCHANGED <<stored, history>>

Restart ==
  /\ where = "system" /\ apply = "restarting"
  /\ Stop("off")
  /\ UNCHANGED <<stored, history>>

(* The power daemon refuses: the request stays in MISC. *)
RestartRefused ==
  /\ where = "system" /\ apply = "restarting"
  /\ OwnerAt("idle")
  /\ UNCHANGED <<stored, history>>

-----------------------------------------------------------------------------
(* prepare: put the package's RECOVERY in place, then ask LK for it. *)

operation == IF caller = "probe" THEN "y2-probe" ELSE "y2-update"

(* What prepare's caller does with its answer. *)
Finish(who, ok) ==
  /\ pc' = "idle" /\ caller' = "none"
  /\ where' = IF who # "boot" THEN where ELSE IF ok THEN "off" ELSE "held"
  /\ apply' = IF who \notin {"apply", "probe"} THEN apply
              ELSE IF ok THEN "restarting" ELSE "idle"
  /\ health' = IF who = "health" THEN "idle" ELSE health
  /\ UNCHANGED staging

queued(who) == journal.state = "Queued" /\ who # "probe"

(* The queued package brings a RECOVERY that is not installed yet. *)
newer(who) == queued(who) /\ pending \in CarriesRecovery /\ recovery # pending

(* prepare up to its first write: refusals, and which write comes first. *)
PrepareFrom(who, from) ==
  LET refused == \/ journal.state \notin (IF who = "probe" THEN Terminal ELSE Resumable)
                 \/ queued(who) /\ pending # journal.sequence
                 \/ queued(who) /\ ~verify(pending, root)
  IN /\ pc = from
     /\ IF refused \/ (~newer(who) /\ ~recovery_installed)
          THEN Finish(who, FALSE)
          ELSE /\ pc' = IF newer(who) THEN "p_recovery" ELSE "p_request"
               /\ caller' = who
               /\ UNCHANGED <<where, apply, health, staging>>
     /\ UNCHANGED <<stored, history>>

ApplyPrepare == where = "system" /\ apply = "preparing" /\ PrepareFrom("apply", "idle")
ProbePrepare == where = "system" /\ apply = "probing" /\ PrepareFrom("probe", "idle")
HealthPrepare == where = "system" /\ health = "preparing" /\ PrepareFrom("health", "idle")

RecoveryWriteBegins ==
  /\ Step("p_recovery", "p_readback")
  /\ recovery' \in {Torn, Headless}
  /\ UNCHANGED <<root, bootimg, misc, journal, accepted, copies, packages, history>>

RecoveryWritten ==
  /\ Step("p_readback", "p_request")
  /\ recovery' = pending
  /\ UNCHANGED <<root, bootimg, misc, journal, accepted, copies, packages, history>>

RecoveryWriteFails ==
  /\ pc = "p_readback" /\ "media" \in Faults
  /\ Finish(caller, FALSE)
  /\ UNCHANGED <<stored, history>>

Request ==
  /\ pc = "p_request"
  /\ misc' = operation
  /\ IF caller = "probe"
       THEN Finish(caller, TRUE)
       ELSE pc' = "p_count" /\ UNCHANGED <<where, caller, apply, health, staging>>
  /\ UNCHANGED <<root, bootimg, recovery, journal, accepted, copies, packages, history>>

CountRequest ==
  /\ pc = "p_count"
  /\ journal' = [journal EXCEPT !.requests = @ + 1]
  /\ Finish(caller, TRUE)
  /\ UNCHANGED <<disk, accepted, copies, packages, history>>

-----------------------------------------------------------------------------
(* The health worker of the normal system, and ack. *)

AckAccept ==
  /\ Free /\ journal.state = "PendingHealth" /\ root = journal.sequence
  /\ accepted' = [sequence |-> Later(accepted.sequence, journal.sequence),
                  current |-> journal.sequence]
  /\ pc' = "a_state" /\ caller' = "ack"
  /\ UNCHANGED <<disk, journal, copies, packages, where, apply, health, staging, history>>

AckState ==
  /\ Step("a_state", "a_keep")
  /\ state("Acknowledged")
  /\ UNCHANGED <<disk, accepted, copies, packages, history>>

(* keep_installed, and the platform's removal of what is left of pending. *)
AckKeep ==
  /\ pc = "a_keep"
  /\ current' = IF pending = journal.sequence THEN pending ELSE Nothing
  /\ pending' = Nothing
  /\ pc' = "idle" /\ caller' = "none"
  /\ UNCHANGED <<disk, journal, accepted, copies, where, apply, health, staging, history>>

(* 180 s without health: core rollback, then prepare. *)
HealthDeadline ==
  /\ Free /\ health = "idle" /\ journal.state = "PendingHealth" /\ rollback_permitted
  /\ state("RollbackPending")
  /\ HealthAt("preparing")
  /\ UNCHANGED <<disk, accepted, copies, packages, history>>

-----------------------------------------------------------------------------
(* boot-needed and boot-check in the rescue of BOOTIMG, before root. *)

(* Exit 10: the rest of init mounts the root and starts it. *)
Mount == /\ where' = IF root \in Release THEN "system" ELSE "held"
         /\ pc' = "idle"
         /\ UNCHANGED <<caller, apply, health, staging>>
Checking == where = "rescue" /\ pc = "start"

(* Slip: a rollback that waits is taken for a normal start (RollbackHappens). *)
BootRollbackNormally ==
  /\ Checking
  /\ journal.state \in Terminal \cup {"Queued", "RollbackPending"}
  /\ Mount
  /\ UNCHANGED <<stored, history>>

BootNormally ==
  /\ Checking
  /\ \/ journal.state \in Terminal
     \/ (journal.state = "Queued" /\ misc # "y2-update")
  /\ Mount
  /\ UNCHANGED <<stored, history>>

BootUnstarted ==
  /\ where = "rescue" /\ journal.state = "Queued" /\ misc = "y2-update"
  /\ Step("start", "b_failed")
  /\ misc' = "none"
  /\ UNCHANGED <<root, bootimg, recovery, journal, accepted, copies, packages, history>>

BootFailed ==
  /\ pc = "b_failed"
  /\ state("Failed")
  /\ Mount
  /\ UNCHANGED <<disk, accepted, copies, packages, history>>

(* Slip: the boots of an unconfirmed system have no limit (TypeOK). *)
BootCountedUnlimited ==
  /\ Checking /\ journal.state = "PendingHealth"
  /\ journal' = [journal EXCEPT !.boots = @ + 1]
  /\ Mount
  /\ UNCHANGED <<disk, accepted, copies, packages, history>>

(* Slip: the boot is not counted before the system starts (HealthIsDecided). *)
BootUncounted ==
  /\ Checking /\ journal.state = "PendingHealth" /\ journal.boots < HealthBoots
  /\ Mount
  /\ UNCHANGED <<stored, history>>

BootCounted ==
  /\ Checking /\ journal.state = "PendingHealth" /\ journal.boots < HealthBoots
  /\ journal' = [journal EXCEPT !.boots = @ + 1]
  /\ Mount
  /\ UNCHANGED <<disk, accepted, copies, packages, history>>

BootUnconfirmed ==
  /\ where = "rescue" /\ journal.state = "PendingHealth" /\ journal.boots >= HealthBoots
  /\ Step("start", "b_unfinished")
  /\ state("RollbackPending")
  /\ UNCHANGED <<disk, accepted, copies, packages, history>>

Unfinished ==
  \/ pc = "b_unfinished"
  \/ (Checking /\ journal.state \in Resumable \ {"Queued"})

BootGivesUp ==
  /\ Unfinished /\ journal.requests >= GiveUp
  /\ state("RescueRequired")
  /\ Stop("held")
  /\ UNCHANGED <<disk, accepted, copies, packages, history>>

BootRequests == Unfinished /\ journal.requests < GiveUp /\ PrepareFrom("boot", pc)

BootHeld ==
  /\ Checking /\ journal.state = "RescueRequired"
  /\ Stop("held")
  /\ UNCHANGED <<stored, history>>

-----------------------------------------------------------------------------
(* recover: the installer of the recovery image. *)

Recovering == where = "recovery" /\ pc = "start"

(* A probe, or nothing unfinished: clear the request and start normally. *)
RecoverNothing ==
  /\ where = "recovery"
  /\ misc = "y2-probe" \/ journal.state \in Terminal \cup {"PendingHealth"}
  /\ Step("start", "clear")
  /\ UNCHANGED <<stored, history>>

RecoverRefuses ==
  /\ Recovering /\ misc # "y2-probe" /\ journal.state = "RescueRequired"
  /\ Stop("held")
  /\ UNCHANGED <<stored, history>>

(* An empty battery: the player turns off with the request still set. *)
RecoverNeedsPower ==
  /\ Recovering /\ misc # "y2-probe" /\ journal.state \in Resumable
  /\ Stop("off")
  /\ UNCHANGED <<stored, history>>

RecoverRestore ==
  /\ where = "recovery" /\ misc # "y2-probe"
  /\ journal.state \in {"Installing", "RollingBack", "RollbackPending"}
  /\ Step("start", "s_check")
  /\ UNCHANGED <<stored, history>>

Identified == pending = journal.sequence /\ verify(pending, journal.previous)

(* backup: the copies of the release before go first. *)
RecoverInstall ==
  /\ where = "recovery" /\ misc # "y2-probe"
  /\ journal.state \in {"Queued", "BackingUp"} /\ Identified
  /\ Step("start", "r_backup")
  /\ rootCopy' = Nothing /\ bootCopy' = Nothing
  /\ UNCHANGED <<disk, journal, accepted, packages, history>>

RecoverMismatch ==
  /\ where = "recovery" /\ misc # "y2-probe"
  /\ journal.state \in {"Queued", "BackingUp"} /\ (~Identified \/ "package" \in Faults)
  /\ Step("start", "clear")
  /\ state("Failed")
  /\ UNCHANGED <<disk, accepted, copies, packages, history>>

BackupBegins ==
  /\ Step("r_backup", "r_copy_root")
  /\ journal' = [journal EXCEPT !.state = "BackingUp", !.saved = FALSE]
  /\ UNCHANGED <<disk, accepted, copies, packages, history>>

(* kept_backup when the kept package is the one the queue named, else the live root. *)
CopyRoot ==
  /\ Step("r_copy_root", "r_copy_boot")
  /\ LET kept == journal.kept # Nothing /\ current = journal.kept
     IN rootCopy' \in {root} \cup (IF kept THEN {current} ELSE {})
  /\ current' = IF journal.kept # Nothing THEN Nothing ELSE current
  /\ UNCHANGED <<disk, journal, accepted, bootCopy, pending, history>>

CopyBoot ==
  /\ Step("r_copy_boot", "r_saved")
  /\ bootCopy' = bootimg
  /\ UNCHANGED <<disk, journal, accepted, rootCopy, packages, history>>

BackupFails ==
  /\ "backup" \in Faults
  /\ Step("r_copy_root", "clear") \/ Step("r_copy_boot", "clear")
  /\ state("Failed")
  /\ UNCHANGED <<disk, accepted, copies, packages, history>>

BackupSaved ==
  /\ Step("r_saved", "r_install")
  /\ journal' = [journal EXCEPT !.saved = TRUE]
  /\ UNCHANGED <<disk, accepted, copies, packages, history>>

(* Slip: root is written before the journal says so (OneRelease). *)
InstallBeginsUnsaved ==
  /\ Step("r_install", "r_root")
  /\ UNCHANGED <<stored, history>>

InstallBegins ==
  /\ Step("r_install", "r_root")
  /\ state("Installing")
  /\ UNCHANGED <<disk, accepted, copies, packages, history>>

RootWriteBegins ==
  /\ Step("r_root", "r_root_check")
  /\ root' = Torn
  /\ UNCHANGED <<bootimg, recovery, misc, journal, accepted, copies, packages, history>>

RootWritten ==
  /\ Step("r_root_check", "r_boot")
  /\ root' = journal.sequence
  /\ UNCHANGED <<bootimg, recovery, misc, journal, accepted, copies, packages, history>>

BootWriteBegins ==
  /\ Step("r_boot", "r_boot_check")
  /\ bootimg' = Torn
  /\ UNCHANGED <<root, recovery, misc, journal, accepted, copies, packages, history>>

BootWritten ==
  /\ Step("r_boot_check", "r_pending")
  /\ bootimg' = journal.sequence
  /\ UNCHANGED <<root, recovery, misc, journal, accepted, copies, packages, history>>

(* The payload does not decode, or a write or readback fails: restore. *)
InstallFails ==
  /\ \/ ("package" \in Faults /\ Step("r_install", "s_check"))
     \/ ("media" \in Faults /\ Step("r_root_check", "s_check"))
     \/ ("media" \in Faults /\ Step("r_boot_check", "s_check"))
  /\ UNCHANGED <<stored, history>>

Installed ==
  /\ Step("r_pending", "clear")
  /\ journal' = [journal EXCEPT !.state = "PendingHealth", !.boots = 0]
  /\ UNCHANGED <<disk, accepted, copies, packages, history>>

(* Slip: an installed system leaves its request set (RequestSettles). *)
ClearVerdictOnly ==
  /\ pc = "clear"
  /\ misc' = IF journal.state = "PendingHealth" THEN misc ELSE "none"
  /\ Stop("off")
  /\ UNCHANGED <<root, bootimg, recovery, journal, accepted, copies, packages, history>>

(* The outcome is durable: clear MISC, then turn off or restart. *)
ClearRequest ==
  /\ pc = "clear"
  /\ misc' = "none"
  /\ Stop("off")
  /\ UNCHANGED <<root, bootimg, recovery, journal, accepted, copies, packages, history>>

-----------------------------------------------------------------------------
(* restore: both images from the copies. *)

RestoreBegins ==
  /\ journal.saved
  /\ Step("s_check", "s_root")
  /\ state("RollingBack")
  /\ UNCHANGED <<disk, accepted, copies, packages, history>>

RestoreRootBegins ==
  /\ Step("s_root", "s_root_check")
  /\ root' = Torn
  /\ UNCHANGED <<bootimg, recovery, misc, journal, accepted, copies, packages, history>>

RootRestored ==
  /\ Step("s_root_check", "s_boot")
  /\ root' = rootCopy
  /\ UNCHANGED <<bootimg, recovery, misc, journal, accepted, copies, packages, history>>

RestoreBootBegins ==
  /\ Step("s_boot", "s_boot_check")
  /\ bootimg' = Torn
  /\ UNCHANGED <<root, recovery, misc, journal, accepted, copies, packages, history>>

(* Slip: the request is cleared before the verdict is saved (ComesBack). *)
BootRestoredUnsaved ==
  /\ Step("s_boot_check", "clear")
  /\ bootimg' = bootCopy
  /\ UNCHANGED <<root, recovery, misc, journal, accepted, copies, packages, history>>

BootRestored ==
  /\ Step("s_boot_check", "s_accept")
  /\ bootimg' = bootCopy
  /\ UNCHANGED <<root, recovery, misc, journal, accepted, copies, packages, history>>

(* No record, a corrupt copy, or a write that fails: a person decides. *)
RestoreFails ==
  /\ \/ (pc = "s_check" /\ (~journal.saved \/ "copy" \in Faults))
     \/ (pc \in {"s_root_check", "s_boot_check"} /\ "media" \in Faults)
  /\ journal' = [journal EXCEPT !.state = IF journal.saved THEN "RescueRequired" ELSE @]
  /\ Stop("held")
  /\ UNCHANGED <<disk, accepted, copies, packages, history>>

RestoreAccepts ==
  /\ Step("s_accept", "s_done")
  /\ accepted' = [accepted EXCEPT !.current = journal.previous]
  /\ UNCHANGED <<disk, journal, copies, packages, history>>

Restored ==
  /\ Step("s_done", "clear")
  /\ state("RolledBack")
  /\ UNCHANGED <<disk, accepted, copies, packages, history>>

-----------------------------------------------------------------------------
Power == PowerLoss \/ SwitchOff \/ LoadRecovery \/ LoadBootimg

Owner ==
  \/ StageBegin \/ StageFails \/ (\E r \in Release : StageCommit(r))
  \/ Queue \/ QueueFails \/ Cancel \/ ApplyGate \/ RollbackGate \/ ProbeGate

Platform ==
  \/ CoreRollback \/ ApplyBusy \/ Restart \/ RestartRefused
  \/ ApplyPrepare \/ ProbePrepare \/ HealthPrepare
  \/ AckAccept \/ AckState \/ AckKeep \/ HealthDeadline

Prepare ==
  \/ RecoveryWriteBegins \/ RecoveryWritten \/ RecoveryWriteFails
  \/ Request \/ CountRequest

BootCheck ==
  \/ BootNormally \/ BootUnstarted \/ BootFailed \/ BootCounted \/ BootUnconfirmed
  \/ BootGivesUp \/ BootRequests \/ BootHeld

Install ==
  \/ RecoverInstall \/ RecoverMismatch \/ BackupBegins \/ CopyRoot \/ CopyBoot
  \/ BackupFails \/ BackupSaved \/ InstallBegins \/ RootWriteBegins \/ RootWritten
  \/ BootWriteBegins \/ BootWritten \/ InstallFails \/ Installed

Restore ==
  \/ RecoverRestore \/ RestoreBegins \/ RestoreRootBegins \/ RootRestored
  \/ RestoreBootBegins \/ BootRestored \/ RestoreFails \/ RestoreAccepts \/ Restored

Recover == RecoverNothing \/ RecoverRefuses \/ RecoverNeedsPower \/ ClearRequest

Next ==
  Power \/ Owner \/ Platform \/ Prepare \/ BootCheck \/ Install \/ Restore \/ Recover

Spec == Init /\ [][Next]_vars
-----------------------------------------------------------------------------
(* Properties. *)

RecoveryStep ==
  {"clear", "r_backup", "r_copy_root", "r_copy_boot", "r_saved", "r_install", "r_root",
   "r_root_check", "r_boot", "r_boot_check", "r_pending", "s_check", "s_root",
   "s_root_check", "s_boot", "s_boot_check", "s_accept", "s_done"}
PrepareStep == {"p_recovery", "p_readback", "p_request", "p_count"}
CoreStep == RecoveryStep \cup PrepareStep
            \cup {"idle", "start", "a_state", "a_keep", "b_failed", "b_unfinished"}

(* Every variable keeps its type; health_boots never passes HEALTH_BOOTS. *)
TypeOK ==
  /\ root \in Image /\ bootimg \in Image
  /\ recovery \in Release \cup {Torn, Headless}
  /\ misc \in {"none", "y2-update", "y2-probe"}
  /\ journal \in Journal
  /\ accepted \in [sequence : Release \cup {0}, current : Release \cup {0}]
  /\ rootCopy \in Image \cup {Nothing} /\ bootCopy \in Image \cup {Nothing}
  /\ pending \in File /\ current \in File
  /\ where \in {"off", "rescue", "system", "recovery", "held", "dead"}
  /\ pc \in CoreStep
  /\ caller \in {"none", "apply", "probe", "health", "boot", "ack"}
  /\ apply \in {"idle", "restoring", "preparing", "probing", "restarting"}
  /\ health \in {"idle", "preparing"}
  /\ staging \in {"idle", "loading", "queueing"}
  /\ losses \in Nat /\ asked \in BOOLEAN

(* Root and BOOTIMG are two halves of one release unless the journal says  *)
(* that the recovery was writing them: what the journal's order of writes  *)
(* around the two images (recover, restore) is for.                        *)
MatchedPair ==
  journal.state \notin {"Installing", "RollingBack", "RescueRequired"} =>
    root \in Release /\ bootimg = root

(* The normal system never runs on half of a release (init mounts root     *)
(* only after boot-check; a torn or mixed pair goes to the recovery).      *)
SystemOnPair == where = "system" => root \in Release /\ bootimg = root

(* The two together: one release, wherever the power was lost.             *)
OneRelease == MatchedPair /\ SystemOnPair

(* Whenever the system may have to be restored, both copies on Y2DATA are  *)
(* there and are one release, the one the journal restores (backup,        *)
(* kept_backup and the deletion of the copies before it).                  *)
Restorable ==
  journal.state \in {"Installing", "RollingBack", "RollbackPending", "PendingHealth"} =>
    /\ journal.saved
    /\ rootCopy \in Release /\ bootCopy = rootCopy /\ journal.previous = rootCopy

(* While an image may be torn the request stays in MISC, so that every     *)
(* interruption returns to the recovery (comment above recover).           *)
ReturnsToRecovery ==
  journal.state \in {"Installing", "RollingBack"} => misc = "y2-update"

(* Without a request LK always finds a whole BOOTIMG: MISC is cleared only *)
(* after the last write of BOOTIMG is durable (recover, restore).          *)
BootimgWhole == misc = "none" => bootimg \in Release

(* Once an install has begun, RECOVERY holds a whole image until the next  *)
(* package is queued or an attempt failed: the way back does not depend on *)
(* a RECOVERY that prepare left torn (prepare, boot_check).  It says       *)
(* nothing of Queued: there prepare may write RECOVERY while MISC still    *)
(* has the request of an apply that was cancelled (Stranded).              *)
RecoveryReady ==
  journal.state \in {"BackingUp", "Installing", "RollingBack", "PendingHealth",
                     "RollbackPending", "Acknowledged", "RolledBack", "RescueRequired"} =>
    recovery \in Release

(* The three together: from the backup of an install to the end of its     *)
(* verdict or restore every interruption finds something whole to start,   *)
(* the recovery while an image may be torn; and BOOTIMG is whole whenever  *)
(* nothing is asked of the boot loader.                                    *)
ComesBack == ReturnsToRecovery /\ BootimgWhole /\ RecoveryReady

(* accepted.json names the release that runs once a verdict is written     *)
(* (ack, restore): the replay check of the next package rests on it.       *)
AcceptedIsRunning ==
  journal.state \in {"Acknowledged", "RolledBack"} => accepted.current = root

(* A release that is not newer than every one accepted before is never     *)
(* installed without a development key, also not the one that was rolled   *)
(* back, which is newer than what runs now (verify, restore).              *)
NoReplay ==
  journal.state \in {"BackingUp", "Installing"} =>
    journal.sequence > accepted.sequence \/ journal.sequence \in MayDowngrade

(* The record is true, and replay is judged by it.                         *)
RecordsHold == AcceptedIsRunning /\ NoReplay

(* The high-water mark of accepted releases never goes back, whatever is   *)
(* downgraded or restored (ack, restore).                                  *)
HighWater == [][accepted'.sequence >= accepted.sequence]_accepted

(* Recovery installs only what the owner applied: "Install (Restart to     *)
(* Install): needs the charger or >= 50 % battery" (platform-ota-v2.md).   *)
InstallOnlyWhenApplied == journal.state \in {"BackingUp", "Installing"} => asked

-----------------------------------------------------------------------------
(* Liveness.  A started core command ends, the owner presses Power when    *)
(* the player is off and connects the charger in the end; the health       *)
(* worker runs while the system does.  LK honours requests (no "lk").      *)

HealthWorker == AckAccept \/ AckState \/ AckKeep \/ HealthDeadline \/ HealthPrepare

Fairness ==
  /\ WF_vars(LoadRecovery) /\ WF_vars(LoadBootimg)
  /\ WF_vars(Prepare) /\ WF_vars(BootCheck) /\ WF_vars(HealthWorker)
  /\ WF_vars(Install) /\ WF_vars(Restore) /\ WF_vars(RecoverNothing \/ ClearRequest)
  /\ SF_vars(RecoverInstall) /\ SF_vars(RecoverRestore)

FairSpec == Spec /\ Fairness

(* What the code does: LK starts a RECOVERY that was cut off in prepare,   *)
(* for a request an earlier apply has left in MISC or for one that prepare *)
(* made on the strength of the image's header (core.c cancel, prepare).    *)
Stranded == where = "dead" /\ journal.state \in {"Queued", "Failed"}

(* A request the player was turned off with ends: it is answered and       *)
(* cleared, or a person is asked for (recover, recovery.sh), unless LK     *)
(* finds it with a RECOVERY that was cut off before any install.           *)
RequestSettles ==
  misc = "y2-update" /\ where = "off" ~>
    misc = "none" \/ journal.state = "RescueRequired" \/ Stranded

(* A new system is confirmed or given up, even when it is turned off       *)
(* before every verdict (boot_check counts, health_ack has a deadline).    *)
HealthIsDecided ==
  journal.state = "PendingHealth" ~> journal.state # "PendingHealth"

(* A rollback the player was turned off with is carried out, whether or    *)
(* not its request had reached MISC (boot_check, recover).                 *)
RollbackHappens ==
  journal.state = "RollbackPending" /\ where = "off" ~>
    journal.state \in {"RolledBack", "RescueRequired"}
=============================================================================
