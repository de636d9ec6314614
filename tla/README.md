# Formal models of Y2Linux

Y2Linux is the system of a portable music player: a Linux kernel for the MT6572,
an initramfs that doubles as a rescue, a Buildroot root file system, a set of
Rust daemons (`platform/crates`), the application Reborn (a repository of its own)
and an updater written in C. This directory holds TLA+ models of the parts of it
that have to be right through power losses, hanging hardware and other
processes, TLC configurations that check them on small instances, and proofs,
checked by TLAPS, that hold for every instance.

Paths below are relative to the repository's root; `…/commands` is
`platform/crates/y2-platform/src/commands`.

* [1 The system](#1-the-system): its parts, their state, operations and hazards
* [2 The models](#2-the-models): which module models what, and how
* [3 The runs](#3-the-runs): what is checked, within which bounds, under which fairness
* [4 Mutants](#4-mutants)
* [5 The proofs](#5-the-proofs)
* [6 Where the code disagrees](#6-where-the-code-disagrees-with-what-is-said-of-it)
* [7 What is left out](#7-what-is-left-out)
* [8 The plan](#8-the-plan)

To repeat everything, in this directory:

    tlc -workers 2 -config MCUpdateCore.cfg MCUpdateCore     # and so on, see 3
    tlapm UpdateProofs.tla                                   # and the other *Proofs

## 1 The system

How the parts interact. Everything that outlives a process is a file: durable ones
on the Y2DATA partition (`/data`), ones of this boot in `/run/y2`, written
atomically (`y2p-core/record.rs`) under flocks (`y2p-core/lock.rs`). Daemons answer
requests on UNIX sockets. Reborn asks the platform (`y2ctl`, sockets) and is asked by
it (`sleep_prepare`, `sleep_restore`, `status`). The boot loader, the kernel and the
updater share the MISC partition; the daemons and the kernel share sysfs.

### OTA updater (modelled)

*Parts.* `y2-update-core` (`tools/update/core.c`), the only writer of the partitions;
the platform's `update` commands (`…/commands/service/update/`) that download, apply,
cancel, roll back and watch the health of a new system; the rescue in BOOTIMG
(`initramfs/production/init`); the recovery image (`recovery.sh`); LK, which starts
RECOVERY when MISC asks for it and BOOTIMG otherwise.

*State.* The root, BOOTIMG, RECOVERY and MISC partitions; on Y2DATA the journal
`state.json`, `accepted.json` (highest and running accepted release), the pending and
the kept package, two compressed copies of the system before.

*Operations.* stage, queue, cancel, prepare, recover (back up, install or restore),
boot-check, ack, rollback, probe.

*Hard.* The power may fail between any two of some forty durable writes; images are
written in place; LK may ignore a request; the owner's command, the health worker and a
download share one journal; the boot after an interruption decides with nothing but
what reached the disk.

*Right when.* The player is always on one whole release or on its way back to one;
what a restore needs is there when it is needed; an interruption returns to the
recovery; nothing older is replayed; every request is answered, every new system
confirmed or given up.

### Product sleep (modelled)

*Parts.* `sleep request`, the helper it launches (`…/commands/suspend/helper.rs`), its
gates and the quarantine guard (`admission.rs`), the receipt (`receipt.rs`).

*State.* The helper's `Run`; three operation locks; the kernel's wakeup count and the
counts of the Power and RTC interrupts; `product-sleep-guard` and `suspend-last.json`
on Y2DATA, the retry stamp in `/run`; Reborn quiet or awake; the radios.

*Operations.* Request, admission, locks, quiesce Reborn and radios, the pass of checks
with the `wakeup_count` handshake, `echo mem`, proof of the return, maintenance return,
restore of screen, radios and records.

*Hard.* A press, a cable or another process at any instant between check and entry; a
kernel that hangs, refuses or returns without proof; a lost or late answer of Reborn; a
reset anywhere; the restore itself failing.

*Right when.* The kernel is never entered twice without proof that the first entry was
undone; a press is not slept over; the player is never left quiet; the record tells
what happened.

### Power daemon and shutdown (modelled)

*Parts.* The battery sample and low-battery policy, the shutdown coordinator and its
steps (`…/commands/power/`), `reborn-supervise`, `platform-supervise`, the SoC watchdog,
the PMIC's long-press reset.

*State.* One intent per boot, in memory and in `/run/y2/shutdown.json`; the count of
critical samples; the watchdog and two switches; the stage in `boot.json`.

*Operations.* request, acknowledge, sample, resume, eleven bounded steps to init.

*Hard.* The daemon dies between two steps and is started again; Reborn crashes and
another one answers; records cannot be written; the whole system stalls (it did, F39);
low battery and the owner's request arrive together.

*Right when.* A recorded intent ends the boot, in the way that was promised, with a dark
panel and saved data, and there is a way out of every stall.

### USB session and cable (modelled)

*Parts.* Two drivers of the kernel that look at one cable: the charger, which samples it,
classifies the source (BC1.1) and says whether it carries data, and the USB worker, which
attaches or detaches the gadget (`kernel/platform/mt6323-charger.c`, `usb.c`).

*State.* The cable and its interrupt; the charger's verdict and whether it is to be taken
again; the PHY, its bus clock, one mutex, two flags and two notifications; the controller,
its runtime-PM reference, the requested role, a terminal fault.

*Operations.* The interrupt, the charger's poll and classification, the worker (sample,
register, reconnect, detach, settle), a role request, an inhibited charge, runtime suspend,
prepare and complete of a system sleep.

*Hard.* The cable changes between any two steps; the classification takes the data lines
away from the controller; the verdict is written after the interrupt took it back; the
worker parks without a timer; clock, samples and registers fail.

*Right when.* The data lines are never taken from a live session; a verdict about another
cable does not stay; a session is watched as long as it lives, ends with the cable or with a
fault, and a cable that carries data gets one.

### Charging engine (modelled)

*Parts.* The rest of the charger's poll (`mt6323-charger.c`, `charger-policy.h`), the
PMIC's charger watchdog, the owner's settings, sleep and shutdown.

*State.* Two engine bits and the watchdog in the PMIC; the driver's fault, whether it
charges, holds the CPU awake, knows of a stop that failed; the proof of the source.

*Operations.* The poll from the first sample to the service of the watchdog, a change of
behaviour or ceiling, prepare and complete of a sleep, shutdown, the interrupt.

*Hard.* Every access to the PMIC may fail, the stop of the engines too; a stalled CPU comes
back between the last look and the switch; the cable goes while a charge is prepared.

*Right when.* An engine that may be on is always guarded by the watchdog; it runs for a
proven source and as long as the owner wants; a latched fault is not charged over.

### Bluetooth controller (modelled)

*Parts.* One thread of `y2-radiod` (`platform/crates/y2-radiod/src/bt/`) between the owner, the
sleep helper and BlueZ; its episodes (`links.rs`) and its ladder of recoveries (`ladder.rs`).

*State.* The wish (Bluetooth on, the preferred headset, the one tapped, those the owner
disconnected); where a sleep is; a copy of what BlueZ showed at the last look; a record per
headset; calls in flight; what each recovery step has cost so far.

*Operations.* Power, connect, disconnect, quiesce and restore; every answer, signal and
deadline; the pass: look, notice what began and ended, expire, move one step.

*Hard.* A pass decides on a copy while BlueZ goes on; calls time out and are carried out
afterwards; BlueZ ends or is restarted with calls in flight; a page sticks, a link stays half
set up, a headset connects by itself; requests come between any two of these.

*Right when.* The adapter ends as the owner and the sleep want it; a sleep that was answered
stays down; what the owner disconnected is left alone; an absent headset is not paged for ever.

### Parts that are not modelled yet

| Part | State | Operations | Hard | Right when |
| --- | --- | --- | --- | --- |
| Radio arbiter (`y2-radiod/src/arbiter.rs`, `desired.rs`) | desired radios in `/data`, a wake hold, the codec ceiling | requests, Bluetooth events, a timer | Wi-Fi is held back up to 12 s for a Bluetooth reconnect while requests and a sleep change the wish | a wish is carried out in the end; a hold ends; what is published is what is on |
| Wi-Fi connectivity (`…/connectivity/`) | helpers' processes, recovery stage | restart a dead helper, re-add a stale interface, recover | a helper dying while it is replaced; recovery racing Wi-Fi off | bounded restarts; off stays off |
| Service daemon and jobs (`…/service/daemon*`) | one child of a kind, backoff | start, time out, reap | a late exit of a job that was given up | one job of a kind; each is reaped |
| USB mode and gadget (`…/service/usb.rs`) | mode, responder, mounts | plug, unplug, mode change | a card pulled or a mount replaced while the computer reads it | the responder never serves a replaced mount |
| Storage media (`…/storage/media.rs` and below) | controller and file system identity, mount, records | mount, check, repair, format, write windows | a card removed or swapped between two steps | no write to a card other than the one that was named |
| Reports and maintenance (`…/reports/`) | queue, retry, limits; plan and recovery directory of a reset | build, queue, upload, reset, purge | an upload cut off; a reset interrupted between two moves | nothing sent twice; a reset goes on or back |
| Battery estimate, power journal | estimate, rotated rows | sample, append | numerical | see its unit tests |
| Downloads, images, radio firmware | files | fetch, unpack, verify | space, cancellation | hashes decide |
| Boot stages, network, time, CPU, codec | `boot.json`, settings | one step each | — | — (a shutdown's marks are in PowerShutdown) |
| Kernel power management, clocks, panel, connectivity | registers, firmware state | suspend sequence, commands | hardware timing | needs the hardware |
| MTP responder (`tools/usb/`) | partial and final file | safe replacement | a transfer cut off | old or new file, never half |
| Build and release tools | — | — | — | run on a computer |

PROJECT.json lists these with their sources, and every hazard at its line.

## 2 The models

| Module | What it is | Lines of code it stands for |
| --- | --- | --- |
| `UpdateCore` | the updater from the owner's command to LK and back | core.c, init, recovery.sh, `…/service/update` |
| `UpdateSwitch`, `UpdateRefinement` | what it promises, whole releases switched in single steps; the mapping | – |
| `ProductSleep` | request, helper, gates, guard and receipt of a sleep | `…/suspend`, `sleep.rs`, y2-suspend |
| `SleepPromise`, `SleepRefinement` | what a sleep promises its owner; the mapping | – |
| `PowerShutdown` | policy, coordinator, steps, supervisor, watchdog | `…/power`, reborn-supervise, platform-supervise, boot.rs |
| `ShutdownPromise`, `ShutdownRefinement` | one way to end for one boot; the mapping | – |
| `UsbSession` | the cable between charger and USB worker | usb.c, the source half of mt6323-charger.c, `usb/fault.h` |
| `DataLines`, `UsbRefinement` | a pair of data lines that two users share; the mapping | – |
| `Charger` | the engines, their watchdog and the driver | mt6323-charger.c, charger-policy.h |
| `GuardedEngine`, `ChargerRefinement` | an engine nobody has to trust its driver for; the mapping | – |
| `RadioController` | the Bluetooth thread, its calls, BlueZ and the headsets | `y2-radiod/src/bt` |
| `RadioPromise`, `RadioRefinement` | what an owner relies on of the Bluetooth controller; the mapping | – |
| `MC…` | constants for TLC | – |
| `…Proofs` | theorems about the module (5) | – |

Each component has an abstract specification, which knows none of its places, locks, calls
or records, and a module with the mapping to it; the property `Implements…` says that
the component is one of those, TLC checks it and TLAPS proves it (5).

The models of the updater, of the sleep and of the shutdown stand for processes that hardly share state: the gates of a sleep see
a pending update or shutdown as an inhibitor (`operation_state`, `battery_and_cable`), and
the restart of an update is a request to the power daemon that may be refused. Composing
them is in the plan (8). UsbSession and Charger share the charger's poll: the first has the
classification step by step, with the USB worker beside it, and a latched fault as an
inhibition from outside; the second has the engine step by step, and the classification
as a choice of its outcome. A suspend is one more client of both and not the helper of
ProductSleep.

### UpdateCore

*State and code.* `root`, `bootimg`, `recovery` and `misc` are the partitions. An image is
named by the release it belongs to; `Torn` is one whose write has begun and not ended,
`Headless` a RECOVERY whose first page is not a Y2 image's, which is all that
`recovery_installed` reads without a hash. `journal` is state.json with the fields the
decisions use (`saved` stands for the record of the backup, `kept` for
kept_manifest_sha256, `requests` for recovery_requests, `boots` for health_boots);
`accepted` is accepted.json; `pending` and `current` are the packages. `where` says what
runs; `pc` and `caller` are the core command under its flock, at most one. `apply`,
`health` and `staging` are the platform's three processes between its core commands.

*Actions.* One per durable write of the core, in the code's order, so that `PowerLoss` may
come between any two. `recover`, for example, is RecoverInstall, BackupBegins, CopyRoot,
CopyBoot, BackupSaved, InstallBegins, RootWriteBegins, RootWritten, BootWriteBegins,
BootWritten, Installed, ClearRequest, with RecoverMismatch, BackupFails and InstallFails as
its error paths; an atomic save is one step. `prepare` has three callers with different
ends (`Finish`). The health observation is abstract: a system in `PendingHealth` may be
acknowledged (AckAccept) or be given up (HealthDeadline), as if it may work or not.

*Abstractions.* A signature and the hashes are good, or the package is bad
(`"package" \in Faults`). The battery gate refuses without changing anything and is no
step. `StageCommit` waits until no `apply` is under way: a download takes minutes and the
calls of an apply follow each other at once. `keep_installed` and `make_room` are modelled by what they
leave (`AckKeep`, `StageBegin`).

*Properties.* Invariants OneRelease (MatchedPair and SystemOnPair: no system runs on a mixed
pair of root and BOOTIMG), Restorable, ComesBack (ReturnsToRecovery, BootimgWhole,
RecoveryReady: from the backup of an install to the end of its verdict or restore LK finds
something whole to start, the recovery while an image may be torn) and RecordsHold (AcceptedIsRunning, NoReplay: accepted.json tells the truth and
admits nothing older); liveness RequestSettles, HealthIsDecided, RollbackHappens; refinement
ImplementsSwitch. HighWater is proved only.

### UpdateSwitch, UpdateRefinement

UpdateSwitch knows nothing of partitions: a player *runs* one release, an *offer* is made,
taken up in one step (*trial*), confirmed, or returned from in one step. In the mapping the
player is still on the release before while images are being written (any interruption
leads back to it), and the move happens with the save of `PendingHealth`. The abstract
specification forbids, for instance, going back two releases, a trial of something never
offered or not admissible, and a rollback of a confirmed release that was not signed for it.

### ProductSleep

*State and code.* `pc` and `job` are the helper: its place in `Run::body` or
`Run::finally`, and `struct Run` with the result and the reason of the refusal. `held` are
its operation locks, `owners` the locks of others. `count` is what the helper knows of the
wakeup count (not read, read, overtaken by an event); `irqs` the sum of the Power and RTC
interrupt counts, `previous` the baseline, `before` the value of the last entry. `guard`
and `receipt` are the two durable records, `retry` the stamp in `/run`. `reborn` is quiet
or not and its screen lit or not. `inhibitors` are what the gates look at.

*Actions.* One per step of the helper that changes shared state; the world acts between any
two: Press, Event (cable, battery), Inhibit (low reserve, shutdown, leases, an update or
maintenance under its lock), Operate (another owner of a lock), RetryExpires, OwnerTrial,
Reset. Error paths follow the code: `Refuse` for an `Err` of the body that is a refusal,
`Break` for any other, each with a receipt that may not be writable; `finally` runs
Screen, RadiosRestored or RestoreRadiosFails, Complete, Clear in its order.
`Resumed` is both ends of a return: a maintenance wake goes back to the loop.

*Abstractions.* What the kernel does is its answer (KernelRefuses, KernelFails,
KernelSleeps, KernelWakes). The identity of the image in the guard, the gates that depend
on the build (ABI, PM test, backstop) and a Reborn that answers not-ready are left out; a
Reborn that crashes while quiet is not modelled. The guard and the receipt are ordered by
when they were written (`newer`), not by the wall clock.

*Properties.* QuarantineHolds, QuarantineIsEarned, SleepsUnwatched, RebornReturns,
DarkUnlessWoken, ReportIsTrue (RadiosOffReported: a radio left off makes the run a failure;
RestoredIsTrue: what is read as restored slept, was proven and has everything back),
WakeEndsSleep, and the refinement ImplementsPromise. NoBlindRepeat (no entry while an
earlier attempt is unproven) follows from the quarantine and is proved only.

### SleepPromise, SleepRefinement

A kernel that is awake, entering, asleep or back; a face the owner can see and hear (quiet, lit,
silent); a *doubt* about an entry that was tried; and a *bar* that survives a reset. The
kernel is what the helper's place shows, doubt is `unproven`, the bar `quarantined`, silent
means that all radios are off. It forbids an entry on a player that shows or plays
anything, one that was not recorded first, a change of the face until the kernel has
returned, an entry in doubt, and lifting the bar before the doubt.

### PowerShutdown

*State and code.* `pc` is the daemon: its loop, a step of `execute`, or down. `intent` is
the coordinator's, `file` shutdown.json (client and acknowledging process are named by the
number of the start of Reborn they belong to, which is what pid and start time tell
apart). `late` says that the deadline has passed. `watchdog`, `powersOff` (the reset it
makes powers off) and `longPress` are the switches. `stage` is boot.json's, `asked` what
init was told. `sup` is reborn-supervise: watching, waiting to start Reborn again, gone.
`saved` says that nothing has been written since the sync.

*Actions.* One per step of `execute`, in order, each with its failure; Request, Ack and
Sample are the loop, New its resumption by a daemon started again. The world: Reborn lights
the panel, writes, dies and is started again; the battery and the clock; DaemonDies; Stalls;
and the four ways a boot ends (WatchdogFires, LongPressResets, InitEnds, then Boot).

*Abstractions.* The thresholds of the policy are one bit per sample; stopping the radios is
one step that changes nothing else; power.json, the display value and the power journal
are left out. The failed-start screen of the supervisor and the boot gate are not modelled.

*Properties.* GraceKept, DarkForInit, OrderlyMeansSaved, EndsAsPromised, the refinement
ImplementsShutdown, and BootEnds for liveness. EscapeRemains (no stall without a watchdog or the
long press) is proved only.

### ShutdownPromise, ShutdownRefinement

One *goal* for one boot: the daemon's intent or, of a daemon that died, the action of its record.
*recorded* says that shutdown.json is there, *handed* what init was told, *guard* that the
watchdog runs, *darkens* that its reset powers off, *escape* is the long press. Who asked,
who acknowledged, the steps and the daemon's deaths are gone. It forbids a second goal, a goal
lost or exchanged once it is recorded, a promise of another end, another end given to
init or made of the watchdog's reset, and giving up the long press without a watchdog.

### UsbSession

*State and code.* `chpc` is where the charger's poll waits (for the mutex, in the
classification, before its end), `upc` whether the worker acts on the sample `seen`. `mutex` is
y2_usb_lifecycle, `dataOk` y2_usb_data_source, `clock` and `clockBad` the bus clock and
its count of failures, `chq` and `uq` the two works, `notify` the notification from the
charger to the worker. `phase` is the system's sleep as both drivers see it.

*Actions.* What one thread does under one lock without waiting. The charger: PollPaused,
PollOffline, PollOnline, Begin and BeginRefused, Classify, End. The worker: WorkSamples, then
one of Register, Detach, Reconnect, Settle, or WorkFinishes after a terminal fault. ChargerIrq
takes no lock and lands between any two of them. RoleSet, Inhibit, RuntimeSuspend,
ControllerFails and the suspend (Freeze, PrepareUsb, PrepareCharger, SleepRefused,
CompleteCharger, CompleteUsb) are the other threads.

*Abstractions.* Three cables: none, one that carries data, one that does not. What a
classification answers is what is plugged in, unless it fails. Endpoints, DMA and the gadget's
protocol are left out; an interrupt storm or a bus error is the step ControllerFails.

*Properties.* ProofIsFresh, AttachedIsWatched, the refinement ImplementsLines, and for liveness
SessionEnds; TypeOK holds the tolerances to their budgets. SwitchNeedsQuiet (the lines are with
the charger only while there is no session) and StoppedIsDetached are proved only.

### DataLines, UsbRefinement

The data lines with their two users: *detecting* is the mutex in the charger's hands,
*session* `attached`, *verdict* y2_usb_data_source, *clock* the bus clock and *over* the terminal
fault. It forbids that the lines pass from one user to the other directly, a verdict said
outside a detection, a session without one or after the end, a detection while a verdict stands,
and a change of the clock while anybody has the lines. That no session opens after
a terminal fault is the safety half of SessionEnds.

### Charger

*State and code.* `engines` and `wd` are the PMIC's, `age` that of last_pet_ms, `pc` the place
in the poll; the rest are fields of struct y2_charger. `fault` is none, source (the one bit
that is retried) or latched (any other bit).

*Actions.* The poll is split at every wait and wherever a stalled CPU matters: Present (or
Absent, or SampleFails), Quiet, Detected, Resample, Decide, Prepare, Recheck, Enable or Watch,
Serve, Pet, and PollInhibits as its safe end. SetBehaviour, LowerCeiling, SleepPrepares,
SleepCompletes and Shutdown take the driver's lock between polls; CableChanges, Irq, Electrics
(voltage, heat, battery), Delays and Expires happen at any time. `Stop` is y2_charge_stop with
both its attempts, `Inhibited` y2_charger_inhibit around it.

*Abstractions.* How much is charged, and when a charge is complete, is a choice of Decide; so
is when a failed classification is retried. Samples are good, bad or fail.

*Properties.* EnginesGuarded, RunsForAReason, the refinement ImplementsEngine, liveness
ChargingEnds; TypeOK bounds the retries. FaultHolds (a latched fault goes only with the cable and a
stop that was verified) is proved only.

### GuardedEngine, ChargerRefinement

An engine, its *guard* (the watchdog), a CPU that may stop or not, something wrong (*barred*: a
latched fault), a *proven* source, one *present*, a system *asleep*. The poll and its waits are
gone. It forbids a source proven while an engine runs, a start without a guard or
on a CPU that may stop, serving the guard of a faulty charge, taking the guard away before
the engine, ending what was wrong while there is a source or an engine runs, and any
step towards charging in a sleep. A faulty charge that is not served is the safety half of
ChargingEnds.

### RadioController

*State and code.* `desired`, `preferred`, `asked`, `held` are the wish; `sleep` is `enum Sleep`;
`seen` is the part of `World` the decisions use. `dirty` is the field, `run` says that the
thread has a reason not to wait, `at` is its place in `run()`, and `stuck` the headsets expire()
has still to cancel. `rec` holds `struct Record`: an episode is named by its trigger, `wait` says
that its next try is not due, `since` that connected_since is set, `unset` and `aged` how old the
half set up link and the connect are. `powerCall`, `conn` and `bye` are the calls in flight
(Disconnect for a cancel or for the owner). `bluez`, `adapter`, `pend` (what BlueZ is about to do
about the power), `page`, `link` and `signal` are the other side. `told` remembers what a sleep
was answered.

*Actions.* One per request, answer, signal and deadline, each with all the handler does
(CancelConnect, for example, is TryFailed, then the ladder, then the step it chose). The pass is
Observe, one of SeenConnected, SeenSetUp, SeenDisconnected per headset that changed, Expire with a
CancelStuck per stuck headset, and Reconcile, which is reconcile_power, reconcile_sleep and
reconcile_target in this order. A pass reads its copy only and its calls are sent without waiting,
so BlueZ, the headsets and the queue of requests act between two passes (`at = "drain"`) without
losing an outcome.

*Abstractions.* Time is what is due and what is not: a deadline may come whenever the thread
waits. What a link is set up with is one state, `half`. All headsets are trusted audio devices
that connect on their own wish. The ladder's steps do not become free again after 600 s, which
only makes it end sooner. The look that comes once a minute in any case is left out: a controller
that missed no signal would change nothing by it. The scan, pairing, forget, codecs, streams,
BlueALSA, the budgets of supervise.rs, a lost bus and looks that fail are not modelled.

*Properties.* HeldIsLeftAlone, the refinement ImplementsRadioPromise, and for liveness WishCarried
and PagingEnds; TypeOK holds the ladder and the drops to their budgets. DownUntilWoken (a sleep
that was answered stays down until the wake) is proved only.

### RadioPromise, RadioRefinement

Only what an owner could notice: the wish (`desired`), a sleep and what it was told (*quiet*: the
answer was ok and not given over a power-on under way), the adapter, whether it was asked on
(`pend`), the headsets *held*, the one *tapped*, those *called* (a Connect in flight) and those
*parted* with (a Disconnect of a link that was up, as the owner's). It forbids calling a held headset
or any during a sleep, parting with one unless the owner disconnects it or another was tapped, asking
the adapter on unwanted or in a sleep, and an answer that the adapter is down while it is on or
coming. Cancelled pages, the ladder and BlueZ's restarts must come to no more than that.

## 3 The runs

Nine configurations check what holds. States are distinct states.

| Run | Instance | States | Checks |
| --- | --- | --- | --- |
| `MCUpdateCore` | 2 releases, every fault, 2 power losses, 3 requests | 0.8 M | TypeOK, OneRelease, Restorable, ComesBack, RecordsHold, ImplementsSwitch |
| `MCUpdateLive` | the same with a boot loader that honours requests | 0.4 M | RequestSettles, HealthIsDecided, RollbackHappens |
| `MCProductSleep` | every fault, 1 press, 2 events, 1 lost answer, 1 reset | 4.5 M | ReportIsTrue, DarkUnlessWoken, SleepsUnwatched |
| `MCSleepLive` | failing kernel, signals, 1 press, 3 events, 1 lost answer, 1 reset | 1.0 M | TypeOK, QuarantineHolds, RebornReturns, QuarantineIsEarned, ImplementsPromise, WakeEndsSleep |
| `MCPowerShutdown` | records, watchdog, switch, stop, light and sync fail; 1 death of the daemon, 2 starts of Reborn | 4.9 M | TypeOK, GraceKept, ImplementsShutdown, DarkForInit, OrderlyMeansSaved, EndsAsPromised |
| `MCPowerLive` | records and watchdog fail, init refuses, the system stalls; 2 critical samples, 1 death | 0.6 M | BootEnds |
| `MCUsbSession` | every fault, 2 faults, 3 events, 1 retry | 0.46 M | TypeOK, ProofIsFresh, AttachedIsWatched, ImplementsLines, SessionEnds |
| `MCCharger` | every fault, any number of times; 2 retries | 32 k | TypeOK, EnginesGuarded, RunsForAReason, ImplementsEngine, ChargingEnds |
| `MCRadio` | 1 headset, 2 events (requests, refusals, late answers, drops, ends of BlueZ), 2 tries, each recovery once | 0.36 M | TypeOK, HeldIsLeftAlone, ImplementsRadioPromise, WishCarried, PagingEnds |

Three more show a property violated, a sentence of the repository's own that the code does
not keep: see 6.

### What the runs show

*MCUpdateCore*: at whichever of the durable writes the power is lost, also once more during
the start that repairs the first loss, and whatever of media, copies, package or boot
loader fails besides, the player runs one whole release, knows the way back to it, and
comes back to the recovery while root or BOOTIMG may be torn. Nothing below an accepted release is
installed without a development key, and from outside the updater is UpdateSwitch.

*MCUpdateLive*: what was asked is answered, an unconfirmed system does not stay so, and a rollback
happens, also when packages replace RECOVERY. The exception is Stranded: before an install has
begun LK may find a request and a RECOVERY that was cut off (6), and then starts nothing.

*MCProductSleep* and *MCSleepLive*: the kernel is entered with everything quiet and
watched, an attempt that is not proven undone is not repeated, a refusal costs nothing, a
press ends the sleep, and the record and the result tell what happened. To its owner it is
SleepPromise.

*MCPowerShutdown* and *MCPowerLive*: the owner's grace, a way out of a stall, a dark panel,
an honest boot journal, the promised end; and that there is an end. To whoever asks it
is ShutdownPromise: one end, whichever daemon carries it out.

*MCUsbSession*: with a cable that comes and goes at any instant, a role request or a sleep in
between, and any two failures, charger and session share the data lines as DataLines says, a
verdict about a cable that is gone is still to be taken back, no session is left unwatched,
and without a cable the clock comes to rest.

*MCCharger*: whatever access fails, and however often, an engine that may be on has its
watchdog, the driver does nothing to it that GuardedEngine does not allow, and a charge that nobody
wants ends.

*MCRadio*: with any two requests or failures beside the ordinary course of a power-on and a
page, a disconnected headset stays alone, the owner has the controller of RadioPromise, whose
answer to a sleep holds, the adapter follows the wish in the end, through refused calls, a power cycle and BlueZ's restart, and paging ends.

### Why the bounds are enough

*Updater.* Two releases are a new one and the one before it; after an install the older one
is also the downgrade, the replay and the target of the rollback. Two losses are a loss while the first is being
repaired; from then on the state is one a single loss leads to as well. Three requests
reach `GiveUp`. `MaxRequests` ends the applies of one queue once so
many requests were made; the boot check and the health worker are not bounded by it. The
minimum of a release is its predecessor. The proofs have none of these bounds.

*Sleep.* One press is a press at any instant, two events overtake the count twice, three
once more than STALE_COUNT_RETRIES. One lost answer is what the code promises to stand
(sleep_restore is repeated). A reset may come at any step, and a run before and after it is
in the bound. Requests are not bounded. MCProductSleep and MCSleepSignal say CHECK_DEADLOCK
FALSE because a Reborn that a signal or a late answer left quiet (6) asks for nothing, and
a reset that would help may be beyond the bound; MCSleepLive, without those faults, checks
it.

*Power.* The daemon dies at any step, and the next one resumes with any record it may find.
Two starts of Reborn are the client and another one; the budget of the supervisor is five.
With `critical_samples = 2` a good sample between two bad ones resets the count. The fault
`journal` (boot.json cannot be written) is in the proofs and in no run: it only takes
marks away.

*USB.* Three events are an unplug, a plug and one more thing (a role, a sleep, an inhibited
charge) in between; two faults end both tolerances, which are two instead of the code's 4 and
40, so that one more and one less both happen. One retry of the classification stands for five.

*Charger.* Nothing is bounded but the retries, two instead of five.

*Bluetooth.* Two events are a request and the failure that meets it, or two failures in a row:
enough for a cancel, a power cycle after it and a restart of BlueZ, since each step may be taken
once instead of three times and the second failed power-on, not the third, restarts BlueZ. Two
tries are the one that fails and the last one. A tap that displaces another headset needs two; the
proofs have any number. The run says CHECK_DEADLOCK FALSE because the thread really waits in poll
when nothing is due and nobody asks, and the look that would come after a minute is not modelled.

### Fairness

*FairSpec* of the updater: a core command that was started ends (it is a process under a
timeout); the owner presses Power when the player is off, and with a charger in
the end, so that `recover` is not refused by an empty battery for ever (strong fairness of
RecoverInstall and RecoverRestore, which RecoverNeedsPower keeps disabling by turning the
player off); the health
worker runs while the system does; LK honours a request (the run has no "lk").

*Live* of the sleep: the helper goes on. Each wait in it has a deadline in the code (the
locks, both answers of Reborn, the radios, the wakeup count's two seconds), and the
SPM timer of 30 minutes ends a sleep that nothing else ends.

*Live* of the daemon: its loop samples every second and its steps have time limits;
platform-supervise starts a dead daemon again; the clock reaches the deadline; a running
watchdog fires and init ends what it was asked. Whether init refuses or the system stalls is
free.

*Live* of USB: the kernel runs a queued work, delivers an interrupt and a notification, expires
the autosuspend timer and ends a suspend attempt; a thread that waits for the mutex gets it
in the end (strong fairness of the two pollers: kernel mutexes hand over to a waiter).

*Live* of the charger: its queue runs a queued poll, the interrupt is delivered, an armed
watchdog that nobody serves expires; time passes while a fault is latched, since nothing
serves the watchdog then.

*Live* of Bluetooth: the thread runs while it has something to do; calls are answered or expire
(bus.rs, expire_calls), and so do deadlines (next_deadline); BlueZ ends the links it was asked to.
Strong fairness of PowerTakes says that an adapter that is asked again and again follows in the
end, the hardware's part in WishCarried. Pages, links, and BlueZ's return are not fair: WishCarried
speaks of a BlueZ that is there.

Power losses, resets, presses, cables, events, stalls, deaths, and what the owner asks, are never
fair.

## 4 Mutants

An operator whose comment begins with "Slip:" is not part of a model. It is the definition
below it with a mistake one could make in that code, and PROJECT.json ("mutants") pairs it
with the property that notices when the one is put in the place of the other: a backup
taken as saved before it is (InstallBeginsUnsaved breaks OneRelease), a queue that keeps any
package (QueueKeepsAny breaks Restorable), a guard that every run clears (ClearAlways breaks
QuarantineHolds), a wakeup that compares no interrupts (timer_alone breaks WakeEndsSleep), a
resumed intent that stays Executing (NewAsWritten breaks BootEnds), an interrupt that takes back the
verdict only (ChargerIrqRetracts breaks ProofIsFresh), a worker that polls only a cable it
could read (WorkEndsUnread breaks AttachedIsWatched), a watchdog that goes off with engines
nobody verified (StopBlind breaks EnginesGuarded), a power cycle that is looked at behind an
early return (CycleOverBehind breaks WishCarried). The refinements notice what no single
invariant names: a baseline that is taken without writing the guard (SyncUnguarded), a detection beside a
session (MayDetectBeside), a missing cable that ends a fault with an engine on (AbsentForgets). Each
property has one.

## 5 The proofs

TLAPS proves, for every value of the constants that the module's assumption admits:

| Module | Theorem | Establishes |
| --- | --- | --- |
| `UpdateProofs` | TypeCorrect, PairIsMatched, AlwaysRestorable, InterruptionRecovers, NothingReplayed, MarkNeverFalls | TypeOK; OneRelease; Restorable; ComesBack; RecordsHold; HighWater (the mark of accepted releases never falls) |
| `UpdateRefinementProofs` | Implements | ImplementsSwitch |
| `ProductSleepProofs` | TypeCorrect, Quarantine, NeverBlind | TypeOK; QuarantineHolds; NoBlindRepeat (no entry while an earlier attempt is unproven) |
| `ProductSleepRunProofs` | Unwatched, StaysDark, ReportTrue, WakesReborn, GuardEarned, KeepsPromise | SleepsUnwatched; DarkUnlessWoken; ReportIsTrue; RebornReturns; QuarantineIsEarned; ImplementsPromise |
| `PowerShutdownProofs` | TypeCorrect, WayOut, OneEnd, PromiseKept, OrderlyEnd, OrderlySaved, Grace | TypeOK; EscapeRemains; ImplementsShutdown; EndsAsPromised; DarkForInit; OrderlyMeansSaved; GraceKept |
| `UsbSessionProofs` | TypeCorrect, QuietWhileSwitched, SharesLines, VerdictFresh, SessionWatched, StopDetaches | TypeOK; SwitchNeedsQuiet; ImplementsLines; ProofIsFresh; AttachedIsWatched; StoppedIsDetached (a stopped USB has no live session) |
| `ChargerProofs` | TypeCorrect, Guarded, Reasoned, FaultStays, EngineGuarded | TypeOK; EnginesGuarded; RunsForAReason; FaultHolds; ImplementsEngine |
| `RadioProofs` | TypeCorrect, HeldAlone, StaysDown, MannersKept | TypeOK; HeldIsLeftAlone; DownUntilWoken; ImplementsRadioPromise |

Five theorems have a hypothesis about the behaviour besides the specification.
`[][~ReturnRefused]_vars` (the count is never refused after a real return) is one of Quarantine,
NeverBlind, GuardEarned and KeepsPromise, which are false without it (6); NeverRefused
shows that it follows where `"busyReturn" \notin Faults`, as in MCSleepLive, and the corollaries
QuarantineAlways, GuardAlwaysEarned and PromiseAlwaysKept say so. `[][~QuietedUnheard]_vars` (Reborn never goes
quiet without the helper hearing of it, which a late answer or the signal of MCSleepSignal
causes) is WakesReborn's, with the corollary WakesRebornAlways. GuardEarned also assumes that
the receipt can be written (`"receipt" \notin Faults`).

The assumptions are ReleaseAssumption, SleepAssumption, PowerAssumption, FaultsAssumption,
BoundsAssumption, ChargerAssumption and RadioAssumption: releases are positive numbers, the first one among
them, the marks of an image that is none differ from every release, the faults are among those
named, the bounds are natural numbers, the tolerances of the USB worker and the budgets of the
Bluetooth controller are not zero, and no headset is `None`.

*Updater.* None of the invariants is inductive. That the pair is matched after
BootWritten needs that the copy of the root was already in place; that needs the state the
journal had when the command began. IInv says this per step: *Places* (which step runs in
which environment), *Underway* and *Records* (what the journal says while something is under
way, and against packages and accepted.json), *Requested* (MISC and RECOVERY while the
recovery runs: an interrupted write leads back there), *Progress* (what each step of recover
and restore may rely on) and *RestorableLonger* (an acknowledged release can still be rolled
back). One lemma per group of actions shows it preserved. The refinement takes IInv and maps
each group to a step of UpdateSwitch or a stutter; the only steps that move are the saves of
PendingHealth, Acknowledged and the end of a restore, and the offers.

*Sleep.* QuarantineHolds speaks of the guard alone, and a run that clears it must know that
its attempt was proven. *Doubt* carries this: an unproven attempt is in the kernel, being put
right, or of an earlier run; its run knows that it attempted and did not restore; no owner
trial of this boot is on record; and before an entry the guard is pending. It is
preserved by every step but ReturnRefused.

ProductSleepRunProofs follows one run through the places of its body and its end. *RunSound*
says what the run has by then: Reborn quiet and dark and remembered so (*Remembered*,
*Hushed*), its locks and nobody else's (*Owned*), the radios off (*RadiosOff*), no press since
the baseline while the count stands (*Unwoken*), and on the way back what the result, the
screen, the answer and the receipt may claim (*OffFails*, *Slept*, *ScreenKept*, *Answers*,
*RestoredTruly*). It holds under every fault. *QuietCounted* says that Reborn is quiet only
where the run will still wake it, or two answers were lost. *Doubted* says that an attempt the
run doubts is unproven. The refinement uses all of it: RunSound says what the face is at an
entry, Doubt what the bar covers, Doubted that what is proven is the attempt that was in doubt.

*Power.* *Intended* (a step has an intent, a boot that ended none), *Answered* (an answer on record
is its client's), *Armed* (the long press goes off only over a running watchdog), *OneAction*
(while every record could be published, the daemon, its record, init and the reset are
about one action), *Quiet* (a supervisor that got its TERM starts no Reborn, so nobody
writes after the sync or lights the panel after the dark) and *Dark*. The refinement adds *Recorded*
(a daemon that is down intends nothing; one that lives intends what is on record), which holds
also where records fail, and goes group by group: what acts beside the daemon, what publishes
again, what decides, what ends the boot.

*USB.* The invariant is about who may rely on what while the other waits: *LocksMatch* (the
mutex is held by exactly the thread in the middle of its work), *TriesLeft* (a worker that has
not finished has attempts left), *ClockKept* (a held reference keeps the clock, a session has
both), *StopIsFinal* (finished means detached for good); and for the verdict *PollReturns* (the
charger's poll comes again or waits for the end of the sleep), *NoVerdictYet* (none while the
source is being classified) and *FoundIsFresh* (what a detection found is true, or an interrupt
that disturbed it is on its way or noted in source_changed). For the refinement *FaultSeen* says
that a worker which meets a terminal fault between its sample and its action has a session already,
so that what follows can close one but not open it.

*Charger.* EnginesGuarded needs that a poll on its way to the switch holds the CPU awake and
is not paused (*Awake*), and that the watchdog was armed by then and may only have expired
(*Armed*). RunsForAReason adds *Clear* (a poll carries on only without a fault and without the
owner's inhibit), *VerdictFresh* (a verdict is about the cable of now or its interrupt is not
served yet, and there is none while it is being taken) and *Known* (what is watched and
served is a charge the driver knows of). The refinement needs one fact more, *Judged*: a source is
judged only while the engines are off, so none is proven by the voltage an engine makes.

*Bluetooth.* HeldIsLeftAlone is inductive with the types: each place that starts an episode
does so for the headset tapped, which the tap took out of `held`, or for the target, which is
never held. DownUntilWoken needs *StaysOff*: after such an answer the adapter is off, BlueZ has no
power-on left to carry out, and the controller asks for none, because Bluetooth is off or the
sleep is not over. The refinement maps a whole pass to one Work: *Fewer* says of a step that it adds
no call, no parting and no power-on. The lemmas show that every recovery of the ladder, every
answer and deadline and all that BlueZ does by itself are such; what the three parts of Reconcile
and the owner's requests add is looked at one by one, and a call needs that the target is never held.

Model-checked only: the liveness properties RequestSettles, HealthIsDecided,
RollbackHappens, WakeEndsSleep, BootEnds, SessionEnds, ChargingEnds, WishCarried and
PagingEnds (fairness and ENABLED are beyond the prover).

## 6 Where the code disagrees with what is said of it

Each of the three is a run with the one property it violates; TLC prints the trace.

* `MCUpdateUnasked` (InstallOnlyWhenApplied). Apply leaves the request in MISC when the
  restart after it is refused, and `cancel` (core.c:2311) ends the journal without taking
  it back. The next package that is queued is installed at the next power-on without the
  owner's Install and without its battery gate (platform-ota-v2.md:88).
* `MCSleepSignal` (SignalNeverLeavesQuiet). A signal between Reborn's quiescing and
  `self.prepared = true` (helper.rs:192-194) skips the restore, against helper.rs:12-13.
* `MCUsbBounce` (HostIsFound). A cable that drops and returns between two polls of the charger
  is seen as gone by the USB worker, which detaches and parks without a timer; the charger
  classifies it again, finds the same source as before and announces nothing
  (mt6323-charger.c:434), although "CHRDET and completed BC1.1 classification wake this
  worker" (usb.c:1202). The session stays away until something else kicks the worker.

Seen while modelling; the models do as the code does and no property claims otherwise:

* The read of wakeup_count *after* the kernel (helper.rs:259) can be refused as busy, and a busy
  refusal is taken to mean that "no kernel call followed" (helper.rs:134): the guard is then
  cleared though nothing was proven (the fault `busyReturn`).
* A press whose wakeup source is still active when the count is read ends as `busy`, not as
  `woken`, and the screen stays dark.
* `restore_radios` ends at its first failure, leaving the other radio off as well.
* prepare asks for RECOVERY on the strength of its first page (core.c:2079); one whose write
  was cut off behind it passes, although "LK must find a Y2 recovery image before we ask it to
  boot one" (core.c:1366).
* recovery_requests counts prepares that the recovery answered or whose restart was refused;
  boot_check may then give up a system that could be restored, although no "Request keeps
  getting lost" (platform-ota-v2.md:135).
* RECOVERY may be rewritten while a request of an earlier apply stands in MISC: a loss then
  makes LK start a torn RECOVERY although BOOTIMG is whole. The way there: apply, a refused
  restart, cancel, the next package queued and applied, the power lost in the write of its
  RECOVERY. ComesBack does not speak of it; RequestSettles names it as Stranded, and fails
  without that exception.
* The step that kills the supervisor (steps.rs:147) compares `/proc/<pid>/exe` with the
  path of a shell script, which never matches.
* A request that was refused because its record could not be written is answered ok when it
  is repeated, though nothing is on disk.
* A `Failed` intent without a watchdog blocks every later request of the boot (Stuck).
* reborn-supervise reads shutdown.json right after Reborn's end and not after its wait.
* y2_usb_reconnect takes its runtime-PM reference before it looks whether the PHY is ready and
  keeps it when refused (usb.c:1129): if the cable goes then, the clock runs on (KeptByRefusal).
* A classification between y2_usb_prepare and the charger's own prepare gives the bus clock
  back after it was gated, and nobody gates it for that sleep.
* While charging is inhibited or a fault is latched no cable is classified, so one that is
  plugged in then gets no USB session either.
* The owner's inhibit or ceiling clears `active` between a stalled CPU and the next poll; the
  missed deadline then latches no fault, although "An observed expiry or missed deadline latches
  a fault rather than restarting charging" (`docs/knowledge/m4-charging.md:124-125`).
* y2_charge_stop returns the error of its first attempt also when the second one succeeded.
* After a start and a stop that both failed `active` is false though an engine may run; the
  watchdog ends it.
* A CPU that stalls between the last look and the switch turns an engine on whose watchdog
  has expired (SwitchedOnLate); the next poll, or the next look at its flag, ends it.

* A link that is never set up is cancelled again at every pass while the first Disconnect is on
  its way (reconcile.rs:192), so one stuck headset takes the power cycle and the restart of BlueZ
  within a second; "cancel a stuck page" is meant to come "cheapest first" (ladder.rs:1).
* A sleep is answered ok by what the last look saw, also while a power-on is under way
  (requests.rs:332, reconcile.rs:316), although the answer is to come "when it is down"
  (`y2p-contract`, radiod.rs:63); such an answer is `told = "racing"`, for which RadioPromise has no
  quiet.
* A tap or the owner's switch during a sleep's power-down drops the clients that wait for it
  without an answer (requests.rs:85); Restore answers them.
* A connect is answered, its episode ends, and the link drops before a look: the drop is no change
  to the next look, so nothing is tried, parked or told.
* A wake before the adapter was seen off leaves a headset that drops later with the reason of the
  sleep, which starts no episode.

## 7 What is left out

Of the modelled parts: a Reborn that crashes while it is quiet; a shutdown that is requested
while the player sleeps (no wakeup event; it runs at the next maintenance return); the stage
lock and the commit point of a download that is told to stop; the observations behind a
health verdict; the failed-start screen and the boot gate; wall-clock comparisons; the
PHY's noirq callbacks, endpoints, DMA and the gadget; how much the charger charges and when it
calls that complete (y2_charge_decide, y2_charge_termination), driver removal and the power-off
handlers; Bluetooth's scan, codecs, streams and pairing (so not the pair that is answered after
the owner has disconnected the headset, which starts an episode, answers.rs:127-133); and what 2 lists as abstractions. Of the rest: the table in 1. Its daemons are concurrent programs and are
planned; the kernel's suspend sequence, the radio firmware and the build tools are not, since
what could be wrong in them is timing, hardware or data.

## 8 The plan

In the order of what a failure would cost the owner. Steps 1 to 6 are done.

1. `UpdateCore`, `UpdateSwitch`, the refinement and their proofs.
2. `ProductSleep`, `SleepPromise`: checked; all safety properties and the refinement proved.
3. `PowerShutdown`, `ShutdownPromise`: the same.
4. `UsbSession`, `DataLines`: the same.
5. `Charger`, `GuardedEngine`: the same.
6. `RadioController`, `RadioPromise`: the same.
7. A module that composes `PowerShutdown` with `ProductSleep`: a shutdown requested between
   battery_and_cable and the entry, and Reborn restarted while quiet. Run: one request, one
   sleep, one maintenance return; the intent ends, and no Reborn is left quiet by it.
8. `RadioArbiter`: requests, the 12 s wake hold, Bluetooth events and a sleep's quiesce;
   abstract specification: each radio follows its last wish. `RadioController` is then one of its
   parts, and gets the scan, pairing and the settling of codecs.
9. The staging of a package in detail: stage lock, SIGTERM before and after the commit
   point, make_room and the kept package, refining `StageCommit`.
10. The connectivity supervisor: helpers that die while they are replaced, recovery
   against Wi-Fi off.
11. Storage media and the gadget's mode: no write to a card other than the one named; the
    responder never serves a replaced mount.
12. The jobs of the service daemon: one of a kind, each reaped, backoff.
13. Reports and the reset: nothing twice, a reset that goes on or back.
14. The charge cycle: y2_charge_decide and its termination as functions, against the ceiling.
15. The safe replacement of the MTP responder.

Proofs still to come: those of steps 7 to 15. Of the modules that are written every safety
property and every refinement is proved.
