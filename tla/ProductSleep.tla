----------------------------- MODULE ProductSleep -----------------------------
(***************************************************************************)
(* Product sleep: `sleep request`, the detached helper it launches         *)
(* (suspend/helper.rs), its gates and durable quarantine guard             *)
(* (suspend/admission.rs) and the receipt (suspend/receipt.rs), between    *)
(* the owner's keys, the charger, other operations, Reborn and the kernel. *)
(*                                                                         *)
(* Reborn and the kernel are modelled by what the helper sees of them:     *)
(* Reborn answers sleep_prepare and sleep_restore, and while it is quiet   *)
(* only the helper lights its screen; the kernel refuses, sleeps or hangs, *)
(* and refuses a wakeup count that an event has overtaken.                 *)
(***************************************************************************)
EXTENDS Naturals

CONSTANTS
  Faults,       \* which things may go wrong, besides a reset
  MaxPresses,   \* bound: Power or RTC interrupts
  MaxEvents,    \* bound: other wakeup events, changes of the inhibitors, other owners
  MaxSilences,  \* bound: answers of Reborn that never arrive
  MaxResets     \* bound: power losses and watchdog resets

StaleRetries == 2   \* STALE_COUNT_RETRIES

Radios == {"wifi", "bluetooth"}
Locks == {"activity", "update", "maintenance"}             \* OPERATION_LOCKS
Unsafe == {"charger", "reserve", "shutdown"}               \* battery_and_cable refuses
Working == {"journal", "workload"}                         \* operation_state refuses

ASSUME SleepAssumption ==
  /\ Faults \subseteq {"receipt", "radio", "kernel", "signal", "lateAnswer",
                       "signalledPrepare", "busyReturn"}
  /\ MaxPresses \in Nat /\ MaxEvents \in Nat
  /\ MaxSilences \in Nat /\ MaxResets \in Nat

VARIABLES
  pc, job,                         \* the helper: where it is, struct Run
  held, owners,                    \* operation locks it holds, locks of others
  count, irqs, previous, before,   \* wakeup count, Power and RTC interrupts
  stale, timer,                    \* overtaken counts, the SPM timer woke
  guard, receipt, retry,           \* product-sleep-guard, suspend-last, -retry
  reborn, off,                     \* Reborn, radios switched off at runtime
  inhibitors,                      \* what the gates refuse
  unproven,                        \* history: a kernel attempt nobody proved undone
  events, silences, resets         \* bounds

helper == <<pc, job, held>>
wakes == <<count, irqs, previous, before, stale, timer>>
records == <<guard, receipt, retry>>
world == <<owners, inhibitors, events, resets>>
vars == <<helper, wakes, records, reborn, off, world, unproven, silences>>

-----------------------------------------------------------------------------
(* The helper's places and what it remembers. *)

Body == {"locks", "baseline", "prepare", "waiting", "quiesce", "loop", "check",
         "sync", "store", "enter", "entering", "asleep", "returned", "resumed"}
Restoring == {"screen", "radios", "complete", "clear"}
Refusals == {"none", "woken", "busy", "other"}

Job == [prepared : BOOLEAN, changed : BOOLEAN, pending : BOOLEAN,
        attempted : BOOLEAN, restored : BOOLEAN, answered : BOOLEAN,
        dark : BOOLEAN, result : 0..2, refusal : Refusals]

NewJob == [prepared |-> FALSE, changed |-> FALSE, pending |-> FALSE,
           attempted |-> FALSE, restored |-> FALSE, answered |-> FALSE,
           dark |-> FALSE, result |-> 0, refusal |-> "none"]

(* The receipt. *)

Active == {"requested", "preparing", "sleeping", "waking"}
Product == [state : Active \cup {"idle", "refused", "restored", "restore_failed"},
            mine : BOOLEAN]
Receipt == [product : Product, prepared : BOOLEAN, mode : {"none", "product"},
            newer : BOOLEAN]   \* newer than the guard

NoProduct == [state |-> "idle", mine |-> FALSE]
Fresh == [product |-> NoProduct, prepared |-> FALSE, mode |-> "none", newer |-> TRUE]

(* product: the product state as this boot reads it. *)
product(p) ==
  IF p.mine \/ p.state = "idle" THEN p
  ELSE IF p.state \in {"restored", "refused"} THEN NoProduct
  ELSE [p EXCEPT !.state = "restore_failed"]

Set(r, s) == [r EXCEPT !.product = [state |-> s, mine |-> @.mine], !.newer = TRUE]
Begin(s) == [Fresh EXCEPT !.product = [state |-> s, mine |-> TRUE]]

-----------------------------------------------------------------------------
Init ==
  /\ pc = "idle" /\ job = NewJob /\ held = {} /\ owners = {}
  /\ count = "none" /\ irqs = 0 /\ previous = 0 /\ before = 0
  /\ stale = 0 /\ timer = FALSE
  /\ guard = [pending |-> FALSE, entered |-> FALSE] /\ receipt = Fresh /\ retry = FALSE
  /\ reborn = [quiet |-> FALSE, lit |-> TRUE] /\ off = {}
  /\ inhibitors = {} /\ unproven = FALSE
  /\ events = 0 /\ silences = 0 /\ resets = 0

Goto(p) == pc' = p /\ UNCHANGED <<job, held>>
Guard(p, e) == /\ guard' = [pending |-> p, entered |-> e]
               /\ receipt' = [receipt EXCEPT !.newer = FALSE]

-----------------------------------------------------------------------------
(* The gates. *)

quarantined == guard.pending /\ guard.entered

(* A clean owner trial (y2-suspend) after the unproven attempt. *)
recovered ==
  /\ receipt.mode # "product" /\ receipt.newer
  /\ receipt.product.state = "restored" /\ receipt.product.mine

admission == ~retry /\ (quarantined => recovered)
(* admission clears the guard a clean trial has overtaken. *)
AdmissionClears ==
  guard' = IF admission /\ quarantined THEN [pending |-> FALSE, entered |-> FALSE]
           ELSE guard

battery_and_cable == inhibitors \cap Unsafe = {}

(* operation_state: the workload leases only count just before the entry. *)
operation_state(workloads) ==
  inhibitors \cap (IF workloads THEN Working ELSE {"journal"}) = {}

-----------------------------------------------------------------------------
(* How the body ends early (execute). *)

After(prepared) == IF prepared THEN "screen" ELSE "clear"

(* Whether the receipt could be written: the end is the same, the record is not. *)
Writes == IF "receipt" \in Faults THEN BOOLEAN ELSE {TRUE}

RefuseFrom(r, reason, prepared) ==
  \E written \in Writes :
    /\ receipt' = IF written THEN Set(r, "refused") ELSE r
    /\ job' = [job EXCEPT !.prepared = prepared, !.result = 2, !.refusal = reason,
                 !.restored = @ \/ (reason \in {"woken", "busy"} /\ written)]
    /\ pc' = After(prepared)
    /\ UNCHANGED held

Refuse(reason, prepared) == RefuseFrom(receipt, reason, prepared)

FailFrom(r, prepared) ==
  \E written \in Writes :
    /\ receipt' = IF written THEN Set(r, "restore_failed") ELSE r
    /\ job' = [job EXCEPT !.prepared = prepared, !.result = 1]
    /\ pc' = After(prepared)
    /\ UNCHANGED held

Stay(reason) == Refuse(reason, job.prepared)
Break == FailFrom(receipt, job.prepared)

-----------------------------------------------------------------------------
(* The request and the helper's start. *)

(* The screen went dark with the request; the helper inherits suspend.lock. *)
Request ==
  /\ pc = "idle" /\ ~reborn.quiet
  /\ reborn' = [reborn EXCEPT !.lit = FALSE]
  /\ admission /\ battery_and_cable /\ AdmissionClears
  /\ receipt' = [Begin("requested") EXCEPT !.mode = "product"]
  /\ pc' = "locks" /\ job' = NewJob
  /\ UNCHANGED <<held, wakes, retry, off, world, unproven, silences>>

(* A gate refuses, the record cannot be written or the helper not started.   *)
RequestRefused ==
  /\ pc = "idle" /\ ~reborn.quiet
  /\ reborn' = [reborn EXCEPT !.lit = FALSE]
  /\ AdmissionClears
  /\ \/ receipt' = Begin("refused")
     \/ "receipt" \in Faults /\ UNCHANGED receipt
  /\ UNCHANGED <<helper, wakes, retry, off, world, unproven, silences>>

(* operation_locks, the gates again, and the first wakeup count: an event    *)
(* that does not settle in two seconds refuses.                              *)
LocksTaken ==
  /\ pc = "locks" /\ owners = {}
  /\ admission /\ battery_and_cable /\ operation_state(FALSE)
  /\ AdmissionClears
  /\ held' = Locks /\ count' = "read" /\ stale' = 0
  /\ pc' = "baseline"
  /\ UNCHANGED <<job, irqs, previous, before, timer, receipt, retry, reborn, off,
                 world, unproven, silences>>

LocksBusy ==
  /\ pc = "locks" /\ owners # {}
  /\ Stay("other")
  /\ UNCHANGED <<wakes, guard, retry, reborn, off, world, unproven, silences>>

GatesRefuse ==
  /\ pc = "locks" /\ owners = {}
  /\ AdmissionClears
  /\ \/ ~(admission /\ battery_and_cable /\ operation_state(FALSE)) /\ Stay("other")
     \/ admission /\ battery_and_cable /\ operation_state(FALSE) /\ Stay("busy")
  /\ UNCHANGED <<wakes, retry, reborn, off, world, unproven, silences>>

(* The interrupts so far; from here on the guard says something is pending. *)
Baseline ==
  /\ pc = "baseline"
  /\ previous' = irqs
  /\ Guard(TRUE, FALSE)
  /\ job' = [job EXCEPT !.pending = TRUE] /\ pc' = "prepare"
  /\ UNCHANGED <<held, count, irqs, before, stale, timer, retry, reborn, off, world,
                 unproven, silences>>

BaselineFails ==
  /\ pc = "baseline" /\ "receipt" \in Faults
  /\ Break
  /\ UNCHANGED <<wakes, guard, retry, reborn, off, world, unproven, silences>>

-----------------------------------------------------------------------------
(* acknowledge_prepare: Reborn goes quiet, or says why it does not. *)

Quieted(quiet) == reborn' = [reborn EXCEPT !.quiet = quiet]

Prepared ==
  /\ pc = "prepare" /\ ~reborn.lit
  /\ Quieted(TRUE)
  /\ \/ /\ job' = [job EXCEPT !.prepared = TRUE] /\ pc' = "waiting" /\ UNCHANGED held
        /\ receipt' = [Set(receipt, "preparing") EXCEPT !.prepared = TRUE]
     \/ "receipt" \in Faults /\ Refuse("other", TRUE)
  /\ UNCHANGED <<wakes, guard, retry, off, world, unproven, silences>>

(* Playing, woken meanwhile, or not there: Reborn stays as it is. *)
PrepareRefused ==
  /\ pc = "prepare"
  /\ RefuseFrom(Begin("refused"), "other", FALSE)
  /\ UNCHANGED <<wakes, guard, retry, reborn, off, world, unproven, silences>>

(* Reborn went quiet, its answer came after the five seconds. *)
PrepareUnanswered ==
  /\ pc = "prepare" /\ ~reborn.lit /\ "lateAnswer" \in Faults
  /\ Quieted(TRUE) /\ RefuseFrom(Begin("refused"), "other", FALSE)
  /\ UNCHANGED <<wakes, guard, retry, off, world, unproven, silences>>

(* A SIGTERM while the answer is read. *)
PrepareSignalled ==
  /\ pc = "prepare" /\ ~reborn.lit /\ "signalledPrepare" \in Faults
  /\ Quieted(TRUE) /\ Break
  /\ UNCHANGED <<wakes, guard, retry, off, world, unproven, silences>>

-----------------------------------------------------------------------------
(* Waiting for the application, then the radios. *)

woken == irqs # previous

ApplicationReady ==
  /\ pc = "waiting"
  /\ receipt' = IF receipt.prepared THEN Set(receipt, "preparing") ELSE Begin("preparing")
  /\ job' = [job EXCEPT !.changed = TRUE] /\ pc' = "quiesce"
  /\ UNCHANGED <<held, wakes, guard, retry, reborn, off, world, unproven, silences>>

Quiesce(r) ==
  /\ pc = "quiesce" /\ r \notin off
  /\ r = "bluetooth" => "wifi" \in off
  /\ off' = off \cup {r}
  /\ UNCHANGED <<helper, wakes, records, reborn, world, unproven, silences>>

(* Every wait of these two places asks for a Power or RTC interrupt. *)
WakeNoticed ==
  /\ pc \in {"waiting", "quiesce"} /\ woken
  /\ Stay("woken")
  /\ UNCHANGED <<wakes, guard, retry, reborn, off, world, unproven, silences>>

(* A radio or the connectivity chip does not go off in its time. *)
QuiesceFails ==
  /\ pc = "quiesce" /\ "radio" \in Faults
  /\ IF off = Radios THEN Stay("other") ELSE Break
  /\ UNCHANGED <<wakes, guard, retry, reborn, off, world, unproven, silences>>

ChipOff ==
  /\ pc = "quiesce" /\ off = Radios
  /\ Goto("loop")
  /\ UNCHANGED <<wakes, records, reborn, off, world, unproven, silences>>

(* A SIGTERM or SIGINT, seen between two steps of the body. *)
Signalled ==
  /\ pc \in {"locks", "waiting", "quiesce", "loop", "sync", "returned"} /\ "signal" \in Faults
  /\ Break
  /\ UNCHANGED <<wakes, guard, retry, reborn, off, world, unproven, silences>>

-----------------------------------------------------------------------------
(* One pass of the loop before the kernel. *)

ReadCount ==
  /\ pc = "loop"
  /\ \/ /\ count' = IF count = "none" THEN "read" ELSE count
        /\ Goto("check") /\ UNCHANGED receipt
     \/ count = "none" /\ UNCHANGED count /\ \E reason \in {"busy", "other"} : Stay(reason)
  /\ UNCHANGED <<irqs, previous, before, stale, timer, guard, retry, reborn, off,
                 world, unproven, silences>>

(* Slip: the interrupts are not read again once the count is. *)
CheckPassesUnwatched ==
  /\ pc = "check" /\ battery_and_cable /\ operation_state(TRUE)
  /\ receipt' = Set(receipt, "preparing")
  /\ Goto("sync")
  /\ UNCHANGED <<wakes, guard, retry, reborn, off, world, unproven, silences>>

CheckPasses ==
  /\ pc = "check" /\ ~woken /\ battery_and_cable /\ operation_state(TRUE)
  /\ receipt' = Set(receipt, "preparing")
  /\ Goto("sync")
  /\ UNCHANGED <<wakes, guard, retry, reborn, off, world, unproven, silences>>

CheckRefuses ==
  /\ pc = "check"
  /\ \/ woken /\ Stay("woken")
     \/ ~woken /\ ~(battery_and_cable /\ operation_state(TRUE)) /\ Stay("other")
  /\ UNCHANGED <<wakes, guard, retry, reborn, off, world, unproven, silences>>

(* Slip: the guard is written at the baseline only, before the entry is known. *)
SyncUnguarded ==
  /\ pc = "sync"
  /\ before' = irqs
  /\ receipt' = Set(receipt, "sleeping")
  /\ job' = [job EXCEPT !.pending = TRUE] /\ pc' = "store"
  /\ UNCHANGED <<held, count, irqs, previous, stale, timer, guard, retry, reborn, off,
                 world, unproven, silences>>

(* sync, the record of the entry with the interrupts so far, and the guard.  *)
Sync ==
  /\ pc = "sync"
  /\ before' = irqs
  /\ guard' = [pending |-> TRUE, entered |-> TRUE]
  /\ receipt' = [Set(receipt, "sleeping") EXCEPT !.newer = FALSE]
  /\ job' = [job EXCEPT !.pending = TRUE] /\ pc' = "store"
  /\ UNCHANGED <<held, count, irqs, previous, stale, timer, retry, reborn, off, world,
                 unproven, silences>>

SyncFails ==
  /\ pc = "sync"
  /\ \/ Break
     \/ "receipt" \in Faults /\ FailFrom(Set(receipt, "sleeping"), TRUE)
  /\ UNCHANGED <<wakes, guard, retry, reborn, off, world, unproven, silences>>

(* The kernel takes the count unless an event has overtaken it. *)
StoreCount ==
  /\ pc = "store" /\ count = "read"
  /\ stale' = 0 /\ Goto("enter")
  /\ UNCHANGED <<count, irqs, previous, before, timer, records, reborn, off, world,
                 unproven, silences>>

(* Slip: the retries of an overtaken count are not limited. *)
StoreStaleForever ==
  /\ pc = "store" /\ count = "stale"
  /\ stale' = stale + 1 /\ count' = "none"
  /\ Goto("loop") /\ UNCHANGED receipt
  /\ UNCHANGED <<irqs, previous, before, timer, guard, retry, reborn, off, world,
                 unproven, silences>>

StoreStale ==
  /\ pc = "store" /\ count = "stale"
  /\ IF stale = StaleRetries
       THEN Stay("busy") /\ UNCHANGED <<stale, count>>
       ELSE /\ stale' = stale + 1 /\ count' = "none"
            /\ Goto("loop") /\ UNCHANGED receipt
  /\ UNCHANGED <<irqs, previous, before, timer, guard, retry, reborn, off, world,
                 unproven, silences>>

-----------------------------------------------------------------------------
(* enter_kernel: the backstop, the blocking write, the backstop again. *)

Enter ==
  /\ pc = "enter"
  /\ job' = [job EXCEPT !.attempted = TRUE, !.restored = FALSE] /\ pc' = "entering"
  /\ unproven' = TRUE
  /\ UNCHANGED <<held, wakes, records, reborn, off, world, silences>>

(* The kernel refuses and undid it itself: EBUSY and EAGAIN, a notifier     *)
(* before the freeze or a device in its suspend step (these two wait).      *)
KernelRefuses ==
  /\ pc = "entering"
  /\ \E written \in Writes :
       /\ receipt' = IF written THEN Set(receipt, "refused") ELSE receipt
       /\ job' = [job EXCEPT !.result = 2, !.refusal = "other", !.restored = TRUE]
       /\ pc' = "screen"
  /\ retry' \in {retry, TRUE}
  /\ unproven' = FALSE
  /\ UNCHANGED <<held, wakes, guard, reborn, off, world, silences>>

(* Any other error: what the kernel left behind is not proven. *)
KernelFails ==
  /\ pc = "entering" /\ "kernel" \in Faults
  /\ Break
  /\ UNCHANGED <<wakes, guard, retry, reborn, off, world, unproven, silences>>

(* An event after the count was stored aborts the entry. *)
KernelSleeps ==
  /\ pc = "entering" /\ count = "read"
  /\ Goto("asleep")
  /\ UNCHANGED <<wakes, records, reborn, off, world, unproven, silences>>

(* The SPM timer of 30 minutes, an event, or both. *)
KernelWakes ==
  /\ pc = "asleep"
  /\ timer' \in {TRUE, count = "read"}
  /\ Goto("returned")
  /\ UNCHANGED <<count, irqs, previous, before, stale, records, reborn, off, world,
                 unproven, silences>>

(* The read that completes the handshake. *)
CompleteCount ==
  /\ pc = "returned"
  /\ \/ Goto("resumed") /\ UNCHANGED receipt
     \/ "busyReturn" \in Faults /\ Stay("busy")
  /\ UNCHANGED <<wakes, guard, retry, reborn, off, world, unproven, silences>>

(* Slip: the SPM's word is enough, the interrupt counts are not compared. *)
timer_alone == timer

timer_only == timer /\ before = irqs

(* kernel_resumed is recorded: proven, it is a timer's or the end of the    *)
(* sleep.  After a timer's the next pass reads a fresh count.               *)
Resumed ==
  /\ pc = "resumed"
  /\ receipt' = Set(receipt, "waking")
  /\ job' = [job EXCEPT !.restored = TRUE] /\ unproven' = FALSE
  /\ UNCHANGED held
  /\ IF timer_only
       THEN previous' = irqs /\ count' = "none" /\ pc' = "loop"
       ELSE UNCHANGED <<previous, count>> /\ pc' = "screen"
  /\ UNCHANGED <<irqs, before, stale, timer, guard, retry, reborn, off, world, silences>>

(* kernel_exit_not_proven, or a receipt that cannot be written. *)
ResumedUnproven ==
  /\ pc = "resumed" /\ Faults \cap {"kernel", "receipt"} # {}
  /\ Break
  /\ UNCHANGED <<wakes, guard, retry, reborn, off, world, unproven, silences>>

-----------------------------------------------------------------------------
(* finally: screen, radios, completion, guard. *)

(* Slip: every restore lights the screen. *)
darkNever == FALSE

dark == job.result = 2 /\ job.refusal # "woken"

(* Reborn restores; its answer may not arrive, whether it restored or not. *)
Ask(isDark, answered) ==
  /\ \/ answered /\ UNCHANGED silences
     \/ ~answered /\ silences < MaxSilences /\ silences' = silences + 1
  /\ \/ reborn' = [quiet |-> FALSE, lit |-> reborn.lit \/ ~isDark]
     \/ ~answered /\ UNCHANGED reborn

(* The screen first; the activity lock is free once Reborn was asked. *)
Screen ==
  /\ pc = "screen"
  /\ \E answered \in BOOLEAN :
       /\ Ask(dark, answered)
       /\ job' = [job EXCEPT !.answered = answered, !.dark = dark]
  /\ held' = held \ {"activity"} /\ pc' = "radios"
  /\ UNCHANGED <<wakes, records, off, world, unproven>>

(* restore_radios: the first failure ends it. *)
RadiosRestored ==
  /\ pc = "radios"
  /\ receipt' = IF receipt.product.state = "refused" THEN Set(receipt, "refused")
                ELSE Set(receipt, "waking")
  /\ off' = IF job.changed THEN {} ELSE off
  /\ Goto("complete")
  /\ UNCHANGED <<wakes, guard, retry, reborn, world, unproven, silences>>

(* Slip: a radio that did not come back is not a failed sleep. *)
RestoreRadiosFailsUnnoticed ==
  /\ pc = "radios" /\ "radio" \in Faults /\ job.changed
  /\ UNCHANGED off
  /\ receipt' = Set(receipt, "waking") /\ Goto("complete")
  /\ UNCHANGED <<wakes, guard, retry, reborn, world, unproven, silences>>

RestoreRadiosFails ==
  /\ pc = "radios"
  /\ \/ "receipt" \in Faults /\ UNCHANGED <<receipt, off>>
     \/ /\ "radio" \in Faults /\ job.changed
        /\ receipt' = IF receipt.product.state = "refused" THEN Set(receipt, "refused")
                      ELSE Set(receipt, "waking")
        /\ \E broken \in Radios : off' = off \ {r \in Radios : r = "wifi" /\ broken # r}
  /\ job' = [job EXCEPT !.result = 1] /\ pc' = "complete"
  /\ UNCHANGED <<held, wakes, guard, retry, reborn, world, unproven, silences>>

(* The state complete_result_N leaves. *)
completed(answered) ==
  IF receipt.product.state = "refused" THEN "refused"
  ELSE IF job.result = 0 /\ answered THEN "restored" ELSE "restore_failed"

(* Slip: Reborn is asked only once. *)
CompleteUnasked ==
  /\ pc = "complete"
  /\ receipt' = Set(receipt, completed(job.answered))
  /\ job' = [job EXCEPT !.result = IF ~job.answered /\ @ = 0 THEN 1 ELSE @]
  /\ pc' = "clear"
  /\ UNCHANGED <<held, wakes, guard, retry, reborn, off, world, unproven, silences>>

(* Reborn is asked again when its first answer did not come, also when the  *)
(* completion cannot be recorded.                                           *)
Complete ==
  /\ pc = "complete"
  /\ \E answered \in IF job.answered THEN {TRUE} ELSE BOOLEAN, written \in Writes :
       /\ IF job.answered THEN UNCHANGED <<reborn, silences>> ELSE Ask(job.dark, answered)
       /\ receipt' = IF written THEN Set(receipt, completed(answered)) ELSE receipt
       /\ job' = [job EXCEPT !.answered = answered,
                    !.result = IF ~written \/ (~answered /\ @ = 0) THEN 1 ELSE @]
  /\ pc' = "clear"
  /\ UNCHANGED <<held, wakes, guard, retry, off, world, unproven>>

(* Slip: every run that ends clears its guard. *)
ClearAlways ==
  /\ pc = "clear"
  /\ IF job.pending THEN Guard(FALSE, FALSE) ELSE UNCHANGED <<guard, receipt>>
  /\ held' = {} /\ pc' = "idle"
  /\ UNCHANGED <<job, wakes, retry, reborn, off, world, unproven, silences>>

(* Slip: a failure before the kernel leaves the guard pending. *)
ClearProven ==
  /\ pc = "clear"
  /\ IF job.pending /\ job.restored THEN Guard(FALSE, FALSE)
     ELSE UNCHANGED <<guard, receipt>>
  /\ held' = {} /\ pc' = "idle"
  /\ UNCHANGED <<job, wakes, retry, reborn, off, world, unproven, silences>>

(* The guard is cleared unless a kernel attempt is left unproven; the locks *)
(* are released.                                                            *)
Clear ==
  /\ pc = "clear"
  /\ \/ job.pending /\ (job.restored \/ ~job.attempted) /\ Guard(FALSE, FALSE)
     \/ ~(job.pending /\ (job.restored \/ ~job.attempted)) /\ UNCHANGED <<guard, receipt>>
     \/ "receipt" \in Faults /\ UNCHANGED <<guard, receipt>>
  /\ held' = {} /\ pc' = "idle"
  /\ UNCHANGED <<job, wakes, retry, reborn, off, world, unproven, silences>>

-----------------------------------------------------------------------------
(* The owner, the charger, other operations, resets. *)

Overtaken == count' = IF count = "read" THEN "stale" ELSE count

(* Power or the RTC alarm: Reborn lights its screen unless it is quiet. *)
Press ==
  /\ irqs < MaxPresses
  /\ irqs' = irqs + 1 /\ Overtaken
  /\ reborn' = IF reborn.quiet THEN reborn ELSE [reborn EXCEPT !.lit = TRUE]
  /\ UNCHANGED <<helper, previous, before, stale, timer, records, off, world,
                 unproven, silences>>

(* The cable is a wakeup event, as is a notification of the battery. *)
Event ==
  /\ events < MaxEvents /\ events' = events + 1
  /\ \/ UNCHANGED inhibitors
     \/ inhibitors' = inhibitors \cup {"charger"}
     \/ inhibitors' = inhibitors \ {"charger"}
  /\ Overtaken
  /\ UNCHANGED <<helper, irqs, previous, before, stale, timer, records, reborn, off,
                 owners, resets, unproven, silences>>

(* The battery runs low, a shutdown is requested, a workload takes a lease;  *)
(* an update is queued or a maintenance left pending only under their locks. *)
(* Nothing runs while asleep.                                                *)
Inhibit ==
  /\ pc # "asleep" /\ events < MaxEvents /\ events' = events + 1
  /\ \E i \in (Unsafe \cup Working) \ {"charger"} :
       \/ /\ i = "journal" => owners \cap {"update", "maintenance"} # {}
          /\ inhibitors' = inhibitors \cup {i}
       \/ inhibitors' = inhibitors \ {i}
  /\ UNCHANGED <<helper, wakes, records, reborn, off, owners, resets, unproven, silences>>

(* Another operation takes its lock, or ends. *)
Operate ==
  /\ pc # "asleep" /\ events < MaxEvents /\ events' = events + 1
  /\ \E l \in Locks :
       \/ l \in owners /\ owners' = owners \ {l}
       \/ l \notin owners \cup held /\ owners' = owners \cup {l}
  /\ UNCHANGED <<helper, wakes, records, reborn, off, inhibitors, resets, unproven,
                 silences>>

RetryExpires ==
  /\ retry /\ pc # "asleep"
  /\ retry' = FALSE
  /\ UNCHANGED <<helper, wakes, guard, receipt, reborn, off, world, unproven, silences>>

(* y2-suspend --owner-qualify: only its end is a step.  One that passed      *)
(* proves the kernel's sleep on this image, with Reborn and the radios back. *)
OwnerTrial ==
  /\ pc = "idle" /\ "activity" \notin owners
  /\ \/ /\ receipt' = Begin("restored") /\ unproven' = FALSE
        /\ reborn' = [quiet |-> FALSE, lit |-> TRUE] /\ off' = {}
     \/ receipt' = Begin("restore_failed") /\ UNCHANGED <<reborn, off, unproven>>
  /\ UNCHANGED <<helper, wakes, guard, retry, world, silences>>

(* The power or a watchdog: everything but Y2DATA starts anew. *)
Reset ==
  /\ resets < MaxResets /\ resets' = resets + 1
  /\ pc' = "idle" /\ job' = NewJob /\ held' = {}
  /\ count' = "none" /\ stale' = 0 /\ timer' = FALSE
  /\ receipt' = [receipt EXCEPT !.product.mine = FALSE]
  /\ retry' = FALSE /\ owners' = {} /\ off' = {}
  /\ reborn' = [quiet |-> FALSE, lit |-> TRUE]
  /\ inhibitors' = inhibitors \ {"workload", "shutdown"}
  /\ UNCHANGED <<irqs, previous, before, guard, events, unproven, silences>>

-----------------------------------------------------------------------------
Start == Request \/ RequestRefused

Admit == LocksTaken \/ LocksBusy \/ GatesRefuse \/ Baseline \/ BaselineFails

Prepare == \/ Prepared \/ PrepareRefused \/ PrepareUnanswered \/ PrepareSignalled
           \/ ApplicationReady

Silence == \/ \E r \in Radios : Quiesce(r)
           \/ WakeNoticed \/ QuiesceFails \/ ChipOff

Pass == \/ ReadCount \/ CheckPasses \/ CheckRefuses
        \/ Sync \/ SyncFails \/ StoreCount \/ StoreStale

Kernel == \/ Enter \/ KernelRefuses \/ KernelFails \/ KernelSleeps \/ KernelWakes
          \/ CompleteCount \/ Resumed \/ ResumedUnproven

Finally == Screen \/ RadiosRestored \/ RestoreRadiosFails \/ Complete \/ Clear

Helper == Admit \/ Prepare \/ Silence \/ Pass \/ Kernel \/ Finally

World == Press \/ Event \/ Inhibit \/ Operate \/ RetryExpires \/ OwnerTrial \/ Reset

Next == Start \/ Helper \/ Signalled \/ World

Spec == Init /\ [][Next]_vars

(* The helper is a process that nothing stops for good: each of its waits    *)
(* has a deadline, and the SPM timer ends every sleep.                       *)
Live == Spec /\ WF_vars(Helper)

-----------------------------------------------------------------------------
(* Properties. *)

TypeOK ==
  /\ pc \in {"idle"} \cup Body \cup Restoring
  /\ job \in Job
  /\ held \subseteq Locks /\ owners \subseteq Locks
  /\ count \in {"none", "read", "stale"}
  /\ irqs \in Nat /\ previous \in Nat /\ before \in Nat
  /\ stale \in 0..StaleRetries /\ timer \in BOOLEAN
  /\ guard \in [pending : BOOLEAN, entered : BOOLEAN]
  /\ receipt \in Receipt /\ retry \in BOOLEAN
  /\ reborn \in [quiet : BOOLEAN, lit : BOOLEAN] /\ off \subseteq Radios
  /\ inhibitors \subseteq Unsafe \cup Working /\ unproven \in BOOLEAN
  /\ events \in Nat /\ silences \in Nat /\ resets \in Nat

(* While a kernel attempt is not known to be undone or completed, the durable *)
(* guard refuses this image's sleep, whatever failed or reset in between.     *)
QuarantineHolds == unproven => quarantined

(* The kernel is entered only when every earlier attempt is proven: "any      *)
(* other error stays the product failure that keeps this image quarantined"   *)
(* (helper.rs, kernel_refusal).                                               *)
NoBlindRepeat == [][pc = "enter" /\ pc' = "entering" => ~unproven]_vars

(* A run that ends leaves its guard only for an attempt it could not prove: a *)
(* refusal or a failure before the kernel never costs the next sleep.         *)
QuarantineIsEarned ==
  [][pc = "clear" /\ pc' = "idle" /\ job.pending /\ resets' = resets
       => (guard'.pending <=> unproven)]_vars

(* The kernel sleeps only on a quiet, dark player with both radios off, every *)
(* operation lock its own, no Power or RTC interrupt since the baseline, the  *)
(* cable idle and no update or maintenance under way.                         *)
SleepsUnwatched ==
  [][pc = "entering" /\ pc' = "asleep" =>
       /\ reborn.quiet /\ ~reborn.lit /\ off = Radios
       /\ held = Locks /\ owners = {}
       /\ irqs = previous /\ inhibitors \cap {"charger", "journal"} = {}]_vars

(* Reborn is never left quiet by a run that lost at most one answer of        *)
(* sleep_restore (helper.rs finally).  One that goes quiet without the helper *)
(* hearing of it, by a late or interrupted answer of sleep_prepare, is not    *)
(* asked again (SignalNeverLeavesQuiet).                                      *)
RebornReturns == pc = "idle" /\ silences <= 1 => ~reborn.quiet

(* F47: a refused sleep leaves the screen dark unless Power or RTC lit it.    *)
DarkUnlessWoken ==
  pc = "clear" /\ job.result = 2 /\ job.prepared /\ reborn.lit => irqs # previous

(* What the end of a run reports is so.  A radio that did not come back is a *)
(* failed sleep; and "a reset is never promoted into a resume" (sleep.rs):    *)
(* restored is read only of a run of this boot whose kernel return is proven, *)
(* with the radios on and Reborn awake.                                       *)
ReportIsTrue ==
  pc = "idle" =>
    /\ job.changed /\ off # {} => job.result = 1
    /\ product(receipt.product).state = "restored" =>
         receipt.product.mine /\ ~reborn.quiet /\ off = {} /\ ~unproven

(* A press that reaches a quiet player ends its sleep, however often the      *)
(* maintenance timer returns, unless two answers of Reborn are lost.          *)
WakeEndsSleep == reborn.quiet /\ irqs # previous ~> ~reborn.quiet \/ silences > 1

-----------------------------------------------------------------------------
(* What the comments of helper.rs say, and the code does not do. *)

(* A signal never leaves Reborn quiesced (helper.rs, head comment).           *)
SignalNeverLeavesQuiet == pc = "idle" /\ silences = 0 => ~reborn.quiet

=============================================================================
