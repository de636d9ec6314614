------------------------ MODULE ProductSleepRunProofs ------------------------
(***************************************************************************)
(* What one run of the sleep helper owes its owner, for every choice of    *)
(* ProductSleep's bounds: the kernel sleeps on a silent, dark, unwatched   *)
(* player only, the screen, the radios and Reborn come back or the result  *)
(* says that they did not, and the record tells the truth.                 *)
(*                                                                         *)
(* Each claim is about the end of a run and needs what the run did on its  *)
(* way there; RunSound says it for every place of the helper.              *)
(***************************************************************************)
EXTENDS ProductSleepProofs, SleepRefinement

(* The places of a run: before Reborn is asked, with Reborn quiet, and with   *)
(* both radios off.                                                          *)
Early    == {"locks", "baseline", "prepare"}
Silenced == Body \ Early
Passing  == Silenced \ {"waiting", "quiesce"}
Entry    == {"sync", "store", "enter", "entering"}

(* What a run knows of itself: it remembers that Reborn went quiet and that   *)
(* the radios were touched, and has no reason to refuse until it refuses.    *)
Remembered ==
  /\ pc \in Early => ~job.prepared /\ ~job.changed
  /\ pc \in Silenced => job.prepared /\ (job.changed \/ pc = "waiting")
  /\ pc \in Body => job.refusal # "woken"
  /\ pc = "screen" => job.prepared

(* Until the screen is restored, Reborn is quiet and dark.                   *)
Hushed == pc \in Silenced \cup {"screen"} => reborn.quiet /\ ~reborn.lit

(* The operations the helper waits for cannot start under its locks.         *)
Owned == pc \in Body \ {"locks"} => held = Locks /\ owners = {} /\ "journal" \notin inhibitors

RadiosOff == pc \in Passing => off = Radios

(* A count that no event has overtaken since it was checked stands for an    *)
(* idle cable and no press.                                                  *)
Unwoken == pc \in Entry /\ count = "read" => irqs = previous /\ "charger" \notin inhibitors

Presses ==
  /\ previous <= irqs
  /\ pc \in Restoring /\ job.refusal = "woken" => irqs # previous

(* Radios that stay off fail the run.                                        *)
OffFails ==
  pc \in {"idle", "complete", "clear"} /\ job.changed /\ off # {} => job.result = 1

(* A run that is still a success has slept, proven.                          *)
Slept == pc \in Restoring /\ job.result = 0 => job.changed /\ ~unproven

(* The screen of a refused run: dark as its first restore was, until a press. *)
ScreenKept ==
  /\ pc \in {"radios", "complete"} /\ job.result = 2 => (job.dark <=> job.refusal # "woken")
  /\ pc \in {"radios", "complete", "clear"} /\ job.result = 2 /\ job.prepared /\ reborn.lit
       => irqs # previous

(* An answer of Reborn is one that it is awake.                              *)
Answers == pc \in {"radios", "complete"} /\ job.answered => ~reborn.quiet

Restored == receipt.product.state = "restored" /\ receipt.product.mine
RestoredTruly ==
  Restored => pc \in {"idle", "clear"} /\ ~reborn.quiet /\ off = {} /\ ~unproven

Facts ==
  /\ Remembered /\ Hushed /\ Owned /\ RadiosOff /\ Unwoken
  /\ Presses /\ OffFails /\ Slept /\ ScreenKept /\ Answers /\ RestoredTruly

RunSound == TypeOK /\ Facts

(* The places are sets of names: every proof sees them.                      *)
USE DEF Early, Silenced, Passing, Entry, Body, Restoring

-----------------------------------------------------------------------------
(* How a run ends early.                                                     *)

(* What a refusal leaves of the run and of its record.                       *)
LEMMA RefusedRun ==
  ASSUME job \in Job, NEW r \in Receipt, NEW reason \in Refusals, NEW prepared \in BOOLEAN,
         RefuseFrom(r, reason, prepared)
  PROVE  /\ pc' = After(prepared)
         /\ job'.prepared = prepared /\ job'.changed = job.changed
         /\ job'.result = 2 /\ job'.refusal = reason
         /\ job'.attempted = job.attempted /\ (job.restored => job'.restored)
         /\ receipt' = r \/ receipt'.product.state = "refused"
<1>1. PICK written \in BOOLEAN :
        /\ receipt' = IF written THEN Set(r, "refused") ELSE r
        /\ job' = [job EXCEPT !.prepared = prepared, !.result = 2, !.refusal = reason,
                     !.restored = @ \/ (reason \in {"woken", "busy"} /\ written)]
        /\ pc' = After(prepared)
  BY WritesType DEF RefuseFrom
<1>2. Set(r, "refused").product.state = "refused"
  BY SetType DEF States
<1>3. job'.restored = (job.restored \/ (reason \in {"woken", "busy"} /\ written))
  BY <1>1 DEF Job
<1>4. job.restored => job'.restored
  BY <1>3, Zenon
<1> QED
  BY <1>1, <1>2, <1>4 DEF Job

(* The same of a failure.                                                    *)
LEMMA FailedRun ==
  ASSUME job \in Job, NEW r \in Receipt, NEW prepared \in BOOLEAN, FailFrom(r, prepared)
  PROVE  /\ pc' = After(prepared)
         /\ job'.prepared = prepared /\ job'.changed = job.changed
         /\ job'.result = 1 /\ job'.refusal = job.refusal
         /\ job'.attempted = job.attempted /\ (job.restored => job'.restored)
         /\ receipt' = r \/ receipt'.product.state = "restore_failed"
<1>1. PICK written \in BOOLEAN :
        /\ receipt' = IF written THEN Set(r, "restore_failed") ELSE r
        /\ job' = [job EXCEPT !.prepared = prepared, !.result = 1]
        /\ pc' = After(prepared)
  BY WritesType DEF FailFrom
<1>2. Set(r, "restore_failed").product.state = "restore_failed"
  BY SetType DEF States
<1> QED
  BY <1>1, <1>2 DEF Job

(* An early end with Reborn as it was keeps every fact.                      *)
LEMMA EndSound ==
  ASSUME RunSound, pc \in Body, UNCHANGED <<irqs, previous, reborn, off, unproven>>,
         pc' = After(job.prepared), job'.prepared = job.prepared,
         job'.changed = job.changed, job'.result \in {1, 2},
         job'.refusal = "woken" => irqs # previous,
         ~Restored'
  PROVE  Facts'
<1>1. pc' = "screen" \/ (pc' = "clear" /\ ~job.prepared)
  BY DEF After
<1>2. job.prepared => pc \in Silenced
  BY DEF RunSound, Facts, Remembered
<1>3. ~job.prepared => ~job.changed
  BY DEF RunSound, Facts, Remembered
<1>4. CASE pc' = "screen" /\ job.prepared
  <2>1. reborn.quiet /\ ~reborn.lit
    BY <1>2, <1>4 DEF RunSound, Facts, Hushed
  <2>2. Remembered' /\ Hushed'
    BY <1>4, <2>1 DEF Remembered, Hushed
  <2>3. Owned' /\ RadiosOff' /\ Unwoken' /\ OffFails' /\ ScreenKept' /\ Answers'
    BY <1>4 DEF Owned, RadiosOff, Unwoken, OffFails, ScreenKept, Answers
  <2>4. Presses'
    BY DEF RunSound, Facts, Presses
  <2>5. Slept'
    BY DEF Slept
  <2>6. RestoredTruly'
    BY DEF RestoredTruly
  <2> QED
    BY <2>2, <2>3, <2>4, <2>5, <2>6 DEF Facts
<1>5. CASE pc' = "clear" /\ ~job.prepared
  BY <1>3, <1>5
     DEF RunSound, Facts, Remembered, Hushed, Owned, RadiosOff, Unwoken, Presses,
         OffFails, Slept, ScreenKept, Answers, Restored, RestoredTruly
<1> QED
  BY <1>1, <1>4, <1>5 DEF After

(* While the body runs, no record says restored.                             *)
LEMMA NotRestored == ASSUME RunSound, pc \in Body PROVE ~Restored
  BY DEF RunSound, Facts, RestoredTruly

LEMMA StaySound ==
  ASSUME RunSound, pc \in Body, UNCHANGED <<irqs, previous, reborn, off, unproven>>,
         NEW reason \in Refusals, Stay(reason), reason = "woken" => irqs # previous
  PROVE  Facts'
<1>1. job \in Job /\ receipt \in Receipt /\ job.prepared \in BOOLEAN
  BY DEF RunSound, TypeOK, Job
<1>2. /\ pc' = After(job.prepared) /\ job'.prepared = job.prepared
      /\ job'.changed = job.changed /\ job'.result = 2 /\ job'.refusal = reason
      /\ receipt' = receipt \/ receipt'.product.state = "refused"
  BY <1>1, RefusedRun DEF Stay, Refuse
<1>3. ~Restored'
  BY <1>2, NotRestored DEF Restored
<1> QED
  BY <1>2, <1>3, EndSound

LEMMA BreakSound ==
  ASSUME RunSound, pc \in Body, UNCHANGED <<irqs, previous, reborn, off, unproven>>, Break
  PROVE  Facts'
<1>1. job \in Job /\ receipt \in Receipt /\ job.prepared \in BOOLEAN
  BY DEF RunSound, TypeOK, Job
<1>2. /\ pc' = After(job.prepared) /\ job'.prepared = job.prepared
      /\ job'.changed = job.changed /\ job'.result = 1 /\ job'.refusal = job.refusal
      /\ receipt' = receipt \/ receipt'.product.state = "restore_failed"
  BY <1>1, FailedRun DEF Break
<1>3. ~Restored'
  BY <1>2, NotRestored DEF Restored
<1>4. job'.refusal # "woken"
  BY <1>2 DEF RunSound, Facts, Remembered
<1> QED
  BY <1>2, <1>3, <1>4, EndSound

(* A record that is begun anew or marked active does not say restored.       *)
LEMMA ActiveRecord ==
  ASSUME NEW r \in Receipt, NEW s \in States \ {"restored"}
  PROVE  Set(r, s).product.state # "restored" /\ Begin(s).product.state # "restored"
  BY SetType, BeginType

-----------------------------------------------------------------------------
(* Every step keeps every fact.                                              *)

LEMMA StartSound == RunSound /\ Start => Facts'
<1>1. ASSUME RunSound, Request PROVE Facts'
  <2>1. receipt'.product.state = "requested"
    <3>1. Begin("requested") \in Receipt /\ Begin("requested").product.state = "requested"
      BY BeginType DEF States, Active
    <3> QED
      BY <1>1, <3>1, ReceiptFields DEF Request
  <2> QED
    BY <1>1, <2>1
       DEF Request, NewJob, world, wakes, RunSound, Facts, Remembered, Hushed, Owned,
           RadiosOff, Unwoken, Presses, OffFails, Slept, ScreenKept, Answers, Restored,
           RestoredTruly
<1>2. ASSUME RunSound, RequestRefused PROVE Facts'
  <2>1. receipt' = receipt \/ receipt'.product.state = "refused"
    BY <1>2, BeginType DEF RequestRefused, States
  <2>2. pc = "idle" /\ pc' = "idle" /\ job' = job /\ reborn'.quiet = reborn.quiet
    BY <1>2 DEF RequestRefused, helper, RunSound, TypeOK
  <2> QED
    BY <1>2, <2>1, <2>2
       DEF RequestRefused, helper, world, wakes, RunSound, Facts, Remembered, Hushed,
           Owned, RadiosOff, Unwoken, Presses, OffFails, Slept, ScreenKept, Answers,
           Restored, RestoredTruly
<1> QED
  BY <1>1, <1>2 DEF Start

LEMMA AdmitSound == RunSound /\ Admit => Facts'
<1> USE DEF world, wakes
<1>1. ASSUME RunSound, LocksTaken PROVE Facts'
  BY <1>1
     DEF LocksTaken, operation_state, RunSound, Facts, Remembered, Hushed, Owned,
         RadiosOff, Unwoken, Presses, OffFails, Slept, ScreenKept, Answers, Restored,
         RestoredTruly
<1>2. ASSUME RunSound, LocksBusy PROVE Facts'
  BY <1>2, StaySound DEF LocksBusy, Refusals
<1>3. ASSUME RunSound, GatesRefuse PROVE Facts'
  BY <1>3, StaySound DEF GatesRefuse, Refusals
<1>4. ASSUME RunSound, Baseline PROVE Facts'
  <2>1. receipt'.product = receipt.product
    BY <1>4, GuardType DEF Baseline, RunSound, TypeOK
  <2>2. /\ job'.prepared = job.prepared /\ job'.changed = job.changed
        /\ job'.refusal = job.refusal
    BY <1>4 DEF Baseline, RunSound, TypeOK, Job
  <2> QED
    BY <1>4, <2>1, <2>2
       DEF Baseline, RunSound, TypeOK, Facts, Remembered, Hushed, Owned, RadiosOff,
           Unwoken, Presses, OffFails, Slept, ScreenKept, Answers, Restored,
           RestoredTruly
<1>5. ASSUME RunSound, BaselineFails PROVE Facts'
  BY <1>5, BreakSound DEF BaselineFails
<1> QED
  BY <1>1, <1>2, <1>3, <1>4, <1>5 DEF Admit

(* Reborn went quiet, and the run does not know it.                          *)
LEMMA UnknownSound ==
  ASSUME RunSound, pc = "prepare", UNCHANGED <<irqs, previous, off, unproven>>,
         pc' = "clear", ~job'.prepared, job'.changed = job.changed,
         job'.result \in {1, 2}, job'.refusal # "woken", ~Restored'
  PROVE  Facts'
  BY
     DEF RunSound, Facts, Remembered, Hushed, Owned, RadiosOff, Unwoken, Presses,
         OffFails, Slept, ScreenKept, Answers, Restored, RestoredTruly

LEMMA PrepareSound == RunSound /\ Prepare => Facts'
<1> USE DEF world, wakes, records, Quieted
<1>0. ASSUME RunSound PROVE job \in Job /\ receipt \in Receipt /\ Begin("refused") \in Receipt
                            /\ reborn \in [quiet : BOOLEAN, lit : BOOLEAN]
  BY <1>0, BeginType DEF RunSound, TypeOK, States
<1>1. ASSUME RunSound, Prepared PROVE Facts'
  <2>1. reborn'.quiet /\ ~reborn'.lit /\ pc = "prepare"
    BY <1>1, <1>0 DEF Prepared
  <2>2. CASE Refuse("other", TRUE)
    <3>1. /\ pc' = "screen" /\ job'.prepared /\ job'.result = 2 /\ job'.refusal = "other"
          /\ receipt' = receipt \/ receipt'.product.state = "refused"
      BY <2>2, <1>0, <1>1, RefusedRun DEF Refuse, After, Refusals
    <3>2. ~Restored'
      BY <1>1, <2>1, <3>1, NotRestored DEF Restored
    <3> QED
      BY <1>1, <2>1, <3>1, <3>2
         DEF Prepared, RunSound, Facts, Remembered, Hushed, Owned, RadiosOff, Unwoken,
             Presses, OffFails, Slept, ScreenKept, Answers, Restored, RestoredTruly
  <2>3. CASE /\ job' = [job EXCEPT !.prepared = TRUE] /\ pc' = "waiting"
             /\ receipt' = [Set(receipt, "preparing") EXCEPT !.prepared = TRUE]
             /\ held' = held
    <3>1. receipt'.product.state = "preparing"
      <4>1. Set(receipt, "preparing") \in Receipt /\ Set(receipt, "preparing").product.state = "preparing"
        BY <1>0, <1>1, SetType DEF States, Active
      <4> QED
        BY <2>3, <4>1, ReceiptFields
    <3>2. job'.prepared /\ job'.changed = job.changed /\ job'.refusal = job.refusal
      BY <2>3, <1>0, <1>1 DEF Job
    <3> QED
      BY <1>1, <2>1, <2>3, <3>1, <3>2
         DEF Prepared, RunSound, Facts, Remembered, Hushed, Owned, RadiosOff, Unwoken,
             Presses, OffFails, Slept, ScreenKept, Answers, Restored, RestoredTruly
  <2> QED
    BY <1>1, <2>2, <2>3 DEF Prepared
<1>2. ASSUME RunSound, PrepareRefused PROVE Facts'
  <2>1. /\ pc' = "clear" /\ ~job'.prepared /\ job'.changed = job.changed
        /\ job'.result = 2 /\ job'.refusal = "other"
        /\ receipt' = Begin("refused") \/ receipt'.product.state = "refused"
    BY <1>0, <1>2, RefusedRun DEF PrepareRefused, After, Refusals
  <2>2. ~Restored'
    BY <2>1, BeginType DEF Restored, States
  <2> QED
    BY <1>2, <2>1, <2>2, UnknownSound DEF PrepareRefused
<1>3. ASSUME RunSound, PrepareUnanswered PROVE Facts'
  <2>1. /\ pc' = "clear" /\ ~job'.prepared /\ job'.changed = job.changed
        /\ job'.result = 2 /\ job'.refusal = "other"
        /\ receipt' = Begin("refused") \/ receipt'.product.state = "refused"
    BY <1>0, <1>3, RefusedRun DEF PrepareUnanswered, After, Refusals
  <2>2. ~Restored'
    BY <2>1, BeginType DEF Restored, States
  <2> QED
    BY <1>3, <2>1, <2>2, UnknownSound DEF PrepareUnanswered
<1>4. ASSUME RunSound, PrepareSignalled PROVE Facts'
  <2>0. pc = "prepare" /\ job.prepared = FALSE /\ job.refusal # "woken"
    BY <1>0, <1>4 DEF PrepareSignalled, RunSound, Facts, Remembered, Job
  <2>1. /\ pc' = "clear" /\ ~job'.prepared /\ job'.changed = job.changed
        /\ job'.result = 1 /\ job'.refusal # "woken"
        /\ receipt' = receipt \/ receipt'.product.state = "restore_failed"
    <3>1. FailFrom(receipt, FALSE)
      BY <1>4, <2>0 DEF PrepareSignalled, Break
    <3> QED
      BY <1>0, <1>4, <2>0, <3>1, FailedRun DEF After
  <2>2. ~Restored'
    BY <1>4, <2>0, <2>1, NotRestored DEF Restored
  <2> QED
    BY <1>4, <2>0, <2>1, <2>2, UnknownSound DEF PrepareSignalled
<1>5. ASSUME RunSound, ApplicationReady PROVE Facts'
  <2>1. receipt'.product.state = "preparing"
    BY <1>0, <1>5, SetType, BeginType DEF ApplicationReady, States, Active
  <2>2. job'.prepared = job.prepared /\ job'.changed /\ job'.refusal = job.refusal
    BY <1>0, <1>5 DEF ApplicationReady, Job
  <2> QED
    BY <1>5, <2>1, <2>2
       DEF ApplicationReady, RunSound, Facts, Remembered, Hushed, Owned, RadiosOff,
           Unwoken, Presses, OffFails, Slept, ScreenKept, Answers, Restored,
           RestoredTruly
<1> QED
  BY <1>1, <1>2, <1>3, <1>4, <1>5 DEF Prepare

LEMMA SilenceSound == RunSound /\ Silence => Facts'
<1> USE DEF world, wakes, records, helper
<1>1. ASSUME RunSound, NEW r \in Radios, Quiesce(r) PROVE Facts'
  BY <1>1
     DEF Quiesce, RunSound, Facts, Remembered, Hushed, Owned, RadiosOff, Unwoken,
         Presses, OffFails, Slept, ScreenKept, Answers, Restored, RestoredTruly
<1>2. ASSUME RunSound, WakeNoticed PROVE Facts'
  BY <1>2, StaySound DEF WakeNoticed, Refusals, woken
<1>3. ASSUME RunSound, QuiesceFails PROVE Facts'
  BY <1>3, StaySound, BreakSound DEF QuiesceFails, Refusals
<1>4. ASSUME RunSound, ChipOff PROVE Facts'
  BY <1>4
     DEF ChipOff, Goto, RunSound, Facts, Remembered, Hushed, Owned, RadiosOff, Unwoken,
         Presses, OffFails, Slept, ScreenKept, Answers, Restored, RestoredTruly
<1> QED
  BY <1>1, <1>2, <1>3, <1>4 DEF Silence

LEMMA SignalledSound == RunSound /\ Signalled => Facts'
  BY BreakSound DEF Signalled, wakes

(* A step from one place of the loop to another that changes at most the     *)
(* count, the record and what is stale.                                      *)
LEMMA LoopSound ==
  ASSUME RunSound, pc \in Passing, pc' \in Passing,
         UNCHANGED <<held, irqs, previous, reborn, off, owners, inhibitors>>,
         job'.prepared = job.prepared, job'.changed = job.changed, job'.refusal = job.refusal,
         receipt' = receipt \/ receipt'.product.state # "restored",
         pc' \in Entry /\ count' = "read" => irqs = previous /\ "charger" \notin inhibitors
  PROVE  Facts'
<1>1. ~Restored'
  BY NotRestored DEF Restored
<1>2. pc \in Body \ Early /\ pc' \in Body \ Early /\ pc # "waiting" /\ pc' # "waiting"
  OBVIOUS
<1> QED
  BY <1>1, <1>2
     DEF RunSound, Facts, Remembered, Hushed, Owned, RadiosOff, Unwoken, Presses,
         OffFails, Slept, ScreenKept, Answers, Restored, RestoredTruly

LEMMA PassSound == RunSound /\ Pass => Facts'
<1> USE DEF world, wakes, records, helper
<1>0. ASSUME RunSound PROVE job \in Job /\ receipt \in Receipt
  BY <1>0 DEF RunSound, TypeOK
<1>1. ASSUME RunSound, ReadCount PROVE Facts'
  <2>1. CASE /\ pc' = "check" /\ UNCHANGED <<job, held, receipt>>
    BY <1>1, <2>1, LoopSound DEF ReadCount
  <2>2. CASE \E reason \in {"busy", "other"} : Stay(reason)
    BY <1>1, <2>2, StaySound DEF ReadCount, Refusals
  <2> QED
    BY <1>1, <2>1, <2>2 DEF ReadCount, Goto
<1>2. ASSUME RunSound, CheckPasses PROVE Facts'
  <2>1. receipt'.product.state # "restored"
    BY <1>0, <1>2, ActiveRecord DEF CheckPasses, States, Active
  <2>2. "charger" \notin inhibitors /\ irqs = previous
    BY <1>2 DEF CheckPasses, battery_and_cable, Unsafe, woken
  <2> QED
    BY <1>2, <2>1, <2>2, LoopSound DEF CheckPasses, Goto
<1>3. ASSUME RunSound, CheckRefuses PROVE Facts'
  BY <1>3, StaySound DEF CheckRefuses, Refusals, woken
<1>4. ASSUME RunSound, Sync PROVE Facts'
  <2>1. receipt'.product.state # "restored"
    <3>1. Set(receipt, "sleeping") \in Receipt /\ Set(receipt, "sleeping").product.state = "sleeping"
      BY <1>0, <1>4, SetType DEF States, Active
    <3> QED
      BY <1>4, <3>1, ReceiptFields DEF Sync
  <2>2. job'.prepared = job.prepared /\ job'.changed = job.changed /\ job'.refusal = job.refusal
    BY <1>0, <1>4 DEF Sync, Job
  <2>3. count = "read" => irqs = previous /\ "charger" \notin inhibitors
    BY <1>4 DEF Sync, RunSound, Facts, Unwoken
  <2> QED
    BY <1>4, <2>1, <2>2, <2>3, LoopSound DEF Sync
<1>5. ASSUME RunSound, SyncFails PROVE Facts'
  <2>1. CASE Break
    BY <1>5, <2>1, BreakSound DEF SyncFails
  <2>2. CASE FailFrom(Set(receipt, "sleeping"), TRUE)
    <3>0. job.prepared = TRUE /\ job.refusal # "woken"
      BY <1>5 DEF SyncFails, RunSound, Facts, Remembered, TypeOK, Job
    <3>1. Set(receipt, "sleeping") \in Receipt /\ Set(receipt, "sleeping").product.state = "sleeping"
      BY <1>0, <1>5, SetType DEF States, Active
    <3>2. /\ pc' = After(TRUE) /\ job'.prepared = TRUE /\ job'.changed = job.changed
          /\ job'.result = 1 /\ job'.refusal = job.refusal
          /\ receipt' = Set(receipt, "sleeping") \/ receipt'.product.state = "restore_failed"
      BY <1>0, <1>5, <2>2, <3>1, FailedRun
    <3>3. ~Restored'
      BY <3>1, <3>2 DEF Restored
    <3> QED
      BY <1>5, <3>0, <3>2, <3>3, EndSound DEF SyncFails
  <2> QED
    BY <1>5, <2>1, <2>2 DEF SyncFails
<1>6. ASSUME RunSound, StoreCount PROVE Facts'
  <2>1. irqs = previous /\ "charger" \notin inhibitors
    BY <1>6 DEF StoreCount, RunSound, Facts, Unwoken
  <2> QED
    BY <1>6, <2>1, LoopSound DEF StoreCount, Goto
<1>7. ASSUME RunSound, StoreStale PROVE Facts'
  <2>1. CASE Stay("busy")
    BY <1>7, <2>1, StaySound DEF StoreStale, Refusals
  <2>2. CASE pc' = "loop" /\ UNCHANGED <<job, held, receipt>>
    BY <1>7, <2>2, LoopSound DEF StoreStale
  <2> QED
    BY <1>7, <2>1, <2>2 DEF StoreStale, Goto
<1> QED
  BY <1>1, <1>2, <1>3, <1>4, <1>5, <1>6, <1>7 DEF Pass

LEMMA KernelSound == RunSound /\ Kernel => Facts'
<1> USE DEF world, wakes, records, helper
<1>0. ASSUME RunSound PROVE job \in Job /\ receipt \in Receipt
  BY <1>0 DEF RunSound, TypeOK
<1>1. ASSUME RunSound, Enter PROVE Facts'
  <2>1. job'.prepared = job.prepared /\ job'.changed = job.changed /\ job'.refusal = job.refusal
    BY <1>0, <1>1 DEF Enter, Job
  <2>2. count = "read" => irqs = previous /\ "charger" \notin inhibitors
    BY <1>1 DEF Enter, RunSound, Facts, Unwoken
  <2> QED
    BY <1>1, <2>1, <2>2, LoopSound DEF Enter
<1>2. ASSUME RunSound, KernelRefuses PROVE Facts'
  <2>1. PICK written \in BOOLEAN :
          receipt' = IF written THEN Set(receipt, "refused") ELSE receipt
    BY <1>2, WritesType DEF KernelRefuses
  <2>2. /\ job'.prepared = job.prepared /\ job'.changed = job.changed
        /\ job'.result = 2 /\ job'.refusal = "other"
    BY <1>0, <1>2 DEF KernelRefuses, Job
  <2>3. ~Restored'
    BY <1>0, <1>2, <2>1, NotRestored, ActiveRecord DEF KernelRefuses, Restored, States
  <2>4. pc = "entering" /\ pc' = "screen" /\ UNCHANGED <<irqs, previous, reborn, off>>
    BY <1>2 DEF KernelRefuses
  <2> QED
    BY <1>2, <2>2, <2>3, <2>4
       DEF RunSound, Facts, Remembered, Hushed, Owned, RadiosOff, Unwoken, Presses,
           OffFails, Slept, ScreenKept, Answers, Restored, RestoredTruly
<1>3. ASSUME RunSound, KernelFails PROVE Facts'
  BY <1>3, BreakSound DEF KernelFails
<1>4. ASSUME RunSound, KernelSleeps PROVE Facts'
  BY <1>4, LoopSound DEF KernelSleeps, Goto
<1>5. ASSUME RunSound, KernelWakes PROVE Facts'
  BY <1>5, LoopSound DEF KernelWakes, Goto
<1>6. ASSUME RunSound, CompleteCount PROVE Facts'
  <2>1. CASE Stay("busy")
    BY <1>6, <2>1, StaySound DEF CompleteCount, Refusals
  <2>2. CASE pc' = "resumed" /\ UNCHANGED <<job, held, receipt>>
    BY <1>6, <2>2, LoopSound DEF CompleteCount
  <2> QED
    BY <1>6, <2>1, <2>2 DEF CompleteCount, Goto
<1>7. ASSUME RunSound, Resumed PROVE Facts'
  <2>1. receipt'.product.state # "restored"
    BY <1>0, <1>7, ActiveRecord DEF Resumed, States, Active
  <2>2. /\ job'.prepared = job.prepared /\ job'.changed = job.changed
        /\ job'.refusal = job.refusal
    BY <1>0, <1>7 DEF Resumed, Job
  <2>3. pc = "resumed" /\ ~unproven' /\ UNCHANGED <<irqs, held, reborn, off, owners, inhibitors>>
    BY <1>7 DEF Resumed
  <2>4. CASE pc' = "loop" /\ previous' = irqs
    BY <1>7, <2>1, <2>2, <2>3, <2>4
       DEF RunSound, TypeOK, Facts, Remembered, Hushed, Owned, RadiosOff, Unwoken,
           Presses, OffFails, Slept, ScreenKept, Answers, Restored, RestoredTruly
  <2>5. CASE pc' = "screen" /\ previous' = previous
    BY <1>7, <2>1, <2>2, <2>3, <2>5
       DEF RunSound, Facts, Remembered, Hushed, Owned, RadiosOff, Unwoken, Presses,
           OffFails, Slept, ScreenKept, Answers, Restored, RestoredTruly
  <2> QED
    BY <1>7, <2>4, <2>5 DEF Resumed
<1>8. ASSUME RunSound, ResumedUnproven PROVE Facts'
  BY <1>8, BreakSound DEF ResumedUnproven
<1> QED
  BY <1>1, <1>2, <1>3, <1>4, <1>5, <1>6, <1>7, <1>8 DEF Kernel

(* What asking Reborn for its screen does to it.                             *)
LEMMA Asked ==
  ASSUME reborn \in [quiet : BOOLEAN, lit : BOOLEAN], NEW isDark \in BOOLEAN,
         NEW answered \in BOOLEAN, Ask(isDark, answered)
  PROVE  /\ answered => ~reborn'.quiet
         /\ isDark => reborn'.lit = reborn.lit
         /\ reborn'.quiet => reborn.quiet /\ ~answered
         /\ silences' = silences + 1 \/ (answered /\ silences' = silences)
  BY DEF Ask

LEMMA FinallySound == RunSound /\ Finally => Facts'
<1> USE DEF world, wakes, records, helper
<1>0. ASSUME RunSound
      PROVE  /\ job \in Job /\ receipt \in Receipt
             /\ reborn \in [quiet : BOOLEAN, lit : BOOLEAN]
             /\ job.prepared \in BOOLEAN /\ job.changed \in BOOLEAN /\ job.dark \in BOOLEAN
             /\ job.answered \in BOOLEAN /\ job.result \in 0..2
  BY <1>0 DEF RunSound, TypeOK, Job
<1>1. ASSUME RunSound, Screen PROVE Facts'
  <2>1. dark \in BOOLEAN
    BY DEF dark
  <2>2. PICK answered \in BOOLEAN :
          Ask(dark, answered) /\ job' = [job EXCEPT !.answered = answered, !.dark = dark]
    BY <1>1 DEF Screen
  <2>3. /\ answered => ~reborn'.quiet
        /\ dark => reborn'.lit = reborn.lit
    BY <1>0, <1>1, <2>1, <2>2, Asked
  <2>4. /\ job'.prepared = job.prepared /\ job'.changed = job.changed
        /\ job'.result = job.result /\ job'.refusal = job.refusal
        /\ job'.dark = dark /\ job'.answered = answered
    BY <1>0, <1>1, <2>2 DEF Job
  <2>5. pc = "screen" /\ pc' = "radios" /\ UNCHANGED <<irqs, previous, receipt, off, unproven>>
    BY <1>1 DEF Screen
  <2> QED
    BY <1>1, <2>3, <2>4, <2>5
       DEF dark, RunSound, Facts, Remembered, Hushed, Owned, RadiosOff, Unwoken,
           Presses, OffFails, Slept, ScreenKept, Answers, Restored, RestoredTruly
<1>2. ASSUME RunSound, RadiosRestored PROVE Facts'
  <2>1. receipt'.product.state # "restored"
    BY <1>0, <1>2, ActiveRecord DEF RadiosRestored, States, Active
  <2>2. /\ pc = "radios" /\ pc' = "complete" /\ job' = job
        /\ UNCHANGED <<irqs, previous, reborn, unproven>>
        /\ off' = IF job.changed THEN {} ELSE off
    BY <1>2 DEF RadiosRestored, Goto
  <2> QED
    BY <1>2, <2>1, <2>2
       DEF RunSound, Facts, Remembered, Hushed, Owned, RadiosOff, Unwoken, Presses,
           OffFails, Slept, ScreenKept, Answers, Restored, RestoredTruly
<1>3. ASSUME RunSound, RestoreRadiosFails PROVE Facts'
  <2>1. receipt' = receipt \/ receipt'.product.state # "restored"
    BY <1>0, <1>3, ActiveRecord DEF RestoreRadiosFails, States, Active
  <2>2. /\ job'.prepared = job.prepared /\ job'.changed = job.changed
        /\ job'.result = 1 /\ job'.refusal = job.refusal /\ job'.answered = job.answered
    BY <1>0, <1>3 DEF RestoreRadiosFails, Job
  <2>3. /\ pc = "radios" /\ pc' = "complete" /\ UNCHANGED <<irqs, previous, reborn, unproven>>
    BY <1>3 DEF RestoreRadiosFails
  <2> QED
    BY <1>3, <2>1, <2>2, <2>3
       DEF RunSound, Facts, Remembered, Hushed, Owned, RadiosOff, Unwoken, Presses,
           OffFails, Slept, ScreenKept, Answers, Restored, RestoredTruly
<1>4. ASSUME RunSound, Complete PROVE Facts'
  <2>1. PICK answered \in IF job.answered THEN {TRUE} ELSE BOOLEAN, written \in BOOLEAN :
          /\ IF job.answered THEN UNCHANGED <<reborn, silences>> ELSE Ask(job.dark, answered)
          /\ receipt' = IF written THEN Set(receipt, completed(answered)) ELSE receipt
          /\ job' = [job EXCEPT !.answered = answered,
                       !.result = IF ~written \/ (~answered /\ @ = 0) THEN 1 ELSE @]
    BY <1>4, WritesType DEF Complete
  <2>2. answered \in BOOLEAN
    BY <2>1
  <2>3. pc = "complete" /\ pc' = "clear" /\ UNCHANGED <<irqs, previous, off, unproven>>
    BY <1>4 DEF Complete
  <2>4. /\ job'.prepared = job.prepared /\ job'.changed = job.changed
        /\ job'.refusal = job.refusal
        /\ job'.result = IF ~written \/ (~answered /\ job.result = 0) THEN 1 ELSE job.result
    BY <1>0, <1>4, <2>1 DEF Job
  <2>5. answered => ~reborn'.quiet
    <3>1. CASE job.answered
      BY <1>4, <2>1, <2>3, <3>1 DEF RunSound, Facts, Answers
    <3>2. CASE ~job.answered
      BY <1>0, <1>4, <2>1, <2>2, <3>2, Asked
    <3> QED
      BY <3>1, <3>2
  <2>6. ~job.dark \/ reborn'.lit = reborn.lit
    <3>1. CASE job.answered
      BY <2>1, <3>1
    <3>2. CASE ~job.answered
      BY <1>0, <1>4, <2>1, <2>2, <3>2, Asked
    <3> QED
      BY <3>1, <3>2
  <2>7. receipt'.product.state = "restored" =>
          \/ receipt' = receipt
          \/ job.result = 0 /\ answered
    <3>1. completed(answered) \in States
      BY DEF completed, States
    <3>2. Set(receipt, completed(answered)).product.state = completed(answered)
      BY <1>0, <1>4, <3>1, SetType
    <3>3. completed(answered) = "restored" => job.result = 0 /\ answered
      BY DEF completed
    <3> QED
      BY <2>1, <3>2, <3>3
  <2>8. ~Restored
    BY <1>4, <2>3 DEF RunSound, Facts, RestoredTruly
  <2>9. RestoredTruly'
    <3>1. ASSUME Restored' PROVE job.result = 0 /\ answered
      BY <2>7, <2>8, <3>1 DEF Restored
    <3>2. ASSUME job.result = 0 PROVE off = {} /\ ~unproven
      BY <1>4, <2>3, <3>2 DEF RunSound, Facts, OffFails, Slept
    <3> QED
      BY <2>3, <2>5, <3>1, <3>2 DEF RestoredTruly
  <2>10. OffFails' /\ Slept' /\ Presses'
    BY <1>4, <2>3, <2>4 DEF RunSound, Facts, OffFails, Slept, Presses
  <2>11. ScreenKept'
    <3>1. ASSUME job.result = 2, job.prepared, reborn'.lit PROVE irqs # previous
      BY <1>4, <2>3, <2>6, <3>1 DEF RunSound, Facts, ScreenKept, Presses
    <3>2. job'.result = 2 => job.result = 2
      BY <2>4
    <3> QED
      BY <2>3, <2>4, <3>1, <3>2 DEF ScreenKept
  <2> QED
    BY <2>3, <2>9, <2>10, <2>11
       DEF Facts, Remembered, Hushed, Owned, RadiosOff, Unwoken, Answers
<1>5. ASSUME RunSound, Clear PROVE Facts'
  <2>1. receipt'.product = receipt.product
    BY <1>0, <1>5, GuardType DEF Clear
  <2>2. pc = "clear" /\ pc' = "idle" /\ UNCHANGED <<job, irqs, previous, reborn, off, unproven>>
    BY <1>5 DEF Clear
  <2> QED
    BY <1>5, <2>1, <2>2
       DEF RunSound, Facts, Remembered, Hushed, Owned, RadiosOff, Unwoken, Presses,
           OffFails, Slept, ScreenKept, Answers, Restored, RestoredTruly
<1> QED
  BY <1>1, <1>2, <1>3, <1>4, <1>5 DEF Finally

LEMMA WorldSound == RunSound /\ World => Facts'
<1> USE DEF world, wakes, records, helper
<1>1. ASSUME RunSound, Press PROVE Facts'
  <2>1. /\ reborn'.quiet = reborn.quiet
        /\ reborn.quiet => reborn' = reborn
    BY <1>1 DEF Press, RunSound, TypeOK
  <2>2. irqs' = irqs + 1 /\ count' # "read"
    BY <1>1 DEF Press, Overtaken, RunSound, TypeOK
  <2>3. irqs \in Nat /\ previous \in Nat /\ previous <= irqs
    BY <1>1 DEF RunSound, TypeOK, Facts, Presses
  <2>4. irqs' # previous /\ previous <= irqs'
    BY <2>2, <2>3
  <2>5. UNCHANGED <<pc, job, held, owners, inhibitors, off, receipt, unproven, previous>>
    BY <1>1 DEF Press
  <2> QED
    BY <1>1, <2>1, <2>2, <2>4, <2>5
       DEF RunSound, Facts, Remembered, Hushed, Owned, RadiosOff, Unwoken, Presses,
           OffFails, Slept, ScreenKept, Answers, Restored, RestoredTruly
<1>2. ASSUME RunSound, Event PROVE Facts'
  <2>1. count' # "read" /\ ("journal" \notin inhibitors => "journal" \notin inhibitors')
    BY <1>2 DEF Event, Overtaken, RunSound, TypeOK
  <2>2. UNCHANGED <<pc, job, held, owners, off, receipt, unproven, irqs, previous, reborn>>
    BY <1>2 DEF Event
  <2> QED
    BY <1>2, <2>1, <2>2
       DEF RunSound, Facts, Remembered, Hushed, Owned, RadiosOff, Unwoken, Presses,
           OffFails, Slept, ScreenKept, Answers, Restored, RestoredTruly
<1>3. ASSUME RunSound, Inhibit PROVE Facts'
  <2>1. "charger" \notin inhibitors => "charger" \notin inhibitors'
    BY <1>3 DEF Inhibit
  <2>2. owners = {} /\ "journal" \notin inhibitors => "journal" \notin inhibitors'
    BY <1>3 DEF Inhibit
  <2>3. UNCHANGED <<pc, job, held, owners, off, receipt, unproven, irqs, previous, reborn, count>>
    BY <1>3 DEF Inhibit
  <2> QED
    BY <1>3, <2>1, <2>2, <2>3
       DEF RunSound, Facts, Remembered, Hushed, Owned, RadiosOff, Unwoken, Presses,
           OffFails, Slept, ScreenKept, Answers, Restored, RestoredTruly
<1>4. ASSUME RunSound, Operate PROVE Facts'
  <2>1. held = Locks /\ owners = {} => owners' = {}
    BY <1>4 DEF Operate
  <2>2. UNCHANGED <<pc, job, held, inhibitors, off, receipt, unproven, irqs, previous, reborn, count>>
    BY <1>4 DEF Operate
  <2> QED
    BY <1>4, <2>1, <2>2
       DEF RunSound, Facts, Remembered, Hushed, Owned, RadiosOff, Unwoken, Presses,
           OffFails, Slept, ScreenKept, Answers, Restored, RestoredTruly
<1>5. ASSUME RunSound, RetryExpires PROVE Facts'
  BY <1>5
     DEF RetryExpires, RunSound, Facts, Remembered, Hushed, Owned, RadiosOff, Unwoken,
         Presses, OffFails, Slept, ScreenKept, Answers, Restored, RestoredTruly
<1>6. ASSUME RunSound, OwnerTrial PROVE Facts'
  <2>1. pc = "idle" /\ UNCHANGED <<pc, job, held, owners, inhibitors, irqs, previous, count>>
    BY <1>6 DEF OwnerTrial
  <2>2. CASE ~unproven' /\ ~reborn'.quiet /\ off' = {}
    BY <1>6, <2>1, <2>2
       DEF RunSound, Facts, Remembered, Hushed, Owned, RadiosOff, Unwoken, Presses,
           OffFails, Slept, ScreenKept, Answers, Restored, RestoredTruly
  <2>3. CASE receipt' = Begin("restore_failed") /\ UNCHANGED <<reborn, off, unproven>>
    <3>1. receipt'.product.state # "restored"
      BY <2>3, BeginType DEF States
    <3> QED
      BY <1>6, <2>1, <2>3, <3>1
         DEF RunSound, Facts, Remembered, Hushed, Owned, RadiosOff, Unwoken, Presses,
             OffFails, Slept, ScreenKept, Answers, Restored, RestoredTruly
  <2> QED
    BY <1>6, <2>2, <2>3 DEF OwnerTrial
<1>7. ASSUME RunSound, Reset PROVE Facts'
  <2>1. ~receipt'.product.mine
    BY <1>7, ReceiptFields DEF Reset, RunSound, TypeOK
  <2>2. pc' = "idle" /\ job' = NewJob /\ off' = {} /\ UNCHANGED <<irqs, previous>>
    BY <1>7 DEF Reset
  <2> QED
    BY <1>7, <2>1, <2>2
       DEF NewJob, RunSound, Facts, Remembered, Hushed, Owned, RadiosOff, Unwoken,
           Presses, OffFails, Slept, ScreenKept, Answers, Restored, RestoredTruly
<1> QED
  BY <1>1, <1>2, <1>3, <1>4, <1>5, <1>6, <1>7 DEF World

LEMMA InitSound == Init => RunSound
  BY InitType
     DEF Init, NewJob, Fresh, NoProduct, RunSound, Facts, Remembered, Hushed, Owned,
         RadiosOff, Unwoken, Presses, OffFails, Slept, ScreenKept, Answers, Restored,
         RestoredTruly

LEMMA StepSound == RunSound /\ [Next]_vars => RunSound'
<1> SUFFICES ASSUME RunSound, [Next]_vars PROVE RunSound'
  OBVIOUS
<1>1. TypeOK'
  BY StepType DEF RunSound
<1>2. CASE UNCHANGED vars
  BY <1>1, <1>2
     DEF vars, helper, wakes, records, world, RunSound, Facts, Remembered, Hushed,
         Owned, RadiosOff, Unwoken, Presses, OffFails, Slept, ScreenKept, Answers,
         Restored, RestoredTruly
<1>3. CASE Next
  BY <1>1, <1>3, StartSound, AdmitSound, PrepareSound, SilenceSound, SignalledSound,
     PassSound, KernelSound, FinallySound, WorldSound
     DEF Next, Helper, RunSound
<1> QED
  BY <1>2, <1>3

-----------------------------------------------------------------------------
(* The theorems.                                                             *)

(* Only the kernel falls asleep, and only with the count it was given.       *)
LEMMA FallsAsleep ==
  ASSUME RunSound, Next, pc = "entering", pc' = "asleep" PROVE count = "read"
<1>1. Kernel
  <2>1. ~Start /\ ~Signalled
    BY DEF Start, Request, RequestRefused, Signalled
  <2>2. ~Admit /\ ~Prepare /\ ~Silence
    BY
       DEF Admit, LocksTaken, LocksBusy, GatesRefuse, Baseline, BaselineFails, Prepare,
           Prepared, PrepareRefused, PrepareUnanswered, PrepareSignalled,
           ApplicationReady, Silence, Quiesce, WakeNoticed, QuiesceFails, ChipOff
  <2>3. ~Pass /\ ~Finally
    BY
       DEF Pass, ReadCount, CheckPasses, CheckRefuses, Sync, SyncFails, StoreCount,
           StoreStale, Finally, Screen, RadiosRestored, RestoreRadiosFails, Complete,
           Clear
  <2>4. ~World
    BY
       DEF World, Press, Event, Inhibit, Operate, RetryExpires, OwnerTrial, Reset,
           helper
  <2> QED
    BY <2>1, <2>2, <2>3, <2>4 DEF Next, Helper
<1>2. ~Break
  BY EndsRestoring DEF RunSound, TypeOK, Job, Break
<1> QED
  BY <1>1, <1>2
     DEF Kernel, Enter, KernelRefuses, KernelFails, KernelSleeps, KernelWakes,
         CompleteCount, Resumed, ResumedUnproven

(* Whatever happens beside the helper, the kernel sleeps only on a quiet and *)
(* dark player, under the helper's locks, with no press since the baseline.  *)
THEOREM Unwatched == Spec => SleepsUnwatched
<1>1. ASSUME RunSound, Next
      PROVE  pc = "entering" /\ pc' = "asleep" =>
               /\ reborn.quiet /\ ~reborn.lit /\ off = Radios
               /\ held = Locks /\ owners = {}
               /\ irqs = previous /\ inhibitors \cap {"charger", "journal"} = {}
  <2> SUFFICES ASSUME pc = "entering", pc' = "asleep" PROVE
               /\ reborn.quiet /\ ~reborn.lit /\ off = Radios
               /\ held = Locks /\ owners = {}
               /\ irqs = previous /\ inhibitors \cap {"charger", "journal"} = {}
    OBVIOUS
  <2>1. count = "read"
    BY <1>1, FallsAsleep DEF RunSound
  <2> QED
    BY <1>1, <2>1 DEF RunSound, Facts, Hushed, RadiosOff, Owned, Unwoken
<1>2. RunSound /\ [Next]_vars => [pc = "entering" /\ pc' = "asleep" =>
               /\ reborn.quiet /\ ~reborn.lit /\ off = Radios
               /\ held = Locks /\ owners = {}
               /\ irqs = previous /\ inhibitors \cap {"charger", "journal"} = {}]_vars
  BY <1>1
<1> QED
  BY InitSound, StepSound, <1>2, PTL DEF Spec, SleepsUnwatched

(* A refused run leaves the screen as dark as it found it, unless a press    *)
(* lit it.                                                                   *)
THEOREM StaysDark == Spec => []DarkUnlessWoken
<1>1. RunSound => DarkUnlessWoken
  BY DEF RunSound, Facts, ScreenKept, DarkUnlessWoken
<1> QED
  BY InitSound, StepSound, <1>1, PTL DEF Spec

(* What the end of a run reports is so: a radio it left off makes it a        *)
(* failure, and what is read as restored slept, was proven, and has           *)
(* everything back.                                                           *)
THEOREM ReportTrue == Spec => []ReportIsTrue
<1>1. RunSound => ReportIsTrue
  <2> SUFFICES ASSUME RunSound, pc = "idle"
               PROVE  /\ job.changed /\ off # {} => job.result = 1
                      /\ product(receipt.product).state = "restored" =>
                           receipt.product.mine /\ ~reborn.quiet /\ off = {} /\ ~unproven
    BY DEF ReportIsTrue
  <2>1. job.changed /\ off # {} => job.result = 1
    BY DEF RunSound, Facts, OffFails
  <2>2. ASSUME product(receipt.product).state = "restored"
        PROVE  receipt.product.mine /\ ~reborn.quiet /\ off = {} /\ ~unproven
    <3>1. receipt.product \in Product
      BY DEF RunSound, TypeOK, Receipt
    <3>2. Restored
      BY <2>2, <3>1 DEF product, NoProduct, Restored, Product
    <3> QED
      BY <3>2 DEF RunSound, Facts, RestoredTruly, Restored
  <2> QED
    BY <2>1, <2>2
<1> QED
  BY InitSound, StepSound, <1>1, PTL DEF Spec

-----------------------------------------------------------------------------
(* Lost answers: Reborn is quiet only where a run will still wake it, unless  *)
(* two answers were lost.                                                    *)
QuietCounted ==
  /\ reborn.quiet => silences >= 2 \/ pc \in Silenced \cup {"screen", "radios", "complete"}
  /\ reborn.quiet /\ pc \in {"radios", "complete"} => silences >= 1

(* An early end of a run, and a step that does not touch what Reborn is.     *)
LEMMA QuietEnds ==
  ASSUME RunSound, QuietCounted, pc \in Body, UNCHANGED <<reborn, silences>>,
         (\E reason \in Refusals : Stay(reason)) \/ Break
  PROVE  QuietCounted'
<1>1. job \in Job /\ receipt \in Receipt /\ job.prepared \in BOOLEAN
  BY DEF RunSound, TypeOK, Job
<1>2. pc' = After(job.prepared)
  BY <1>1, RefusedRun, FailedRun DEF Stay, Refuse, Break
<1>3. pc \in Silenced => job.prepared
  BY DEF RunSound, Facts, Remembered
<1> QED
  BY <1>2, <1>3 DEF QuietCounted, After

LEMMA QuietKept ==
  ASSUME QuietCounted, UNCHANGED silences, reborn'.quiet => reborn.quiet,
         pc' = pc \/ (pc \in Body /\ pc' \in Silenced)
  PROVE  QuietCounted'
  BY DEF QuietCounted

(* Reborn went quiet and the helper does not know: its answer came too late, *)
(* or a signal while it was read.                                            *)
QuietedUnheard == PrepareUnanswered \/ PrepareSignalled

LEMMA BodyQuiet ==
  ASSUME RunSound, QuietCounted, ~QuietedUnheard,
         Admit \/ Prepare \/ Silence \/ Signalled \/ Pass
  PROVE  QuietCounted'
<1> USE DEF world, wakes, records, helper
<1>0. job \in Job /\ receipt \in Receipt /\ Begin("refused") \in Receipt
  BY BeginType DEF RunSound, TypeOK, States
<1>1. CASE Admit
  <2>1. UNCHANGED <<reborn, silences>> /\ pc \in {"locks", "baseline"}
    BY <1>1 DEF Admit, LocksTaken, LocksBusy, GatesRefuse, Baseline, BaselineFails
  <2>2. CASE (\E reason \in Refusals : Stay(reason)) \/ Break
    BY <2>1, <2>2, QuietEnds
  <2>3. CASE pc' \in {"baseline", "prepare"}
    BY <2>1, <2>3 DEF QuietCounted
  <2> QED
    BY <1>1, <2>2, <2>3
       DEF Admit, LocksTaken, LocksBusy, GatesRefuse, Baseline, BaselineFails, Refusals
<1>2. CASE Prepare
  <2>1. CASE Prepared
    <3>1. pc' \in {"waiting", "screen"}
      BY <1>0, <2>1, RefusedRun DEF Prepared, Refuse, After, Refusals
    <3> QED
      BY <3>1 DEF QuietCounted
  <2>2. CASE PrepareRefused
    <3>1. pc' = "clear"
      BY <1>0, <2>2, RefusedRun DEF PrepareRefused, After, Refusals
    <3> QED
      BY <2>2, <3>1 DEF PrepareRefused, QuietCounted
  <2>3. CASE ApplicationReady
    BY <2>3, QuietKept DEF ApplicationReady
  <2> QED
    BY <1>2, <2>1, <2>2, <2>3 DEF Prepare, QuietedUnheard
<1>3. CASE Silence
  <2>1. UNCHANGED <<reborn, silences>> /\ pc \in {"waiting", "quiesce"}
    BY <1>3 DEF Silence, Quiesce, WakeNoticed, QuiesceFails, ChipOff
  <2>2. CASE (\E reason \in Refusals : Stay(reason)) \/ Break
    BY <2>1, <2>2, QuietEnds
  <2>3. CASE pc' \in {"waiting", "quiesce", "loop"}
    BY <2>1, <2>3, QuietKept
  <2> QED
    BY <1>3, <2>1, <2>2, <2>3
       DEF Silence, Quiesce, WakeNoticed, QuiesceFails, ChipOff, Goto, Refusals
<1>4. CASE Signalled
  BY <1>4, QuietEnds DEF Signalled
<1>5. CASE Pass
  <2>1. UNCHANGED <<reborn, silences>> /\ pc \in {"loop", "check", "sync", "store"}
    BY <1>5
       DEF Pass, ReadCount, CheckPasses, CheckRefuses, Sync, SyncFails, StoreCount,
           StoreStale
  <2>2. CASE (\E reason \in Refusals : Stay(reason)) \/ Break
    BY <2>1, <2>2, QuietEnds
  <2>3. CASE pc' \in {"check", "sync", "store", "enter", "loop"}
    BY <2>1, <2>3, QuietKept
  <2>4. CASE SyncFails /\ FailFrom(Set(receipt, "sleeping"), TRUE)
    <3>1. Set(receipt, "sleeping") \in Receipt
      BY <1>0, SetType DEF States, Active
    <3>2. pc' = "screen"
      BY <1>0, <2>4, <3>1, FailedRun DEF After
    <3> QED
      BY <2>1, <3>2 DEF QuietCounted
  <2> QED
    BY <1>5, <2>2, <2>3, <2>4
       DEF Pass, ReadCount, CheckPasses, CheckRefuses, Sync, SyncFails, StoreCount,
           StoreStale, Goto, Refusals
<1> QED
  BY <1>1, <1>2, <1>3, <1>4, <1>5

LEMMA EndQuiet ==
  ASSUME RunSound, QuietCounted, Start \/ Kernel \/ Finally \/ World
  PROVE  QuietCounted'
<1> USE DEF world, wakes, records, helper
<1>0. /\ job \in Job /\ receipt \in Receipt /\ reborn \in [quiet : BOOLEAN, lit : BOOLEAN]
      /\ job.dark \in BOOLEAN /\ job.answered \in BOOLEAN /\ silences \in Nat
  BY DEF RunSound, TypeOK, Job
<1>1. CASE Start
  BY <1>0, <1>1 DEF Start, Request, RequestRefused, QuietCounted
<1>2. CASE Kernel
  <2>1. UNCHANGED <<reborn, silences>> /\ pc \in {"enter", "entering", "asleep", "returned", "resumed"}
    BY <1>2
       DEF Kernel, Enter, KernelRefuses, KernelFails, KernelSleeps, KernelWakes,
           CompleteCount, Resumed, ResumedUnproven
  <2>2. CASE (\E reason \in Refusals : Stay(reason)) \/ Break
    BY <2>1, <2>2, QuietEnds
  <2>3. CASE pc' \in {"entering", "asleep", "returned", "resumed", "loop"}
    BY <2>1, <2>3, QuietKept
  <2>4. CASE pc' = "screen"
    BY <2>1, <2>4 DEF QuietCounted
  <2> QED
    BY <1>2, <2>2, <2>3, <2>4
       DEF Kernel, Enter, KernelRefuses, KernelFails, KernelSleeps, KernelWakes,
           CompleteCount, Resumed, ResumedUnproven, Goto, Refusals
<1>3. CASE Screen
  <2>1. PICK answered \in BOOLEAN : Ask(dark, answered)
    BY <1>3 DEF Screen
  <2>2. reborn'.quiet => silences' = silences + 1
    BY <1>0, <2>1, Asked DEF dark
  <2> QED
    BY <1>0, <1>3, <2>2 DEF Screen, QuietCounted
<1>4. CASE RadiosRestored \/ RestoreRadiosFails
  <2>1. pc = "radios" /\ pc' = "complete" /\ UNCHANGED <<reborn, silences>>
    BY <1>4 DEF RadiosRestored, RestoreRadiosFails, Goto
  <2> QED
    BY <2>1 DEF QuietCounted
<1>5. CASE Complete
  <2>1. pc = "complete" /\ pc' = "clear"
    BY <1>5 DEF Complete
  <2>2. PICK answered \in IF job.answered THEN {TRUE} ELSE BOOLEAN :
          IF job.answered THEN UNCHANGED <<reborn, silences>> ELSE Ask(job.dark, answered)
    BY <1>5 DEF Complete
  <2>3. CASE job.answered
    BY <2>1, <2>2, <2>3 DEF QuietCounted, RunSound, Facts, Answers
  <2>4. CASE ~job.answered
    <3>1. reborn'.quiet => silences' = silences + 1 /\ reborn.quiet
      BY <1>0, <2>2, <2>4, Asked
    <3> QED
      BY <1>0, <2>1, <3>1 DEF QuietCounted
  <2> QED
    BY <2>3, <2>4
<1>6. CASE Clear
  <2>1. pc = "clear" /\ pc' = "idle" /\ UNCHANGED <<reborn, silences>>
    BY <1>6 DEF Clear
  <2> QED
    BY <2>1 DEF QuietCounted
<1>7. CASE World
  <2>1. CASE Press \/ Event \/ Inhibit \/ Operate \/ RetryExpires
    <3>1. UNCHANGED <<pc, silences>> /\ reborn'.quiet = reborn.quiet
      BY <1>0, <2>1 DEF Press, Event, Inhibit, Operate, RetryExpires
    <3> QED
      BY <3>1, QuietKept
  <2>2. CASE OwnerTrial \/ Reset
    BY <1>0, <2>2, QuietKept DEF OwnerTrial, Reset, QuietCounted
  <2> QED
    BY <1>7, <2>1, <2>2 DEF World
<1> QED
  BY <1>1, <1>2, <1>3, <1>4, <1>5, <1>6, <1>7 DEF Finally

(* Reborn is never left quiet by a run that lost at most one answer, unless  *)
(* it once went quiet without the helper hearing of it.                      *)
THEOREM WakesReborn == Spec /\ [][~QuietedUnheard]_vars => []RebornReturns
<1>1. Init => RunSound /\ QuietCounted
  BY InitSound DEF Init, QuietCounted
<1>2. RunSound /\ QuietCounted /\ [Next]_vars /\ [~QuietedUnheard]_vars
        => (RunSound /\ QuietCounted)'
  <2>1. ASSUME RunSound, QuietCounted, UNCHANGED vars PROVE QuietCounted'
    BY <2>1 DEF vars, helper, QuietCounted
  <2> QED
    BY <2>1, StepSound, BodyQuiet, EndQuiet DEF Next, Helper
<1>3. RunSound /\ QuietCounted => RebornReturns
  BY DEF RunSound, TypeOK, QuietCounted, RebornReturns
<1> QED
  BY <1>1, <1>2, <1>3, PTL DEF Spec

(* So it never is where answers come in time and no signal meets one.        *)
COROLLARY WakesRebornAlways ==
  ASSUME Faults \cap {"lateAnswer", "signalledPrepare"} = {}
  PROVE  Spec => []RebornReturns
<1>1. [Next]_vars => [~QuietedUnheard]_vars
  BY DEF QuietedUnheard, PrepareUnanswered, PrepareSignalled
<1> QED
  BY <1>1, WakesReborn, PTL DEF Spec

-----------------------------------------------------------------------------
(* An attempt that a run still doubts is unproven, and no other is while it  *)
(* clears.                                                                   *)
Doubted == pc # "idle" /\ job.attempted /\ ~job.restored => unproven
(* A step keeps it that begins no attempt and takes no proof back.           *)
LEMMA DoubtKept ==
  ASSUME Doubted, pc # "idle", unproven' = unproven,
         job'.attempted => job.attempted, job.restored => job'.restored
  PROVE  Doubted'
  BY DEF Doubted

(* Every early end is one.                                                   *)
LEMMA DoubtEnds ==
  ASSUME TypeOK, Doubted, pc # "idle", unproven' = unproven, NEW r \in Receipt,
         NEW prepared \in BOOLEAN,
         (\E reason \in Refusals : RefuseFrom(r, reason, prepared)) \/ FailFrom(r, prepared)
  PROVE  Doubted'
<1>1. job \in Job
  BY DEF TypeOK
<1>2. job'.attempted = job.attempted /\ (job.restored => job'.restored)
  BY <1>1, RefusedRun, FailedRun
<1> QED
  BY <1>2, DoubtKept

LEMMA DoubtStays ==
  ASSUME TypeOK, Doubted, pc # "idle", unproven' = unproven,
         (\E reason \in Refusals : Stay(reason)) \/ Break
  PROVE  Doubted'
<1>1. receipt \in Receipt /\ job.prepared \in BOOLEAN
  BY DEF TypeOK, Job
<1> QED
  BY <1>1, DoubtEnds DEF Stay, Refuse, Break

LEMMA BodyDoubted ==
  ASSUME TypeOK, Doubted, Admit \/ Prepare \/ Silence \/ Signalled \/ Pass
  PROVE  Doubted'
<1> USE DEF world, wakes, records, helper
<1>0. job \in Job /\ receipt \in Receipt /\ Begin("refused") \in Receipt
  BY BeginType DEF TypeOK, States
<1>1. CASE Admit
  <2>1. unproven' = unproven /\ pc # "idle"
    BY <1>1 DEF Admit, LocksTaken, LocksBusy, GatesRefuse, Baseline, BaselineFails
  <2>2. CASE (\E reason \in Refusals : Stay(reason)) \/ Break
    BY <2>1, <2>2, DoubtStays
  <2>3. CASE job' = job \/ job' = [job EXCEPT !.pending = TRUE]
    BY <1>0, <2>1, <2>3, DoubtKept DEF Job
  <2> QED
    BY <1>1, <2>2, <2>3
       DEF Admit, LocksTaken, LocksBusy, GatesRefuse, Baseline, BaselineFails, Refusals
<1>2. CASE Prepare
  <2>1. unproven' = unproven /\ pc # "idle"
    BY <1>2
       DEF Prepare, Prepared, PrepareRefused, PrepareUnanswered, PrepareSignalled,
           ApplicationReady
  <2>2. CASE Break
    BY <2>1, <2>2, DoubtStays
  <2>3. CASE Refuse("other", TRUE) \/ RefuseFrom(Begin("refused"), "other", FALSE)
    BY <1>0, <2>1, <2>3, DoubtEnds DEF Refuse, Refusals
  <2>4. CASE job' = [job EXCEPT !.prepared = TRUE] \/ job' = [job EXCEPT !.changed = TRUE]
    BY <1>0, <2>1, <2>4, DoubtKept DEF Job
  <2> QED
    BY <1>2, <2>2, <2>3, <2>4
       DEF Prepare, Prepared, PrepareRefused, PrepareUnanswered, PrepareSignalled,
           ApplicationReady
<1>3. CASE Silence
  <2>1. unproven' = unproven /\ pc # "idle"
    BY <1>3 DEF Silence, Quiesce, WakeNoticed, QuiesceFails, ChipOff
  <2>2. CASE (\E reason \in Refusals : Stay(reason)) \/ Break
    BY <2>1, <2>2, DoubtStays
  <2>3. CASE job' = job
    BY <2>1, <2>3, DoubtKept
  <2> QED
    BY <1>3, <2>2, <2>3
       DEF Silence, Quiesce, WakeNoticed, QuiesceFails, ChipOff, Goto, Refusals
<1>4. CASE Signalled
  BY <1>4, DoubtStays DEF Signalled
<1>5. CASE Pass
  <2>1. unproven' = unproven /\ pc # "idle"
    BY <1>5
       DEF Pass, ReadCount, CheckPasses, CheckRefuses, Sync, SyncFails, StoreCount,
           StoreStale
  <2>2. CASE (\E reason \in Refusals : Stay(reason)) \/ Break
    BY <2>1, <2>2, DoubtStays
  <2>3. CASE FailFrom(Set(receipt, "sleeping"), TRUE)
    <3>1. Set(receipt, "sleeping") \in Receipt
      BY <1>0, SetType DEF States, Active
    <3> QED
      BY <2>1, <2>3, <3>1, DoubtEnds
  <2>4. CASE job' = job \/ job' = [job EXCEPT !.pending = TRUE]
    BY <1>0, <2>1, <2>4, DoubtKept DEF Job
  <2> QED
    BY <1>5, <2>2, <2>3, <2>4
       DEF Pass, ReadCount, CheckPasses, CheckRefuses, Sync, SyncFails, StoreCount,
           StoreStale, Goto, Refusals
<1> QED
  BY <1>1, <1>2, <1>3, <1>4, <1>5

LEMMA EndDoubted ==
  ASSUME TypeOK, Doubted, Start \/ Kernel \/ Finally \/ World
  PROVE  Doubted'
<1> USE DEF world, wakes, records, helper
<1>0. job \in Job
  BY DEF TypeOK
<1>1. CASE Start
  BY <1>1 DEF Start, Request, RequestRefused, NewJob, Doubted
<1>2. CASE Enter
  BY <1>2 DEF Enter, Doubted
<1>3. CASE KernelRefuses \/ Resumed
  <2>1. job'.restored
    BY <1>0, <1>3 DEF KernelRefuses, Resumed, Job
  <2> QED
    BY <2>1 DEF Doubted
<1>4. CASE KernelFails \/ ResumedUnproven \/ KernelSleeps \/ KernelWakes \/ CompleteCount
  <2>1. unproven' = unproven /\ pc # "idle"
    BY <1>4 DEF KernelFails, ResumedUnproven, KernelSleeps, KernelWakes, CompleteCount
  <2>2. CASE (\E reason \in Refusals : Stay(reason)) \/ Break
    BY <2>1, <2>2, DoubtStays
  <2>3. CASE job' = job
    BY <2>1, <2>3, DoubtKept
  <2> QED
    BY <1>4, <2>2, <2>3
       DEF KernelFails, ResumedUnproven, KernelSleeps, KernelWakes, CompleteCount, Goto,
           Refusals
<1>5. CASE Finally
  <2>1. unproven' = unproven /\ pc # "idle"
    BY <1>5 DEF Finally, Screen, RadiosRestored, RestoreRadiosFails, Complete, Clear
  <2>2. job'.attempted = job.attempted /\ job'.restored = job.restored
    BY <1>0, <1>5
       DEF Finally, Screen, RadiosRestored, RestoreRadiosFails, Complete, Clear, Goto,
           Job
  <2> QED
    BY <2>1, <2>2, DoubtKept
<1>6. CASE World
  <2>1. CASE Press \/ Event \/ Inhibit \/ Operate \/ RetryExpires
    <3>1. UNCHANGED <<pc, job, unproven>>
      BY <2>1 DEF Press, Event, Inhibit, Operate, RetryExpires
    <3> QED
      BY <3>1 DEF Doubted
  <2>2. CASE OwnerTrial \/ Reset
    <3>1. pc' = "idle"
      BY <2>2 DEF OwnerTrial, Reset
    <3> QED
      BY <3>1 DEF Doubted
  <2> QED
    BY <1>6, <2>1, <2>2 DEF World
<1> QED
  BY <1>1, <1>2, <1>3, <1>4, <1>5, <1>6 DEF Kernel

(* What clears the guard is the end of a run.                                *)
LEMMA EndsByClear ==
  ASSUME TypeOK, Next, pc = "clear", pc' = "idle", resets' = resets PROVE Clear
<1>1. ~Start /\ ~Signalled
  BY DEF Start, Request, RequestRefused, Signalled
<1>2. ~Admit /\ ~Prepare /\ ~Silence
  BY
     DEF Admit, LocksTaken, LocksBusy, GatesRefuse, Baseline, BaselineFails, Prepare,
         Prepared, PrepareRefused, PrepareUnanswered, PrepareSignalled,
         ApplicationReady, Silence, Quiesce, WakeNoticed, QuiesceFails, ChipOff
<1>3. ~Pass /\ ~Kernel
  BY
     DEF Pass, ReadCount, CheckPasses, CheckRefuses, Sync, SyncFails, StoreCount,
         StoreStale, Kernel, Enter, KernelRefuses, KernelFails, KernelSleeps,
         KernelWakes, CompleteCount, Resumed, ResumedUnproven
<1>4. ~World
  BY
     DEF World, Press, Event, Inhibit, Operate, RetryExpires, OwnerTrial, Reset, helper,
         TypeOK
<1> QED
  BY <1>1, <1>2, <1>3, <1>4
     DEF Next, Helper, Finally, Screen, RadiosRestored, RestoreRadiosFails, Complete

(* A run leaves its guard behind exactly when it could not prove its attempt, *)
(* as long as records can be written: the refused handshake is the only way   *)
(* to another end.                                                            *)
THEOREM GuardEarned ==
  ASSUME "receipt" \notin Faults
  PROVE  Spec /\ [][~ReturnRefused]_vars => QuarantineIsEarned
<1>1. Init => IInv /\ Doubted
  BY InitHolds DEF Init, Doubted
<1>2. IInv /\ Doubted /\ [Next]_vars /\ [~ReturnRefused]_vars => (IInv /\ Doubted)'
  <2>1. ASSUME IInv, Doubted, UNCHANGED vars PROVE Doubted'
    BY <2>1 DEF vars, helper, Doubted
  <2>2. IInv => TypeOK
    BY DEF IInv
  <2> QED
    BY <2>1, <2>2, StepHolds, BodyDoubted, EndDoubted DEF Next, Helper
<1>3. IInv /\ Doubted /\ [Next]_vars =>
        [pc = "clear" /\ pc' = "idle" /\ job.pending /\ resets' = resets
           => (guard'.pending <=> unproven)]_vars
  <2> SUFFICES ASSUME IInv, Doubted, Next, pc = "clear", pc' = "idle", job.pending,
                      resets' = resets
               PROVE  guard'.pending <=> unproven
    OBVIOUS
  <2>1. Clear
    BY EndsByClear DEF IInv
  <2>2. CASE job.restored \/ ~job.attempted
    <3>1. ~unproven
      BY <2>2 DEF IInv, Doubt
    <3>2. ~guard'.pending
      BY <2>1, <2>2 DEF Clear, Guard
    <3> QED
      BY <3>1, <3>2
  <2>3. CASE ~(job.restored \/ ~job.attempted)
    <3>1. unproven
      BY <2>3 DEF Doubted
    <3>2. guard' = guard
      BY <2>1, <2>3 DEF Clear
    <3> QED
      BY <3>1, <3>2 DEF IInv, QuarantineHolds, quarantined
  <2> QED
    BY <2>2, <2>3
<1> QED
  BY <1>1, <1>2, <1>3, PTL DEF Spec, QuarantineIsEarned

(* So always where that handshake is not refused either.                     *)
COROLLARY GuardAlwaysEarned ==
  ASSUME Faults \cap {"receipt", "busyReturn"} = {}
  PROVE  Spec => QuarantineIsEarned
<1>1. TypeOK /\ [Next]_vars => [~ReturnRefused]_vars
  BY NeverRefused
<1>2. "receipt" \notin Faults
  OBVIOUS
<1> QED
  BY <1>1, <1>2, TypeCorrect, GuardEarned, PTL DEF Spec

-----------------------------------------------------------------------------
(* Product sleep implements SleepPromise: every step of the helper and of its *)
(* world is one step of the promise, or changes nothing of it.               *)

Same == UNCHANGED Promise!vars

(* A step beside the kernel, the face of the player and the records.         *)
LEMMA NothingShows ==
  ASSUME kernel' = kernel, UNCHANGED <<reborn, off, unproven, guard>> PROVE Same
  BY DEF Same, Promise!vars, Promise!face, quarantined

(* Where the helper has not entered the kernel.                              *)
LEMMA AwakeAt ==
  /\ pc \notin {"entering", "asleep", "returned", "resumed"} => kernel = "awake"
  /\ pc' \notin {"entering", "asleep", "returned", "resumed"} => kernel' = "awake"
  BY DEF kernel

(* A gate clears a guard only over a proven attempt.                         *)
LEMMA GateLifts ==
  ASSUME IInv, AdmissionClears
  PROVE  quarantined' = quarantined \/ (~unproven /\ ~quarantined')
<1>1. CASE admission /\ quarantined
  <2>1. ~unproven
    BY <1>1 DEF IInv, Doubt, admission, recovered, Trial
  <2> QED
    BY <1>1, <2>1 DEF AdmissionClears, quarantined
<1>2. CASE ~(admission /\ quarantined)
  BY <1>2 DEF AdmissionClears, quarantined
<1> QED
  BY <1>1, <1>2

LEMMA StartPromised == IInv /\ RunSound /\ Start => Promise!Next
<1> SUFFICES ASSUME IInv, RunSound, Start PROVE Promise!Show
  BY DEF Promise!Next
<1>1. /\ ~reborn.quiet /\ reborn'.quiet = reborn.quiet /\ reborn'.lit = FALSE
      /\ UNCHANGED <<off, unproven>> /\ AdmissionClears
  BY DEF Start, Request, RequestRefused, world, wakes, helper, RunSound, TypeOK
<1>2. pc = "idle" /\ pc' \in {"idle", "locks"}
  BY DEF Start, Request, RequestRefused, helper
<1> QED
  BY <1>1, <1>2, AwakeAt, GateLifts DEF Promise!Show, Promise!awake

(* The early end of a run before the kernel.                                 *)
LEMMA EndsAwake ==
  ASSUME RunSound, (\E reason \in Refusals : Stay(reason)) \/ Break
  PROVE  kernel' = "awake"
<1>1. job \in Job /\ receipt \in Receipt /\ job.prepared \in BOOLEAN
  BY DEF RunSound, TypeOK, Job
<1>2. pc' \in {"screen", "clear"}
  BY <1>1, EndsRestoring DEF Stay, Refuse, Break
<1> QED
  BY <1>2, AwakeAt

LEMMA AdmitPromised == IInv /\ RunSound /\ Admit => Promise!Next \/ Same
<1> SUFFICES ASSUME IInv, RunSound, Admit PROVE Promise!Lift \/ Same
  BY DEF Promise!Next
<1>1. UNCHANGED <<reborn, off, unproven>> /\ pc \in {"locks", "baseline"}
  BY DEF Admit, LocksTaken, LocksBusy, GatesRefuse, Baseline, BaselineFails, world
<1>2. kernel = "awake" /\ kernel' = "awake" /\ ~unproven
  <2>1. pc' \in {"baseline", "prepare"} => kernel' = "awake"
    BY AwakeAt
  <2>2. kernel' = "awake"
    BY <2>1, EndsAwake
       DEF Admit, LocksTaken, LocksBusy, GatesRefuse, Baseline, BaselineFails, Refusals
  <2> QED
    BY <1>1, <2>2, AwakeAt, ProvenBefore DEF IInv, Doubtful
<1>3. quarantined' = quarantined \/ ~quarantined'
  <2>1. guard' = guard \/ AdmissionClears \/ Guard(TRUE, FALSE)
    BY DEF Admit, LocksTaken, LocksBusy, GatesRefuse, Baseline, BaselineFails, records
  <2> QED
    BY <2>1, GateLifts DEF Guard, quarantined
<1> QED
  BY <1>1, <1>2, <1>3 DEF Promise!Lift, Promise!awake, Promise!face, Promise!vars, Same

LEMMA PreparePromised == IInv /\ RunSound /\ Prepare => Promise!Next \/ Same
<1> SUFFICES ASSUME IInv, RunSound, Prepare PROVE Promise!Hush \/ Same
  BY DEF Promise!Next
<1>0. /\ job \in Job /\ receipt \in Receipt /\ Begin("refused") \in Receipt
      /\ reborn \in [quiet : BOOLEAN, lit : BOOLEAN]
  BY BeginType DEF RunSound, TypeOK, States
<1>1. UNCHANGED <<off, unproven, guard>> /\ pc \in {"prepare", "waiting"}
  BY DEF Prepare, Prepared, PrepareRefused, PrepareUnanswered, PrepareSignalled,
         ApplicationReady
<1>2. kernel = "awake" /\ kernel' = "awake"
  <2>1. pc' \in {"waiting", "quiesce", "screen", "clear"} => kernel' = "awake"
    BY AwakeAt
  <2>2. Refuse("other", TRUE) \/ Break \/ RefuseFrom(Begin("refused"), "other", FALSE)
          => pc' \in {"screen", "clear"}
    BY <1>0, EndsRestoring DEF Refuse, Break, Refusals, Job
  <2>3. pc' \in {"waiting", "quiesce", "screen", "clear"}
    BY <2>2
       DEF Prepare, Prepared, PrepareRefused, PrepareUnanswered, PrepareSignalled,
           ApplicationReady
  <2> QED
    BY <1>1, <2>1, <2>3, AwakeAt
<1>3. CASE Quieted(TRUE) /\ ~reborn.lit
  <2>1. reborn'.quiet = TRUE /\ reborn'.lit = reborn.lit
    BY <1>0, <1>3 DEF Quieted
  <2> QED
    BY <1>1, <1>2, <1>3, <2>1 DEF Promise!Hush, Promise!awake, quarantined
<1>4. CASE reborn' = reborn
  BY <1>1, <1>2, <1>4, NothingShows
<1> QED
  BY <1>3, <1>4
     DEF Prepare, Prepared, PrepareRefused, PrepareUnanswered, PrepareSignalled,
         ApplicationReady

LEMMA SilencePromised == IInv /\ RunSound /\ Silence => Promise!Next \/ Same
<1> SUFFICES ASSUME IInv, RunSound, Silence PROVE Promise!Silence \/ Same
  BY DEF Promise!Next
<1>1. UNCHANGED <<reborn, unproven, guard>> /\ pc \in {"waiting", "quiesce"}
  BY DEF Silence, Quiesce, WakeNoticed, QuiesceFails, ChipOff, records
<1>2. kernel = "awake" /\ kernel' = "awake"
  <2>1. pc' \in {"waiting", "quiesce", "loop"} => kernel' = "awake"
    BY AwakeAt
  <2>2. kernel' = "awake"
    BY <1>1, <2>1, EndsAwake
       DEF Silence, Quiesce, WakeNoticed, QuiesceFails, ChipOff, Goto, helper, Refusals
  <2> QED
    BY <1>1, <2>2, AwakeAt
<1>3. reborn.quiet /\ ~reborn.lit
  BY <1>1 DEF RunSound, Facts, Hushed
<1>4. CASE off' = off
  BY <1>1, <1>2, <1>4, NothingShows
<1>5. CASE \E r \in Radios : Quiesce(r)
  <2>1. off \subseteq off' /\ off' \subseteq Radios /\ off \subseteq Radios
    BY <1>5 DEF Quiesce, RunSound, TypeOK
  <2>2. (off' = Radios) = (off = Radios) \/ (off' = Radios) = TRUE
    BY <2>1
  <2>3. CASE (off' = Radios) = (off = Radios)
    BY <1>1, <1>2, <2>3 DEF Same, Promise!vars, Promise!face, quarantined
  <2>4. CASE (off' = Radios) = TRUE
    BY <1>1, <1>2, <1>3, <2>4 DEF Promise!Silence, Promise!awake, quarantined
  <2> QED
    BY <2>2, <2>3, <2>4
<1> QED
  BY <1>4, <1>5 DEF Silence, WakeNoticed, QuiesceFails, ChipOff

(* A signal after the kernel returned leaves its attempt in doubt.           *)
LEMMA SignalledPromised == IInv /\ RunSound /\ Signalled => Promise!Next \/ Same
<1> SUFFICES ASSUME IInv, RunSound, Signalled PROVE Promise!Fail \/ Same
  BY DEF Promise!Next
<1>1. /\ UNCHANGED <<reborn, off, unproven, guard>> /\ kernel' = "awake"
      /\ pc \in {"locks", "waiting", "quiesce", "loop", "sync", "returned"}
  BY EndsAwake DEF Signalled
<1>2. kernel = "awake" \/ kernel = "back"
  BY <1>1 DEF kernel
<1> QED
  BY <1>1, <1>2, NothingShows DEF Promise!Fail, Promise!face, quarantined

LEMMA PassPromised == IInv /\ RunSound /\ Pass => Promise!Next \/ Same
<1> SUFFICES ASSUME IInv, RunSound, Pass PROVE Promise!Bar \/ Same
  BY DEF Promise!Next
<1>1. UNCHANGED <<reborn, off, unproven>> /\ pc \in {"loop", "check", "sync", "store"}
  BY DEF Pass, ReadCount, CheckPasses, CheckRefuses, Sync, SyncFails, StoreCount,
         StoreStale
<1>2. kernel = "awake" /\ kernel' = "awake"
  <2>1. pc' \in {"loop", "check", "sync", "store", "enter", "screen", "clear"}
          => kernel' = "awake"
    BY AwakeAt
  <2>2. receipt \in Receipt /\ Set(receipt, "sleeping") \in Receipt
    BY SetType DEF RunSound, TypeOK, States, Active
  <2>3. FailFrom(Set(receipt, "sleeping"), TRUE) => pc' \in {"screen", "clear"}
    BY <2>2, EndsRestoring
  <2>4. kernel' = "awake"
    BY <2>1, <2>3, EndsAwake
       DEF Pass, ReadCount, CheckPasses, CheckRefuses, Sync, SyncFails, StoreCount,
           StoreStale, Goto, Refusals
  <2> QED
    BY <1>1, <2>4, AwakeAt
<1>3. CASE Sync
  <2>1. reborn.quiet /\ ~reborn.lit /\ off = Radios
    BY <1>3 DEF Sync, RunSound, Facts, Hushed, RadiosOff
  <2>2. ~unproven
    BY <1>3, ProvenBefore DEF Sync, IInv, Doubtful
  <2>3. quarantined' = TRUE
    BY <1>3 DEF Sync, quarantined
  <2> QED
    BY <1>1, <1>2, <2>1, <2>2, <2>3 DEF Promise!Bar, Promise!awake, Promise!face
<1>4. CASE guard' = guard
  BY <1>1, <1>2, <1>4, NothingShows
<1> QED
  BY <1>3, <1>4
     DEF Pass, ReadCount, CheckPasses, CheckRefuses, SyncFails, StoreCount, StoreStale,
         records

LEMMA KernelPromised == IInv /\ RunSound /\ Kernel => Promise!Next \/ Same
<1> SUFFICES ASSUME IInv, RunSound, Kernel
             PROVE  \/ Promise!Enter \/ Promise!Sleep \/ Promise!Wake
                    \/ Promise!Prove \/ Promise!Fail \/ Same
  BY DEF Promise!Next
<1>1. UNCHANGED <<reborn, off, guard>>
  BY DEF Kernel, Enter, KernelRefuses, KernelFails, KernelSleeps, KernelWakes,
         CompleteCount, Resumed, ResumedUnproven, records
<1>2. CASE Enter
  <2>1. reborn.quiet /\ ~reborn.lit /\ off = Radios
    BY <1>2 DEF Enter, RunSound, Facts, Hushed, RadiosOff
  <2>2. ~unproven /\ quarantined
    BY <1>2, ProvenBefore DEF Enter, IInv, Doubt, Doubtful
  <2>3. kernel = "awake" /\ kernel' = "entering" /\ unproven' = TRUE
    BY <1>2 DEF Enter, kernel
  <2>4. quarantined' = quarantined
    BY <1>1 DEF quarantined
  <2> QED
    BY <1>1, <2>1, <2>2, <2>3, <2>4 DEF Promise!Enter, Promise!face
<1>3. CASE KernelSleeps
  BY <1>1, <1>3 DEF KernelSleeps, Goto, kernel, Promise!Sleep, Promise!face, quarantined
<1>4. CASE KernelWakes
  BY <1>1, <1>4 DEF KernelWakes, Goto, kernel, Promise!Wake, Promise!face, quarantined
<1>5. CASE KernelRefuses \/ Resumed
  <2>1. kernel \in {"entering", "back"}
    BY <1>5 DEF KernelRefuses, Resumed, kernel
  <2>2. kernel' = "awake" /\ unproven' = FALSE
    BY <1>5 DEF KernelRefuses, Resumed, kernel
  <2> QED
    BY <1>1, <2>1, <2>2 DEF Promise!Prove, Promise!face, quarantined
<1>6. CASE /\ KernelFails \/ CompleteCount \/ ResumedUnproven
           /\ (\E reason \in Refusals : Stay(reason)) \/ Break
  <2>1. kernel \in {"entering", "back"} /\ unproven' = unproven
    BY <1>6 DEF KernelFails, CompleteCount, ResumedUnproven, kernel
  <2>2. kernel' = "awake"
    BY <1>6, EndsAwake
  <2> QED
    BY <1>1, <2>1, <2>2 DEF Promise!Fail, Promise!face, quarantined
<1>7. CASE CompleteCount /\ Goto("resumed")
  <2>1. kernel' = kernel /\ unproven' = unproven
    BY <1>7 DEF CompleteCount, Goto, kernel
  <2> QED
    BY <1>1, <2>1, NothingShows
<1> QED
  BY <1>2, <1>3, <1>4, <1>5, <1>6, <1>7
     DEF Kernel, KernelFails, CompleteCount, ResumedUnproven, Refusals

LEMMA FinallyPromised == IInv /\ RunSound /\ Finally => Promise!Next \/ Same
<1> SUFFICES ASSUME IInv, RunSound, Finally
             PROVE  Promise!Return \/ Promise!Sound \/ Promise!Lift \/ Same
  BY DEF Promise!Next
<1>0. /\ job \in Job /\ reborn \in [quiet : BOOLEAN, lit : BOOLEAN]
      /\ job.dark \in BOOLEAN /\ job.answered \in BOOLEAN
  BY DEF RunSound, TypeOK, Job
<1>1. unproven' = unproven /\ kernel = "awake" /\ kernel' = "awake"
  BY DEF Finally, Screen, RadiosRestored, RestoreRadiosFails, Complete, Clear, Goto,
         kernel
<1>2. ASSUME NEW isDark \in BOOLEAN, NEW answered \in BOOLEAN, Ask(isDark, answered),
             UNCHANGED <<off, guard>>
      PROVE  Promise!Return \/ Same
  <2>1. CASE reborn' = reborn
    BY <1>1, <1>2, <2>1, NothingShows
  <2>2. CASE reborn' = [quiet |-> FALSE, lit |-> reborn.lit \/ ~isDark]
    <3>1. ~reborn'.quiet /\ reborn'.lit \in {reborn.lit, TRUE}
      BY <1>0, <2>2
    <3> QED
      BY <1>1, <1>2, <3>1 DEF Promise!Return, Promise!awake, quarantined
  <2> QED
    BY <1>2, <2>1, <2>2 DEF Ask
<1>3. CASE Screen
  <2>1. dark \in BOOLEAN
    BY DEF dark
  <2>2. \E answered \in BOOLEAN : Ask(dark, answered)
    BY <1>3 DEF Screen
  <2> QED
    BY <1>2, <1>3, <2>1, <2>2 DEF Screen, records
<1>4. CASE RadiosRestored \/ RestoreRadiosFails
  <2>1. UNCHANGED <<reborn, guard>> /\ off' \subseteq off
    BY <1>4 DEF RadiosRestored, RestoreRadiosFails
  <2>2. off' = Radios => off = Radios
    BY <2>1 DEF RunSound, TypeOK
  <2>3. CASE (off' = Radios) = (off = Radios)
    BY <1>1, <2>1, <2>3 DEF Same, Promise!vars, Promise!face, quarantined
  <2>4. CASE (off' = Radios) = FALSE
    BY <1>1, <2>1, <2>4 DEF Promise!Sound, Promise!awake, quarantined
  <2> QED
    BY <2>2, <2>3, <2>4, Zenon
<1>5. CASE Complete
  <2>1. UNCHANGED <<off, guard>>
    BY <1>5 DEF Complete
  <2>2. reborn' = reborn \/ \E answered \in BOOLEAN : Ask(job.dark, answered)
    BY <1>0, <1>5 DEF Complete
  <2> QED
    BY <1>0, <1>1, <1>2, <2>1, <2>2, NothingShows
<1>6. CASE Clear
  <2>1. UNCHANGED <<reborn, off>>
    BY <1>6 DEF Clear
  <2>2. CASE guard' = guard
    BY <1>1, <2>1, <2>2, NothingShows
  <2>3. CASE (job.restored \/ ~job.attempted) /\ Guard(FALSE, FALSE)
    <3>1. ~unproven
      BY <1>6, <2>3 DEF Clear, IInv, Doubt
    <3>2. ~quarantined'
      BY <2>3 DEF Guard, quarantined
    <3> QED
      BY <1>1, <2>1, <3>1, <3>2 DEF Promise!Lift, Promise!awake, Promise!face
  <2> QED
    BY <1>6, <2>2, <2>3 DEF Clear
<1> QED
  BY <1>3, <1>4, <1>5, <1>6 DEF Finally

LEMMA WorldPromised == IInv /\ RunSound /\ World => Promise!Next \/ Same
<1> SUFFICES ASSUME IInv, RunSound, World
             PROVE  Promise!Show \/ Promise!Trial \/ Promise!Reset \/ Same
  BY DEF Promise!Next
<1> USE DEF world, wakes, records, helper
<1>0. reborn \in [quiet : BOOLEAN, lit : BOOLEAN]
  BY DEF RunSound, TypeOK
<1>1. CASE Event \/ Inhibit \/ Operate \/ RetryExpires
  <2>1. UNCHANGED <<pc, reborn, off, unproven, guard>>
    BY <1>1 DEF Event, Inhibit, Operate, RetryExpires
  <2> QED
    BY <2>1, NothingShows DEF kernel
<1>2. CASE Press
  <2>1. UNCHANGED <<pc, off, unproven, guard>>
    BY <1>2 DEF Press
  <2>2. CASE reborn.quiet
    BY <1>2, <2>1, <2>2, NothingShows DEF Press, kernel
  <2>3. CASE ~reborn.quiet
    <3>1. reborn'.quiet = reborn.quiet /\ reborn'.lit = TRUE
      BY <1>0, <1>2, <2>3 DEF Press
    <3>2. kernel = "awake" /\ kernel' = "awake"
      BY <2>1, <2>3 DEF kernel, RunSound, Facts, Hushed
    <3> QED
      BY <1>0, <2>1, <2>3, <3>1, <3>2 DEF Promise!Show, Promise!awake, quarantined
  <2> QED
    BY <2>2, <2>3
<1>3. CASE OwnerTrial
  <2>1. UNCHANGED guard /\ kernel = "awake" /\ kernel' = "awake"
    BY <1>3 DEF OwnerTrial, kernel
  <2>2. CASE UNCHANGED <<reborn, off, unproven>>
    BY <2>1, <2>2, NothingShows
  <2>3. CASE ~unproven' /\ reborn' = [quiet |-> FALSE, lit |-> TRUE] /\ off' = {}
    <3>1. off' # Radios /\ ~reborn'.quiet /\ reborn'.lit
      BY <2>3 DEF Radios
    <3> QED
      BY <2>1, <2>3, <3>1 DEF Promise!Trial, Promise!awake, quarantined
  <2> QED
    BY <1>3, <2>2, <2>3 DEF OwnerTrial
<1>4. CASE Reset
  <2>1. kernel' = "awake" /\ off' # Radios /\ ~reborn'.quiet /\ reborn'.lit
    BY <1>4 DEF Reset, kernel, Radios
  <2>2. UNCHANGED <<unproven, guard>>
    BY <1>4 DEF Reset
  <2> QED
    BY <2>1, <2>2 DEF Promise!Reset, quarantined
<1> QED
  BY <1>1, <1>2, <1>3, <1>4 DEF World

(* Until that handshake is refused, product sleep keeps what SleepPromise     *)
(* says of it, however its owner, its charger and its resets come between.    *)
THEOREM KeepsPromise == Spec /\ [][~ReturnRefused]_vars => ImplementsPromise
<1>1. Init => Promise!Init
  <2> SUFFICES ASSUME Init PROVE Promise!Init
    OBVIOUS
  <2>1. kernel = "awake" /\ (off = Radios) = FALSE /\ quarantined = FALSE
    BY DEF Init, kernel, Radios, quarantined
  <2> QED
    BY <2>1 DEF Init, Promise!Init
<1>2. IInv /\ RunSound /\ [Next]_vars => [Promise!Next]_Promise!vars
  <2>1. ASSUME UNCHANGED vars PROVE Same
    BY <2>1, NothingShows DEF vars, helper, records, kernel
  <2> QED
    BY <2>1, StartPromised, AdmitPromised, PreparePromised, SilencePromised,
       SignalledPromised, PassPromised, KernelPromised, FinallyPromised, WorldPromised
       DEF Next, Helper, Same
<1> QED
  BY <1>1, <1>2, InitHolds, InitSound, StepHolds, StepSound, PTL
     DEF Spec, ImplementsPromise, Promise!Spec

(* So it is a SleepPromise where that handshake is not refused.               *)
COROLLARY PromiseAlwaysKept ==
  ASSUME "busyReturn" \notin Faults
  PROVE  Spec => ImplementsPromise
<1>1. TypeOK /\ [Next]_vars => [~ReturnRefused]_vars
  BY NeverRefused
<1>2. Spec => []TypeOK
  BY TypeCorrect
<1>3. Spec => Spec /\ [][~ReturnRefused]_vars
  BY <1>1, <1>2, PTL DEF Spec
<1> QED
  BY <1>3, KeepsPromise

=============================================================================
