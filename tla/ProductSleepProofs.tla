------------------------- MODULE ProductSleepProofs -------------------------
(***************************************************************************)
(* The types of ProductSleep hold for every choice of its faults and       *)
(* bounds, and the quarantine holds for every choice without busyReturn,   *)
(* a wakeup count that is refused after the kernel returned.               *)
(***************************************************************************)
EXTENDS ProductSleep, TLAPS

States == Active \cup {"idle", "refused", "restored", "restore_failed"}

-----------------------------------------------------------------------------
(* The operators on receipts and runs stay in their types. *)

(* A receipt that is begun or whose product state is set is a receipt.       *)
LEMMA SetType ==
  ASSUME NEW r \in Receipt, NEW s \in States
  PROVE  /\ Set(r, s) \in Receipt
         /\ Set(r, s).mode = r.mode /\ Set(r, s).prepared = r.prepared
         /\ Set(r, s).product.state = s
         /\ Set(r, s).product.mine = r.product.mine
  BY DEF Set, Receipt, Product, States, Active

LEMMA BeginType ==
  ASSUME NEW s \in States
  PROVE  /\ Begin(s) \in Receipt
         /\ Begin(s).mode = "none" /\ Begin(s).product.state = s
         /\ Begin(s).product.mine
  BY DEF Begin, Fresh, NoProduct, Receipt, Product, States, Active

(* The other fields of a receipt that change on their own.                   *)
LEMMA ReceiptFields ==
  ASSUME NEW r \in Receipt, NEW b \in BOOLEAN
  PROVE  /\ [r EXCEPT !.newer = b] \in Receipt
         /\ [r EXCEPT !.newer = b].mode = r.mode
         /\ [r EXCEPT !.newer = b].product = r.product
         /\ [r EXCEPT !.prepared = b] \in Receipt
         /\ [r EXCEPT !.prepared = b].mode = r.mode
         /\ [r EXCEPT !.prepared = b].product = r.product
         /\ [r EXCEPT !.mode = "product"] \in Receipt
         /\ [r EXCEPT !.mode = "product"].product = r.product
         /\ [r EXCEPT !.product.mine = b] \in Receipt
         /\ [r EXCEPT !.product.mine = b].mode = r.mode
         /\ [r EXCEPT !.product.mine = b].product.mine = b
         /\ [r EXCEPT !.product.mine = b].product.state = r.product.state
  BY DEF Receipt, Product

(* Writes is a choice of success.                                            *)
LEMMA WritesType == Writes \subseteq BOOLEAN
  BY DEF Writes

-----------------------------------------------------------------------------
(* How a run ends early.                                                     *)

(* A refusal records itself or leaves the receipt, and is result 2.          *)
LEMMA RefuseFromEnds ==
  ASSUME job \in Job, NEW r \in Receipt, NEW reason \in Refusals,
         NEW prepared \in BOOLEAN, RefuseFrom(r, reason, prepared)
  PROVE  /\ job' \in Job /\ receipt' \in Receipt /\ pc' \in Restoring
         /\ held' = held
         /\ job'.result = 2 /\ job'.attempted = job.attempted
         /\ reason \notin {"woken", "busy"} => job'.restored = job.restored
         /\ receipt' = r \/ receipt'.product.state = "refused"
<1>1. PICK written \in BOOLEAN :
        /\ receipt' = IF written THEN Set(r, "refused") ELSE r
        /\ job' = [job EXCEPT !.prepared = prepared, !.result = 2, !.refusal = reason,
                     !.restored = @ \/ (reason \in {"woken", "busy"} /\ written)]
        /\ pc' = After(prepared) /\ held' = held
  BY WritesType DEF RefuseFrom
<1>2. Set(r, "refused") \in Receipt /\ Set(r, "refused").product.state = "refused"
  BY SetType DEF States
<1>3. receipt' \in Receipt /\ (receipt' = r \/ receipt'.product.state = "refused")
  BY <1>1, <1>2
<1>4. pc' \in Restoring
  BY <1>1 DEF After, Restoring
<1>5. job' = [prepared |-> prepared, changed |-> job.changed, pending |-> job.pending,
              attempted |-> job.attempted,
              restored |-> job.restored \/ (reason \in {"woken", "busy"} /\ written),
              answered |-> job.answered, dark |-> job.dark, result |-> 2,
              refusal |-> reason]
  BY <1>1 DEF Job
<1>6. (job.restored \/ (reason \in {"woken", "busy"} /\ written)) \in BOOLEAN
  OBVIOUS
<1>7. /\ job.changed \in BOOLEAN /\ job.pending \in BOOLEAN /\ job.attempted \in BOOLEAN
      /\ job.answered \in BOOLEAN /\ job.dark \in BOOLEAN /\ job.restored \in BOOLEAN
  BY DEF Job
<1>8. job' \in Job
  BY <1>5, <1>6, <1>7 DEF Job
<1>9. reason \notin {"woken", "busy"} => job'.restored = job.restored
  BY <1>5, <1>7, Zenon
<1> QED
  BY <1>1, <1>3, <1>4, <1>5, <1>8, <1>9

(* A failure records itself or leaves the receipt, and is result 1.          *)
LEMMA FailFromEnds ==
  ASSUME job \in Job, NEW r \in Receipt, NEW prepared \in BOOLEAN,
         FailFrom(r, prepared)
  PROVE  /\ job' \in Job /\ receipt' \in Receipt /\ pc' \in Restoring
         /\ held' = held
         /\ job'.result = 1 /\ job'.attempted = job.attempted
         /\ job'.restored = job.restored
         /\ receipt' = r \/ receipt'.product.state = "restore_failed"
<1>1. PICK written \in BOOLEAN :
        /\ receipt' = IF written THEN Set(r, "restore_failed") ELSE r
        /\ job' = [job EXCEPT !.prepared = prepared, !.result = 1]
        /\ pc' = After(prepared) /\ held' = held
  BY WritesType DEF FailFrom
<1>2. /\ Set(r, "restore_failed") \in Receipt
      /\ Set(r, "restore_failed").product.state = "restore_failed"
  BY SetType DEF States
<1>3. receipt' \in Receipt
      /\ (receipt' = r \/ receipt'.product.state = "restore_failed")
  BY <1>1, <1>2
<1>4. pc' \in Restoring
  BY <1>1 DEF After, Restoring
<1>5. job' = [prepared |-> prepared, changed |-> job.changed, pending |-> job.pending,
              attempted |-> job.attempted, restored |-> job.restored,
              answered |-> job.answered, dark |-> job.dark, result |-> 1,
              refusal |-> job.refusal]
  BY <1>1 DEF Job
<1>6. /\ job.changed \in BOOLEAN /\ job.pending \in BOOLEAN /\ job.attempted \in BOOLEAN
      /\ job.answered \in BOOLEAN /\ job.dark \in BOOLEAN /\ job.restored \in BOOLEAN
      /\ job.refusal \in Refusals
  BY DEF Job
<1>7. job' \in Job
  BY <1>5, <1>6 DEF Job
<1> QED
  BY <1>1, <1>3, <1>4, <1>5, <1>7

(* The fields of a run that change on their own.                             *)
LEMMA JobFields ==
  ASSUME NEW j \in Job
  PROVE  /\ \A b \in BOOLEAN :
              /\ [j EXCEPT !.prepared = b] \in Job /\ [j EXCEPT !.changed = b] \in Job
              /\ [j EXCEPT !.pending = b] \in Job /\ [j EXCEPT !.attempted = b] \in Job
              /\ [j EXCEPT !.restored = b] \in Job /\ [j EXCEPT !.answered = b] \in Job
              /\ [j EXCEPT !.dark = b] \in Job
         /\ \A n \in 0..2 : [j EXCEPT !.result = n] \in Job
         /\ [j EXCEPT !.refusal = "other"] \in Job
  BY DEF Job, Refusals

LEMMA ResultType ==
  ASSUME NEW j \in Job
  PROVE  [j EXCEPT !.result = 1] \in Job /\ [j EXCEPT !.result = 2] \in Job
<1>1. 1 \in 0..2 /\ 2 \in 0..2
  OBVIOUS
<1> QED
  BY <1>1, JobFields

LEMMA NewJobType == NewJob \in Job
  BY DEF NewJob, Job, Refusals

(* AdmissionClears leaves the guard or clears it.                            *)
LEMMA ClearsType ==
  ASSUME guard \in [pending : BOOLEAN, entered : BOOLEAN], AdmissionClears
  PROVE  guard' \in [pending : BOOLEAN, entered : BOOLEAN]
  BY DEF AdmissionClears

(* Guard writes the guard, which is now newer than the receipt.              *)
LEMMA GuardType ==
  ASSUME receipt \in Receipt, NEW p \in BOOLEAN, NEW e \in BOOLEAN, Guard(p, e)
  PROVE  /\ guard' \in [pending : BOOLEAN, entered : BOOLEAN]
         /\ receipt' \in Receipt
         /\ receipt'.mode = receipt.mode /\ receipt'.product = receipt.product
  BY ReceiptFields DEF Guard

-----------------------------------------------------------------------------
(* The types.                                                                *)

LEMMA InitType == Init => TypeOK
<1>1. Fresh \in Receipt
  BY DEF Fresh, NoProduct, Receipt, Product
<1>2. ASSUME Init
      PROVE  /\ pc \in {"idle"} \cup Body \cup Restoring /\ job \in Job
             /\ held \subseteq Locks /\ owners \subseteq Locks
             /\ off \subseteq Radios /\ inhibitors \subseteq Unsafe \cup Working
             /\ guard \in [pending : BOOLEAN, entered : BOOLEAN]
             /\ reborn \in [quiet : BOOLEAN, lit : BOOLEAN]
  BY <1>2, NewJobType DEF Init
<1>3. ASSUME Init
      PROVE  /\ count \in {"none", "read", "stale"}
             /\ irqs \in Nat /\ previous \in Nat /\ before \in Nat
             /\ stale \in 0..StaleRetries
             /\ events \in Nat /\ silences \in Nat /\ resets \in Nat
  BY <1>3 DEF Init, StaleRetries
<1>4. ASSUME Init
      PROVE  timer \in BOOLEAN /\ retry \in BOOLEAN /\ unproven \in BOOLEAN
  BY <1>4, Zenon DEF Init
<1>5. ASSUME Init PROVE receipt \in Receipt
  BY <1>1, <1>5 DEF Init
<1> QED
  BY <1>2, <1>3, <1>4, <1>5 DEF TypeOK

LEMMA StartType == TypeOK /\ Start => TypeOK'
<1> USE DEF TypeOK, world, wakes, helper
<1>1. ASSUME TypeOK, Request PROVE TypeOK'
  <2>1. receipt' \in Receipt
    <3>1. Begin("requested") \in Receipt
      BY BeginType DEF States, Active
    <3> QED
      BY <1>1, <3>1, ReceiptFields DEF Request
  <2>2. guard' \in [pending : BOOLEAN, entered : BOOLEAN] /\ job' \in Job
    BY <1>1, ClearsType, NewJobType DEF Request
  <2> QED
    BY <1>1, <2>1, <2>2 DEF Request, Body
<1>2. ASSUME TypeOK, RequestRefused PROVE TypeOK'
  <2>1. receipt' \in Receipt
    BY <1>2, BeginType DEF RequestRefused, States
  <2>2. guard' \in [pending : BOOLEAN, entered : BOOLEAN]
    BY <1>2, ClearsType DEF RequestRefused
  <2> QED
    BY <1>2, <2>1, <2>2 DEF RequestRefused
<1> QED
  BY <1>1, <1>2 DEF Start

LEMMA AdmitType == TypeOK /\ Admit => TypeOK'
<1> USE DEF TypeOK, world, wakes
<1>1. ASSUME TypeOK, LocksTaken PROVE TypeOK'
  <2>1. guard' \in [pending : BOOLEAN, entered : BOOLEAN]
    BY <1>1, ClearsType DEF LocksTaken
  <2> QED
    BY <1>1, <2>1 DEF LocksTaken, Body, StaleRetries
<1>2. ASSUME TypeOK, LocksBusy PROVE TypeOK'
  <2>1. job' \in Job /\ receipt' \in Receipt /\ pc' \in Restoring /\ held' = held
    BY <1>2, RefuseFromEnds DEF LocksBusy, Stay, Refuse, Refusals, Job
  <2> QED
    BY <1>2, <2>1 DEF LocksBusy
<1>3. ASSUME TypeOK, GatesRefuse PROVE TypeOK'
  <2>1. job' \in Job /\ receipt' \in Receipt /\ pc' \in Restoring /\ held' = held
    <3>1. PICK reason \in Refusals : Stay(reason)
      BY <1>3 DEF GatesRefuse, Refusals
    <3> QED
      BY <1>3, <3>1, RefuseFromEnds DEF Stay, Refuse, Job
  <2>2. guard' \in [pending : BOOLEAN, entered : BOOLEAN]
    BY <1>3, ClearsType DEF GatesRefuse
  <2> QED
    BY <1>3, <2>1, <2>2 DEF GatesRefuse
<1>4. ASSUME TypeOK, Baseline PROVE TypeOK'
  <2>1. /\ guard' \in [pending : BOOLEAN, entered : BOOLEAN]
        /\ receipt' \in Receipt
    BY <1>4, GuardType DEF Baseline
  <2>2. job' \in Job
    BY <1>4, JobFields DEF Baseline
  <2> QED
    BY <1>4, <2>1, <2>2 DEF Baseline, Body
<1>5. ASSUME TypeOK, BaselineFails PROVE TypeOK'
  <2>1. job' \in Job /\ receipt' \in Receipt /\ pc' \in Restoring /\ held' = held
    BY <1>5, FailFromEnds DEF BaselineFails, Break, Job
  <2> QED
    BY <1>5, <2>1 DEF BaselineFails
<1> QED
  BY <1>1, <1>2, <1>3, <1>4, <1>5 DEF Admit

(* Every early end of a run by Stay or Break.                                *)
LEMMA StayType ==
  ASSUME TypeOK, NEW reason \in Refusals, Stay(reason)
  PROVE  job' \in Job /\ receipt' \in Receipt /\ pc' \in Restoring /\ held' = held
  BY RefuseFromEnds DEF TypeOK, Stay, Refuse, Job

LEMMA BreakType ==
  ASSUME TypeOK, Break
  PROVE  job' \in Job /\ receipt' \in Receipt /\ pc' \in Restoring /\ held' = held
  BY FailFromEnds DEF TypeOK, Break, Job

LEMMA PrepareType == TypeOK /\ Prepare => TypeOK'
<1> USE DEF world, wakes, records, Quieted
<1>0. Begin("refused") \in Receipt
  BY BeginType DEF States
<1>1. ASSUME TypeOK, Prepared PROVE TypeOK'
  <2>1. CASE Refuse("other", TRUE)
    <3>1. job' \in Job /\ receipt' \in Receipt /\ pc' \in Restoring /\ held' = held
      BY <1>1, <2>1, RefuseFromEnds DEF TypeOK, Refuse, Refusals
    <3> QED
      BY <1>1, <3>1 DEF Prepared, TypeOK
  <2>2. CASE /\ job' = [job EXCEPT !.prepared = TRUE] /\ pc' = "waiting"
             /\ held' = held
             /\ receipt' = [Set(receipt, "preparing") EXCEPT !.prepared = TRUE]
    <3>1. Set(receipt, "preparing") \in Receipt
      BY <1>1, SetType DEF TypeOK, States, Active
    <3>2. job' \in Job /\ receipt' \in Receipt
      BY <1>1, <2>2, <3>1, JobFields, ReceiptFields DEF TypeOK
    <3> QED
      BY <1>1, <2>2, <3>2 DEF Prepared, TypeOK, Body
  <2> QED
    BY <1>1, <2>1, <2>2 DEF Prepared
<1>2. ASSUME TypeOK, PrepareRefused PROVE TypeOK'
  <2>1. job' \in Job /\ receipt' \in Receipt /\ pc' \in Restoring /\ held' = held
    BY <1>0, <1>2, RefuseFromEnds DEF TypeOK, PrepareRefused, Refusals
  <2> QED
    BY <1>2, <2>1 DEF PrepareRefused, TypeOK
<1>3. ASSUME TypeOK, PrepareUnanswered PROVE TypeOK'
  <2>1. job' \in Job /\ receipt' \in Receipt /\ pc' \in Restoring /\ held' = held
    BY <1>0, <1>3, RefuseFromEnds DEF TypeOK, PrepareUnanswered, Refusals
  <2> QED
    BY <1>3, <2>1 DEF PrepareUnanswered, TypeOK
<1>4. ASSUME TypeOK, PrepareSignalled PROVE TypeOK'
  <2>1. job' \in Job /\ receipt' \in Receipt /\ pc' \in Restoring /\ held' = held
    BY <1>4, BreakType DEF PrepareSignalled
  <2> QED
    BY <1>4, <2>1 DEF PrepareSignalled, TypeOK
<1>5. ASSUME TypeOK, ApplicationReady PROVE TypeOK'
  <2>1. /\ Set(receipt, "preparing") \in Receipt
        /\ Begin("preparing") \in Receipt
    BY <1>5, SetType, BeginType DEF TypeOK, States, Active
  <2>2. job' \in Job /\ receipt' \in Receipt
    BY <1>5, <2>1, JobFields DEF ApplicationReady, TypeOK
  <2> QED
    BY <1>5, <2>2 DEF ApplicationReady, TypeOK, Body
<1> QED
  BY <1>1, <1>2, <1>3, <1>4, <1>5 DEF Prepare

LEMMA SilenceType == TypeOK /\ Silence => TypeOK'
<1> USE DEF world, wakes, records, helper
<1>1. ASSUME TypeOK, NEW r \in Radios, Quiesce(r) PROVE TypeOK'
  BY <1>1 DEF Quiesce, TypeOK
<1>2. ASSUME TypeOK, WakeNoticed PROVE TypeOK'
  <2>1. job' \in Job /\ receipt' \in Receipt /\ pc' \in Restoring /\ held' = held
    BY <1>2, StayType DEF WakeNoticed, Refusals
  <2> QED
    BY <1>2, <2>1 DEF WakeNoticed, TypeOK
<1>3. ASSUME TypeOK, QuiesceFails PROVE TypeOK'
  <2>1. job' \in Job /\ receipt' \in Receipt /\ pc' \in Restoring /\ held' = held
    BY <1>3, StayType, BreakType DEF QuiesceFails, Refusals
  <2> QED
    BY <1>3, <2>1 DEF QuiesceFails, TypeOK
<1>4. ASSUME TypeOK, ChipOff PROVE TypeOK'
  BY <1>4 DEF ChipOff, Goto, TypeOK, Body
<1> QED
  BY <1>1, <1>2, <1>3, <1>4 DEF Silence

LEMMA SignalledType == TypeOK /\ Signalled => TypeOK'
<1> SUFFICES ASSUME TypeOK, Signalled PROVE TypeOK'
  OBVIOUS
<1>1. job' \in Job /\ receipt' \in Receipt /\ pc' \in Restoring /\ held' = held
  BY BreakType DEF Signalled
<1> QED
  BY <1>1 DEF Signalled, TypeOK, world, wakes

LEMMA PassType == TypeOK /\ Pass => TypeOK'
<1> USE DEF world, wakes, records, helper
<1>1. ASSUME TypeOK, ReadCount PROVE TypeOK'
  <2>1. CASE /\ count' = (IF count = "none" THEN "read" ELSE count)
             /\ Goto("check") /\ UNCHANGED receipt
    BY <1>1, <2>1 DEF ReadCount, Goto, TypeOK, Body
  <2>2. CASE \E reason \in {"busy", "other"} : count' = count /\ Stay(reason)
    <3>1. PICK reason \in Refusals : count' = count /\ Stay(reason)
      BY <2>2 DEF Refusals
    <3>2. job' \in Job /\ receipt' \in Receipt /\ pc' \in Restoring /\ held' = held
      BY <1>1, <3>1, StayType
    <3> QED
      BY <1>1, <3>1, <3>2 DEF ReadCount, TypeOK
  <2> QED
    BY <1>1, <2>1, <2>2 DEF ReadCount
<1>2. ASSUME TypeOK, CheckPasses PROVE TypeOK'
  <2>1. Set(receipt, "preparing") \in Receipt
    BY <1>2, SetType DEF TypeOK, States, Active
  <2> QED
    BY <1>2, <2>1 DEF CheckPasses, Goto, TypeOK, Body
<1>3. ASSUME TypeOK, CheckRefuses PROVE TypeOK'
  <2>1. PICK reason \in Refusals : Stay(reason)
    BY <1>3 DEF CheckRefuses, Refusals
  <2>2. job' \in Job /\ receipt' \in Receipt /\ pc' \in Restoring /\ held' = held
    BY <1>3, <2>1, StayType
  <2> QED
    BY <1>3, <2>2 DEF CheckRefuses, TypeOK
<1>4. ASSUME TypeOK, Sync PROVE TypeOK'
  <2>1. Set(receipt, "sleeping") \in Receipt
    BY <1>4, SetType DEF TypeOK, States, Active
  <2>2. job' \in Job /\ receipt' \in Receipt
    BY <1>4, <2>1, JobFields, ReceiptFields DEF Sync, TypeOK
  <2> QED
    BY <1>4, <2>2 DEF Sync, TypeOK, Body
<1>5. ASSUME TypeOK, SyncFails PROVE TypeOK'
  <2>1. Set(receipt, "sleeping") \in Receipt
    BY <1>5, SetType DEF TypeOK, States, Active
  <2>2. job' \in Job /\ receipt' \in Receipt /\ pc' \in Restoring /\ held' = held
    BY <1>5, <2>1, BreakType, FailFromEnds DEF SyncFails, TypeOK
  <2> QED
    BY <1>5, <2>2 DEF SyncFails, TypeOK
<1>6. ASSUME TypeOK, StoreCount PROVE TypeOK'
  BY <1>6 DEF StoreCount, Goto, TypeOK, Body, StaleRetries
<1>7. ASSUME TypeOK, StoreStale PROVE TypeOK'
  <2>1. CASE stale # StaleRetries
    <3>1. stale + 1 \in 0..StaleRetries
      BY <1>7, <2>1 DEF TypeOK, StaleRetries
    <3> QED
      BY <1>7, <2>1, <3>1 DEF StoreStale, Goto, TypeOK, Body
  <2>2. CASE stale = StaleRetries
    <3>1. PICK reason \in Refusals : Stay(reason)
      BY <1>7, <2>2 DEF StoreStale, Refusals
    <3>2. job' \in Job /\ receipt' \in Receipt /\ pc' \in Restoring /\ held' = held
      BY <1>7, <3>1, StayType
    <3> QED
      BY <1>7, <2>2, <3>2 DEF StoreStale, TypeOK
  <2> QED
    BY <2>1, <2>2
<1> QED
  BY <1>1, <1>2, <1>3, <1>4, <1>5, <1>6, <1>7 DEF Pass

LEMMA KernelType == TypeOK /\ Kernel => TypeOK'
<1> USE DEF world, wakes, records, helper
<1>1. ASSUME TypeOK, Enter PROVE TypeOK'
  <2>1. job' = [[job EXCEPT !.attempted = TRUE] EXCEPT !.restored = FALSE]
    BY <1>1 DEF Enter, TypeOK, Job
  <2>2. job' \in Job
    BY <1>1, <2>1, JobFields DEF TypeOK
  <2> QED
    BY <1>1, <2>2 DEF Enter, TypeOK, Body
<1>2. ASSUME TypeOK, KernelRefuses PROVE TypeOK'
  <2>1. job' = [[[job EXCEPT !.result = 2] EXCEPT !.refusal = "other"]
                  EXCEPT !.restored = TRUE]
    BY <1>2 DEF KernelRefuses, TypeOK, Job
  <2>2. job' \in Job
    <3>1. [job EXCEPT !.result = 2] \in Job
      BY <1>2, ResultType DEF TypeOK
    <3>2. [[job EXCEPT !.result = 2] EXCEPT !.refusal = "other"] \in Job
      BY <3>1, JobFields
    <3> QED
      BY <2>1, <3>2, JobFields
  <2>3. Set(receipt, "refused") \in Receipt
    BY <1>2, SetType DEF TypeOK, States
  <2>4. receipt' \in Receipt /\ pc' = "screen"
    BY <1>2, <2>3 DEF KernelRefuses, TypeOK
  <2>5. retry' \in BOOLEAN
    BY <1>2 DEF KernelRefuses, TypeOK
  <2> QED
    BY <1>2, <2>2, <2>4, <2>5 DEF KernelRefuses, TypeOK, Restoring
<1>3. ASSUME TypeOK, KernelFails PROVE TypeOK'
  <2>1. job' \in Job /\ receipt' \in Receipt /\ pc' \in Restoring /\ held' = held
    BY <1>3, BreakType DEF KernelFails
  <2> QED
    BY <1>3, <2>1 DEF KernelFails, TypeOK
<1>4. ASSUME TypeOK, KernelSleeps PROVE TypeOK'
  BY <1>4 DEF KernelSleeps, Goto, TypeOK, Body
<1>5. ASSUME TypeOK, KernelWakes PROVE TypeOK'
  <2>1. timer' \in BOOLEAN
    BY <1>5 DEF KernelWakes
  <2> QED
    BY <1>5, <2>1 DEF KernelWakes, Goto, TypeOK, Body
<1>6. ASSUME TypeOK, CompleteCount PROVE TypeOK'
  <2>1. CASE Goto("resumed") /\ UNCHANGED receipt
    BY <1>6, <2>1 DEF CompleteCount, Goto, TypeOK, Body
  <2>2. CASE Stay("busy")
    <3>1. job' \in Job /\ receipt' \in Receipt /\ pc' \in Restoring /\ held' = held
      BY <1>6, <2>2, StayType DEF Refusals
    <3> QED
      BY <1>6, <3>1 DEF CompleteCount, TypeOK
  <2> QED
    BY <1>6, <2>1, <2>2 DEF CompleteCount
<1>7. ASSUME TypeOK, Resumed PROVE TypeOK'
  <2>1. Set(receipt, "waking") \in Receipt
    BY <1>7, SetType DEF TypeOK, States, Active
  <2>2. job' \in Job /\ receipt' \in Receipt
    BY <1>7, <2>1, JobFields DEF Resumed, TypeOK
  <2>3. /\ pc' \in Body \cup Restoring /\ previous' \in Nat
        /\ count' \in {"none", "read", "stale"}
    BY <1>7 DEF Resumed, TypeOK, Body, Restoring
  <2> QED
    BY <1>7, <2>2, <2>3 DEF Resumed, TypeOK
<1>8. ASSUME TypeOK, ResumedUnproven PROVE TypeOK'
  <2>1. job' \in Job /\ receipt' \in Receipt /\ pc' \in Restoring /\ held' = held
    BY <1>8, BreakType DEF ResumedUnproven
  <2> QED
    BY <1>8, <2>1 DEF ResumedUnproven, TypeOK
<1> QED
  BY <1>1, <1>2, <1>3, <1>4, <1>5, <1>6, <1>7, <1>8 DEF Kernel

(* An answer of Reborn, or none.                                             *)
LEMMA AskType ==
  ASSUME TypeOK, NEW isDark \in BOOLEAN, NEW answered \in BOOLEAN,
         Ask(isDark, answered)
  PROVE  reborn' \in [quiet : BOOLEAN, lit : BOOLEAN] /\ silences' \in Nat
<1>1. (reborn.lit \/ ~isDark) \in BOOLEAN
  OBVIOUS
<1>2. reborn' = [quiet |-> FALSE, lit |-> reborn.lit \/ ~isDark] \/ reborn' = reborn
  BY DEF Ask
<1>3. reborn \in [quiet : BOOLEAN, lit : BOOLEAN]
  BY DEF TypeOK
<1>4. \A b \in BOOLEAN : [quiet |-> FALSE, lit |-> b] \in [quiet : BOOLEAN, lit : BOOLEAN]
  OBVIOUS
<1>5. reborn' \in [quiet : BOOLEAN, lit : BOOLEAN]
  BY <1>1, <1>2, <1>3, <1>4, Zenon
<1>6. silences' \in Nat
  BY DEF Ask, TypeOK
<1> QED
  BY <1>5, <1>6

LEMMA DarkType == dark \in BOOLEAN
  BY DEF dark

LEMMA FinallyType == TypeOK /\ Finally => TypeOK'
<1> USE DEF world, wakes, records, helper
<1>1. ASSUME TypeOK, Screen PROVE TypeOK'
  <2>1. PICK answered \in BOOLEAN :
           /\ Ask(dark, answered)
           /\ job' = [job EXCEPT !.answered = answered, !.dark = dark]
    BY <1>1 DEF Screen
  <2>2. job' = [[job EXCEPT !.answered = answered] EXCEPT !.dark = dark]
    BY <1>1, <2>1 DEF TypeOK, Job
  <2>3. job' \in Job
    BY <1>1, <2>2, DarkType, JobFields DEF TypeOK
  <2>4. reborn' \in [quiet : BOOLEAN, lit : BOOLEAN] /\ silences' \in Nat
    BY <1>1, <2>1, DarkType, AskType
  <2> QED
    BY <1>1, <2>3, <2>4 DEF Screen, TypeOK, Restoring
<1>2. ASSUME TypeOK, RadiosRestored PROVE TypeOK'
  <2>1. Set(receipt, "refused") \in Receipt /\ Set(receipt, "waking") \in Receipt
    BY <1>2, SetType DEF TypeOK, States, Active
  <2>2. receipt' \in Receipt /\ off' \subseteq Radios
    BY <1>2, <2>1 DEF RadiosRestored, TypeOK
  <2> QED
    BY <1>2, <2>2 DEF RadiosRestored, Goto, TypeOK, Restoring
<1>3. ASSUME TypeOK, RestoreRadiosFails PROVE TypeOK'
  <2>1. Set(receipt, "refused") \in Receipt /\ Set(receipt, "waking") \in Receipt
    BY <1>3, SetType DEF TypeOK, States, Active
  <2>2. receipt' \in Receipt /\ off' \subseteq Radios
    BY <1>3, <2>1 DEF RestoreRadiosFails, TypeOK
  <2>3. job' \in Job
    BY <1>3, ResultType DEF RestoreRadiosFails, TypeOK
  <2> QED
    BY <1>3, <2>2, <2>3 DEF RestoreRadiosFails, TypeOK, Restoring
<1>4. ASSUME TypeOK, Complete PROVE TypeOK'
  <2>1. PICK answered \in BOOLEAN, written \in BOOLEAN :
           /\ IF job.answered THEN UNCHANGED <<reborn, silences>> ELSE Ask(job.dark, answered)
           /\ receipt' = IF written THEN Set(receipt, completed(answered)) ELSE receipt
           /\ job' = [job EXCEPT !.answered = answered,
                        !.result = IF ~written \/ (~answered /\ @ = 0) THEN 1 ELSE @]
    BY <1>4, WritesType DEF Complete
  <2>2. Set(receipt, completed(answered)) \in Receipt
    BY <1>4, SetType DEF TypeOK, completed, States
  <2>3. job' \in Job
    <3>1. [job EXCEPT !.answered = answered] \in Job
      BY <1>4, JobFields DEF TypeOK
    <3> DEFINE n == IF ~written \/ (~answered /\ job.result = 0) THEN 1 ELSE job.result
    <3>2. n \in 0..2
      BY <1>4 DEF TypeOK, Job
    <3>3. job' = [[job EXCEPT !.answered = answered] EXCEPT !.result = n]
      BY <1>4, <2>1 DEF TypeOK, Job
    <3> HIDE DEF n
    <3> QED
      BY <3>1, <3>2, <3>3, JobFields
  <2>4. reborn' \in [quiet : BOOLEAN, lit : BOOLEAN] /\ silences' \in Nat
    <3>1. CASE job.answered
      BY <1>4, <2>1, <3>1 DEF TypeOK
    <3>2. CASE ~job.answered
      <4>1. job.dark \in BOOLEAN
        BY <1>4 DEF TypeOK, Job
      <4> QED
        BY <1>4, <2>1, <3>2, <4>1, AskType
    <3> QED
      BY <3>1, <3>2
  <2>5. receipt' \in Receipt
    BY <1>4, <2>1, <2>2 DEF TypeOK
  <2> QED
    BY <1>4, <2>3, <2>4, <2>5 DEF Complete, TypeOK, Restoring
<1>5. ASSUME TypeOK, Clear PROVE TypeOK'
  <2>1. guard' \in [pending : BOOLEAN, entered : BOOLEAN] /\ receipt' \in Receipt
    BY <1>5, GuardType DEF Clear, TypeOK
  <2> QED
    BY <1>5, <2>1 DEF Clear, TypeOK
<1> QED
  BY <1>1, <1>2, <1>3, <1>4, <1>5 DEF Finally

LEMMA WorldType == TypeOK /\ World => TypeOK'
<1> USE DEF world, wakes, records, helper
<1>1. ASSUME TypeOK, Press PROVE TypeOK'
  <2>1. count' \in {"none", "read", "stale"} /\ irqs' \in Nat
    BY <1>1 DEF Press, Overtaken, TypeOK
  <2>2. reborn' \in [quiet : BOOLEAN, lit : BOOLEAN]
    BY <1>1 DEF Press, TypeOK
  <2> QED
    BY <1>1, <2>1, <2>2 DEF Press, TypeOK
<1>2. ASSUME TypeOK, Event PROVE TypeOK'
  <2>1. inhibitors' \subseteq Unsafe \cup Working
    BY <1>2 DEF Event, TypeOK, Unsafe
  <2>2. count' \in {"none", "read", "stale"} /\ events' \in Nat
    BY <1>2 DEF Event, Overtaken, TypeOK
  <2> QED
    BY <1>2, <2>1, <2>2 DEF Event, TypeOK
<1>3. ASSUME TypeOK, Inhibit PROVE TypeOK'
  BY <1>3 DEF Inhibit, TypeOK
<1>4. ASSUME TypeOK, Operate PROVE TypeOK'
  BY <1>4 DEF Operate, TypeOK
<1>5. ASSUME TypeOK, RetryExpires PROVE TypeOK'
  BY <1>5 DEF RetryExpires, TypeOK
<1>6. ASSUME TypeOK, OwnerTrial PROVE TypeOK'
  <2>1. Begin("restored") \in Receipt /\ Begin("restore_failed") \in Receipt
    BY BeginType DEF States
  <2>2. unproven' \in BOOLEAN
    <3>1. unproven' = FALSE \/ unproven' = unproven
      BY <1>6 DEF OwnerTrial
    <3>2. unproven \in BOOLEAN
      BY <1>6 DEF TypeOK
    <3> QED
      BY <3>1, <3>2, Zenon
  <2>3. receipt' \in Receipt
    BY <1>6, <2>1 DEF OwnerTrial
  <2>4. off' \subseteq Radios
    BY <1>6 DEF OwnerTrial, TypeOK
  <2>5. reborn' \in [quiet : BOOLEAN, lit : BOOLEAN]
    <3>1. reborn' = [quiet |-> FALSE, lit |-> TRUE] \/ reborn' = reborn
      BY <1>6 DEF OwnerTrial
    <3>2. reborn \in [quiet : BOOLEAN, lit : BOOLEAN]
      BY <1>6 DEF TypeOK
    <3>3. [quiet |-> FALSE, lit |-> TRUE] \in [quiet : BOOLEAN, lit : BOOLEAN]
      OBVIOUS
    <3> QED
      BY <3>1, <3>2, <3>3, Zenon
  <2> QED
    BY <1>6, <2>2, <2>3, <2>4, <2>5 DEF OwnerTrial, TypeOK
<1>7. ASSUME TypeOK, Reset PROVE TypeOK'
  <2>1. receipt' \in Receipt
    BY <1>7, ReceiptFields DEF Reset, TypeOK
  <2>2. inhibitors' \subseteq Unsafe \cup Working /\ resets' \in Nat
    BY <1>7 DEF Reset, TypeOK
  <2>3. timer' \in BOOLEAN /\ retry' \in BOOLEAN
    BY <1>7, Zenon DEF Reset
  <2> QED
    BY <1>7, <2>1, <2>2, <2>3, NewJobType DEF Reset, TypeOK, StaleRetries
<1> QED
  BY <1>1, <1>2, <1>3, <1>4, <1>5, <1>6, <1>7 DEF World

LEMMA StepType == TypeOK /\ [Next]_vars => TypeOK'
<1>1. TypeOK /\ UNCHANGED vars => TypeOK'
  BY DEF TypeOK, vars, helper, wakes, records, world
<1> QED
  BY <1>1, StartType, AdmitType, PrepareType, SilenceType, SignalledType,
     PassType, KernelType, FinallyType, WorldType DEF Next, Helper

(* Whatever fails, is lost or resets: the helper is at one of its places and  *)
(* its records are those the code writes.                                     *)
THEOREM TypeCorrect == Spec => []TypeOK
  BY InitType, StepType, PTL DEF Spec

-----------------------------------------------------------------------------
(* The inductive invariant of the quarantine.  An unproven attempt is either *)
(* still in the kernel, or being put right, or of an earlier run.            *)

(* A clean owner trial of this boot, whatever its age.                       *)
Trial == /\ receipt.mode # "product"
         /\ receipt.product.state = "restored" /\ receipt.product.mine

(* The places a run with an unproven attempt can be in.                      *)
Doubtful == {"entering", "asleep", "returned", "resumed"} \cup Restoring

Doubt ==
  /\ unproven => pc \in {"idle"} \cup Doubtful /\ ~Trial
  /\ unproven /\ pc # "idle" => job.attempted /\ ~job.restored
  /\ unproven /\ pc \in Restoring => job.result # 0
  /\ pc \in {"store", "enter"} => quarantined /\ receipt.product.state = "sleeping"

IInv == TypeOK /\ QuarantineHolds /\ Doubt

(* Nothing of it is at stake in a step of a run whose attempts are proven,   *)
(* unless the step is about to enter the kernel.                             *)
LEMMA NothingAtStake ==
  ASSUME ~unproven', pc' \notin {"store", "enter"}
  PROVE  QuarantineHolds' /\ Doubt'
  BY DEF QuarantineHolds, Doubt

(* Where an early end leads.                                                 *)
LEMMA EndsRestoring ==
  /\ \A reason \in Refusals, r \in Receipt, prepared \in BOOLEAN :
        RefuseFrom(r, reason, prepared) => pc' \in {"screen", "clear"}
  /\ \A r \in Receipt, prepared \in BOOLEAN :
        FailFrom(r, prepared) => pc' \in {"screen", "clear"}
  BY DEF RefuseFrom, FailFrom, After

(* Before the kernel every earlier attempt is proven.                        *)
LEMMA ProvenBefore ==
  ASSUME Doubt, pc \notin {"idle"} \cup Doubtful
  PROVE  ~unproven
  BY DEF Doubt

LEMMA StartDoubt == IInv /\ Start => QuarantineHolds' /\ Doubt'
<1>1. ASSUME IInv, Request PROVE QuarantineHolds' /\ Doubt'
  <2>1. ~unproven
    BY <1>1 DEF Request, IInv, QuarantineHolds, Doubt, admission, recovered, Trial
  <2> QED
    BY <1>1, <2>1, NothingAtStake DEF Request
<1>2. ASSUME IInv, RequestRefused PROVE QuarantineHolds' /\ Doubt'
  <2>1. CASE unproven
    <3>1. ~recovered
      BY <1>2, <2>1 DEF IInv, Doubt, recovered, Trial
    <3>2. guard' = guard
      BY <1>2, <2>1, <3>1
         DEF RequestRefused, AdmissionClears, admission, IInv, QuarantineHolds
    <3>3. receipt' = receipt \/ receipt'.product.state = "refused"
      BY <1>2, BeginType DEF RequestRefused, States
    <3>4. unproven' = unproven /\ pc' = pc /\ pc = "idle"
      BY <1>2 DEF RequestRefused, helper
    <3> QED
      BY <1>2, <2>1, <3>2, <3>3, <3>4
         DEF IInv, QuarantineHolds, Doubt, quarantined, Trial, Restoring
  <2>2. CASE ~unproven
    BY <1>2, <2>2, NothingAtStake DEF RequestRefused, helper
  <2> QED
    BY <2>1, <2>2
<1> QED
  BY <1>1, <1>2 DEF Start

LEMMA AdmitDoubt == IInv /\ Admit => QuarantineHolds' /\ Doubt'
<1> SUFFICES ASSUME IInv, Admit PROVE ~unproven' /\ pc' \notin {"store", "enter"}
  BY NothingAtStake
<1>1. unproven' = unproven /\ pc \in {"locks", "baseline"}
  BY DEF Admit, LocksTaken, LocksBusy, GatesRefuse, Baseline, BaselineFails
<1>2. ~unproven
  BY <1>1, ProvenBefore DEF IInv, Doubtful, Restoring
<1>3. receipt \in Receipt /\ job.prepared \in BOOLEAN
  BY DEF IInv, TypeOK, Job
<1>4. pc' \in {"baseline", "prepare", "screen", "clear"}
  <2>1. (\E reason \in Refusals : Stay(reason)) \/ Break => pc' \in {"screen", "clear"}
    BY <1>3, EndsRestoring DEF Stay, Refuse, Break
  <2> QED
    BY <2>1
       DEF Admit, LocksTaken, LocksBusy, GatesRefuse, Baseline, BaselineFails, Refusals
<1> QED
  BY <1>1, <1>2, <1>4

LEMMA PrepareDoubt == IInv /\ Prepare => QuarantineHolds' /\ Doubt'
<1> SUFFICES ASSUME IInv, Prepare PROVE ~unproven' /\ pc' \notin {"store", "enter"}
  BY NothingAtStake
<1>1. unproven' = unproven /\ pc \in {"prepare", "waiting"}
  BY DEF Prepare, Prepared, PrepareRefused, PrepareUnanswered, PrepareSignalled,
         ApplicationReady
<1>2. ~unproven
  BY <1>1, ProvenBefore DEF IInv, Doubtful, Restoring
<1>3. receipt \in Receipt /\ job.prepared \in BOOLEAN /\ Begin("refused") \in Receipt
  BY BeginType DEF IInv, TypeOK, Job, States
<1>4. pc' \in {"waiting", "quiesce", "screen", "clear"}
  <2>1. Refuse("other", TRUE) \/ Break \/ RefuseFrom(Begin("refused"), "other", FALSE)
          => pc' \in {"screen", "clear"}
    BY <1>3, EndsRestoring DEF Refuse, Break, Refusals
  <2> QED
    BY <1>3, <2>1, EndsRestoring
       DEF Prepare, Prepared, PrepareRefused, PrepareUnanswered, PrepareSignalled,
           ApplicationReady, Refuse, Break, Refusals
<1> QED
  BY <1>1, <1>2, <1>4

LEMMA SilenceDoubt == IInv /\ Silence => QuarantineHolds' /\ Doubt'
<1> SUFFICES ASSUME IInv, Silence PROVE ~unproven' /\ pc' \notin {"store", "enter"}
  BY NothingAtStake
<1>1. unproven' = unproven /\ pc \in {"waiting", "quiesce"}
  BY DEF Silence, Quiesce, WakeNoticed, QuiesceFails, ChipOff
<1>2. ~unproven
  BY <1>1, ProvenBefore DEF IInv, Doubtful, Restoring
<1>3. receipt \in Receipt /\ job.prepared \in BOOLEAN
  BY DEF IInv, TypeOK, Job
<1>4. pc' \in {"quiesce", "loop", "screen", "clear"}
  <2>1. (\E reason \in Refusals : Stay(reason)) \/ Break => pc' \in {"screen", "clear"}
    BY <1>3, EndsRestoring DEF Stay, Refuse, Break
  <2> QED
    BY <2>1
       DEF Silence, Quiesce, WakeNoticed, QuiesceFails, ChipOff, Goto, helper, Refusals
<1> QED
  BY <1>1, <1>2, <1>4

(* A run that ends early after the kernel returned fails, and stays in doubt. *)
LEMMA BreakDoubt ==
  ASSUME IInv, Break, guard' = guard, unproven' = unproven,
         pc # "idle"
  PROVE  QuarantineHolds' /\ Doubt'
<1>1. receipt \in Receipt /\ job \in Job /\ job.prepared \in BOOLEAN
  BY DEF IInv, TypeOK, Job
<1>2. /\ pc' \in Restoring /\ job'.result = 1
      /\ job'.attempted = job.attempted /\ job'.restored = job.restored
      /\ receipt' = receipt \/ receipt'.product.state = "restore_failed"
  BY <1>1, FailFromEnds DEF Break
<1>3. CASE ~unproven
  BY <1>2, <1>3, NothingAtStake DEF Restoring
<1>4. CASE unproven
  <2>1. guard' = guard /\ quarantined
    BY <1>4 DEF IInv, QuarantineHolds
  <2>2. ~Trial'
    BY <1>2, <1>4 DEF IInv, Doubt, Trial
  <2> QED
    BY <1>2, <1>4, <2>1, <2>2
       DEF IInv, QuarantineHolds, Doubt, quarantined, Doubtful, Restoring
<1> QED
  BY <1>3, <1>4

LEMMA SignalledDoubt == IInv /\ Signalled => QuarantineHolds' /\ Doubt'
  BY BreakDoubt DEF Signalled

LEMMA PassDoubt == IInv /\ Pass => QuarantineHolds' /\ Doubt'
<1> USE DEF records
<1> SUFFICES ASSUME IInv, Pass PROVE QuarantineHolds' /\ Doubt'
  OBVIOUS
<1>1. unproven' = unproven /\ pc \in {"loop", "check", "sync", "store"}
  BY DEF Pass, ReadCount, CheckPasses, CheckRefuses, Sync, SyncFails, StoreCount,
         StoreStale
<1>2. ~unproven
  BY <1>1, ProvenBefore DEF IInv, Doubtful, Restoring
<1>3. receipt \in Receipt /\ job.prepared \in BOOLEAN
  BY DEF IInv, TypeOK, Job
<1>4. (\E reason \in Refusals : Stay(reason)) \/ Break => pc' \in {"screen", "clear"}
  BY <1>3, EndsRestoring DEF Stay, Refuse, Break
<1>5. CASE Sync
  <2>1. Set(receipt, "sleeping") \in Receipt
        /\ Set(receipt, "sleeping").product.state = "sleeping"
    BY <1>3, SetType DEF States, Active
  <2>2. receipt'.product.state = "sleeping"
    BY <1>5, <2>1, ReceiptFields DEF Sync
  <2> QED
    BY <1>1, <1>2, <1>5, <2>2
       DEF Sync, IInv, QuarantineHolds, Doubt, quarantined, Restoring
<1>6. CASE StoreCount
  BY <1>1, <1>2, <1>6
     DEF StoreCount, Goto, IInv, QuarantineHolds, Doubt, quarantined, Restoring
<1>7. CASE SyncFails
  <2>1. Set(receipt, "sleeping") \in Receipt
    BY <1>3, SetType DEF States, Active
  <2>2. pc' \in {"screen", "clear"}
    BY <1>4, <1>7, <2>1, EndsRestoring DEF SyncFails
  <2> QED
    BY <1>1, <1>2, <2>2, NothingAtStake
<1>8. CASE ReadCount \/ CheckPasses \/ CheckRefuses \/ StoreStale
  <2>1. pc' \in {"check", "sync", "loop", "screen", "clear"}
    BY <1>4, <1>8
       DEF ReadCount, CheckPasses, CheckRefuses, StoreStale, Goto, Refusals
  <2> QED
    BY <1>1, <1>2, <2>1, NothingAtStake
<1> QED
  BY <1>5, <1>6, <1>7, <1>8 DEF Pass

(* The one event that breaks it: the read that completes the handshake is    *)
(* refused, and the refusal counts as an entry that never was.               *)
ReturnRefused == CompleteCount /\ pc' # "resumed"

LEMMA KernelDoubt ==
  IInv /\ Kernel /\ ~ReturnRefused => QuarantineHolds' /\ Doubt'
<1> USE DEF records
<1>1. ASSUME IInv, Enter PROVE QuarantineHolds' /\ Doubt'
  <2>1. /\ quarantined /\ guard' = guard /\ receipt' = receipt
        /\ receipt.product.state = "sleeping"
    BY <1>1 DEF Enter, IInv, Doubt
  <2>2. job'.attempted /\ ~job'.restored
    BY <1>1 DEF Enter, IInv, TypeOK, Job
  <2>3. unproven' /\ pc' = "entering"
    BY <1>1 DEF Enter
  <2> QED
    BY <2>1, <2>2, <2>3
       DEF QuarantineHolds, Doubt, quarantined, Trial, Doubtful, Restoring
<1>2. ASSUME IInv, KernelRefuses PROVE QuarantineHolds' /\ Doubt'
  BY <1>2, NothingAtStake DEF KernelRefuses
<1>3. ASSUME IInv, KernelFails PROVE QuarantineHolds' /\ Doubt'
  BY <1>3, BreakDoubt DEF KernelFails
<1>4. ASSUME IInv, KernelSleeps \/ KernelWakes \/ CompleteCount, ~ReturnRefused
      PROVE QuarantineHolds' /\ Doubt'
  <2>1. /\ guard' = guard /\ receipt' = receipt /\ job' = job
        /\ unproven' = unproven /\ pc # "idle"
        /\ pc' \in {"asleep", "returned", "resumed"}
    <3>1. \A reason \in Refusals : Stay(reason) => pc' # "resumed"
      BY <1>4, EndsRestoring DEF Stay, Refuse, IInv, TypeOK, Job
    <3> QED
      BY <1>4, <3>1
         DEF KernelSleeps, KernelWakes, CompleteCount, Goto, ReturnRefused, Refusals
  <2> QED
    BY <1>4, <2>1
       DEF IInv, QuarantineHolds, Doubt, quarantined, Trial, Doubtful, Restoring
<1>5. ASSUME IInv, Resumed PROVE QuarantineHolds' /\ Doubt'
  BY <1>5, NothingAtStake DEF Resumed
<1>6. ASSUME IInv, ResumedUnproven PROVE QuarantineHolds' /\ Doubt'
  BY <1>6, BreakDoubt DEF ResumedUnproven
<1> QED
  BY <1>1, <1>2, <1>3, <1>4, <1>5, <1>6 DEF Kernel

(* A restore step keeps a run in doubt while it keeps the guard, does not    *)
(* turn its result into a success and leaves no receipt of a clean trial.    *)
LEMMA RestoreDoubt ==
  ASSUME IInv, pc \in Restoring, pc' \in Restoring \cup {"idle"},
         guard' = guard, unproven' = unproven,
         unproven => /\ job'.attempted = job.attempted /\ job'.restored = job.restored
                     /\ job'.result # 0 /\ ~Trial'
  PROVE  QuarantineHolds' /\ Doubt'
<1>1. CASE ~unproven
  BY <1>1, NothingAtStake DEF Restoring
<1>2. CASE unproven
  BY <1>2 DEF IInv, QuarantineHolds, Doubt, quarantined, Doubtful, Restoring
<1> QED
  BY <1>1, <1>2

LEMMA FinallyDoubt == IInv /\ Finally => QuarantineHolds' /\ Doubt'
<1> USE DEF records
<1>1. ASSUME IInv, Screen PROVE QuarantineHolds' /\ Doubt'
  <2>1. /\ pc \in Restoring /\ pc' \in Restoring
        /\ guard' = guard /\ receipt' = receipt /\ unproven' = unproven
    BY <1>1 DEF Screen, Restoring
  <2>2. /\ job'.attempted = job.attempted /\ job'.restored = job.restored
        /\ job'.result = job.result
    BY <1>1 DEF Screen, IInv, TypeOK, Job
  <2>3. unproven => job.result # 0 /\ ~Trial'
    BY <1>1, <2>1 DEF IInv, Doubt, Trial
  <2> QED
    BY <1>1, <2>1, <2>2, <2>3, RestoreDoubt
<1>2. ASSUME IInv, RadiosRestored PROVE QuarantineHolds' /\ Doubt'
  <2>1. /\ pc \in Restoring /\ pc' \in Restoring
        /\ guard' = guard /\ job' = job /\ unproven' = unproven
    BY <1>2 DEF RadiosRestored, Goto, Restoring
  <2>2. ~Trial'
    <3>1. /\ Set(receipt, "refused").product.state = "refused"
          /\ Set(receipt, "waking").product.state = "waking"
      BY <1>2, SetType DEF IInv, TypeOK, States, Active
    <3> QED
      BY <1>2, <3>1 DEF RadiosRestored, Trial
  <2>3. unproven => job'.result # 0
    BY <1>2, <2>1 DEF IInv, Doubt
  <2> QED
    BY <1>2, <2>1, <2>2, <2>3, RestoreDoubt
<1>3. ASSUME IInv, RestoreRadiosFails PROVE QuarantineHolds' /\ Doubt'
  <2>1. /\ pc \in Restoring /\ pc' \in Restoring
        /\ guard' = guard /\ unproven' = unproven
    BY <1>3 DEF RestoreRadiosFails, Restoring
  <2>2. /\ job'.attempted = job.attempted /\ job'.restored = job.restored
        /\ job'.result = 1
    BY <1>3 DEF RestoreRadiosFails, IInv, TypeOK, Job
  <2>3. unproven => ~Trial'
    <3>1. /\ Set(receipt, "refused").product.state = "refused"
          /\ Set(receipt, "waking").product.state = "waking"
      BY <1>3, SetType DEF IInv, TypeOK, States, Active
    <3> QED
      BY <1>3, <3>1 DEF RestoreRadiosFails, Trial, IInv, Doubt
  <2> QED
    BY <1>3, <2>1, <2>2, <2>3, RestoreDoubt
<1>4. ASSUME IInv, Complete PROVE QuarantineHolds' /\ Doubt'
  <2>1. PICK answered \in BOOLEAN, written \in BOOLEAN :
           /\ receipt' = IF written THEN Set(receipt, completed(answered)) ELSE receipt
           /\ job' = [job EXCEPT !.answered = answered,
                        !.result = IF ~written \/ (~answered /\ @ = 0) THEN 1 ELSE @]
    BY <1>4, WritesType DEF Complete
  <2>2. /\ pc \in Restoring /\ pc' \in Restoring
        /\ guard' = guard /\ unproven' = unproven
    BY <1>4 DEF Complete, Restoring
  <2>3. /\ job'.attempted = job.attempted /\ job'.restored = job.restored
        /\ job.result # 0 => job'.result # 0
    BY <1>4, <2>1 DEF IInv, TypeOK, Job
  <2>4. unproven => ~Trial'
    <3>1. Set(receipt, completed(answered)).product.state = completed(answered)
      BY <1>4, SetType DEF IInv, TypeOK, completed, States
    <3>2. unproven => completed(answered) # "restored"
      BY <1>4, <2>2 DEF completed, IInv, Doubt
    <3> QED
      BY <1>4, <2>1, <3>1, <3>2 DEF Trial, IInv, Doubt
  <2>5. unproven => job.result # 0
    BY <1>4, <2>2 DEF IInv, Doubt
  <2> QED
    BY <1>4, <2>2, <2>3, <2>4, <2>5, RestoreDoubt
<1>5. ASSUME IInv, Clear PROVE QuarantineHolds' /\ Doubt'
  <2>1. /\ pc \in Restoring /\ pc # "idle" /\ pc' = "idle"
        /\ job' = job /\ unproven' = unproven
    BY <1>5 DEF Clear, Restoring
  <2>2. CASE unproven
    <3>1. guard' = guard /\ receipt' = receipt
      BY <1>5, <2>1, <2>2 DEF Clear, IInv, Doubt
    <3>2. job.result # 0 /\ ~Trial'
      BY <1>5, <2>1, <2>2, <3>1 DEF IInv, Doubt, Trial
    <3> QED
      BY <1>5, <2>1, <3>1, <3>2, RestoreDoubt
  <2>3. CASE ~unproven
    BY <2>1, <2>3, NothingAtStake
  <2> QED
    BY <2>2, <2>3
<1> QED
  BY <1>1, <1>2, <1>3, <1>4, <1>5 DEF Finally

(* A step that leaves helper, guard, receipt and history alone.              *)
LEMMA Undisturbed ==
  ASSUME IInv, pc' = pc, job' = job, guard' = guard, receipt' = receipt,
         unproven' = unproven
  PROVE  QuarantineHolds' /\ Doubt'
  BY DEF IInv, QuarantineHolds, Doubt, quarantined, Trial

LEMMA WorldDoubt == IInv /\ World => QuarantineHolds' /\ Doubt'
<1>1. ASSUME IInv, Press \/ Event \/ Inhibit \/ Operate \/ RetryExpires
      PROVE QuarantineHolds' /\ Doubt'
  BY <1>1, Undisturbed
     DEF Press, Event, Inhibit, Operate, RetryExpires, helper, records
<1>2. ASSUME IInv, OwnerTrial PROVE QuarantineHolds' /\ Doubt'
  <2>1. pc = "idle" /\ pc' = "idle" /\ guard' = guard
    BY <1>2 DEF OwnerTrial, helper
  <2>2. CASE ~unproven'
    BY <2>1, <2>2, NothingAtStake
  <2>3. CASE unproven'
    <3>1. receipt' = Begin("restore_failed") /\ unproven
      BY <1>2, <2>3 DEF OwnerTrial
    <3>2. ~Trial'
      BY <3>1, BeginType DEF Trial, States
    <3> QED
      BY <1>2, <2>1, <2>3, <3>1, <3>2
         DEF IInv, QuarantineHolds, Doubt, quarantined, Restoring
  <2> QED
    BY <2>2, <2>3
<1>3. ASSUME IInv, Reset PROVE QuarantineHolds' /\ Doubt'
  <2>1. pc' = "idle" /\ guard' = guard /\ unproven' = unproven
    BY <1>3 DEF Reset
  <2>2. ~receipt'.product.mine
    BY <1>3, ReceiptFields DEF Reset, IInv, TypeOK
  <2> QED
    BY <1>3, <2>1, <2>2
       DEF IInv, QuarantineHolds, Doubt, quarantined, Trial, Restoring
<1> QED
  BY <1>1, <1>2, <1>3 DEF World

-----------------------------------------------------------------------------
(* The quarantine.                                                           *)

LEMMA InitHolds == Init => IInv
  BY InitType DEF Init, IInv, QuarantineHolds, Doubt, Restoring

LEMMA StepHolds == IInv /\ [Next]_vars /\ [~ReturnRefused]_vars => IInv'
<1> SUFFICES ASSUME IInv, [Next]_vars, [~ReturnRefused]_vars PROVE IInv'
  OBVIOUS
<1>1. TypeOK'
  BY StepType DEF IInv
<1>2. QuarantineHolds' /\ Doubt'
  <2>1. CASE UNCHANGED vars
    BY <2>1, Undisturbed DEF vars, helper, records
  <2>2. CASE Next /\ ~ReturnRefused
    BY <2>2, StartDoubt, AdmitDoubt, PrepareDoubt, SilenceDoubt, SignalledDoubt,
       PassDoubt, KernelDoubt, FinallyDoubt, WorldDoubt DEF Next, Helper
  <2> QED
    BY <2>1, <2>2
<1> QED
  BY <1>1, <1>2 DEF IInv

(* A fault the constants leave out never happens.                            *)
LEMMA NeverRefused ==
  ASSUME "busyReturn" \notin Faults
  PROVE  TypeOK /\ [Next]_vars => [~ReturnRefused]_vars
<1> SUFFICES ASSUME CompleteCount PROVE pc' = "resumed"
  BY DEF ReturnRefused
<1> QED
  BY DEF CompleteCount, Goto

(* While a kernel attempt is not known to be undone or completed, the guard   *)
(* refuses this image's sleep: whatever fails or resets, the refused          *)
(* handshake after the kernel's return is the only way out of it.             *)
THEOREM Quarantine == Spec /\ [][~ReturnRefused]_vars => []QuarantineHolds
<1>1. IInv => QuarantineHolds
  BY DEF IInv
<1> QED
  BY InitHolds, StepHolds, <1>1, PTL DEF Spec

(* So it always holds where that handshake is not refused.                    *)
COROLLARY QuarantineAlways ==
  ASSUME "busyReturn" \notin Faults
  PROVE  Spec => []QuarantineHolds
BY TypeCorrect, NeverRefused, Quarantine, PTL DEF Spec

(* The kernel is entered only when every earlier attempt is proven, with the  *)
(* same one exception.                                                        *)
THEOREM NeverBlind == Spec /\ [][~ReturnRefused]_vars => NoBlindRepeat
<1>1. IInv /\ [Next]_vars => [pc = "enter" /\ pc' = "entering" => ~unproven]_vars
  BY ProvenBefore DEF IInv, Doubtful, Restoring
<1> QED
  BY InitHolds, StepHolds, <1>1, PTL DEF Spec, NoBlindRepeat

=============================================================================
