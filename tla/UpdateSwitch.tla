----------------------------- MODULE UpdateSwitch -----------------------------
(***************************************************************************)
(* What the updater promises its owner: the player is always on one whole  *)
(* release.  It moves to a release that was offered to it in one step, on  *)
(* trial, and from there it is confirmed or returns in one step to the     *)
(* release before; or it stops and waits for a person.                     *)
(***************************************************************************)
EXTENDS Naturals

CONSTANTS Release, First, MayRollBack, MayDowngrade

VARIABLES
  runs,    \* the release the player is on, 0 when a person must decide
  before,  \* the release to return to
  offer,   \* the release that was queued last
  phase,   \* how far the move to it is
  mark     \* the highest release that was ever confirmed

vars == <<runs, before, offer, phase, mark>>

Higher(a, b) == IF a >= b THEN a ELSE b

Init == /\ runs = First /\ before = 0 /\ offer = 0
        /\ phase = "settled" /\ mark = 0

Offer(r) ==
  /\ phase \in {"settled", "confirmed"}
  /\ r > mark \/ r \in MayDowngrade
  /\ offer' = r /\ before' = runs /\ phase' = "offered"
  /\ UNCHANGED <<runs, mark>>

(* Cancelled, or found unfit before anything was written. *)
Drop ==
  /\ phase = "offered" /\ phase' = "settled"
  /\ UNCHANGED <<runs, before, offer, mark>>

Move ==
  /\ phase = "offered" /\ phase' = "trial"
  /\ runs' = offer
  /\ UNCHANGED <<before, offer, mark>>

Vouch ==
  /\ phase = "trial" /\ mark' = Higher(mark, runs)
  /\ UNCHANGED <<runs, before, offer, phase>>

Confirm ==
  /\ phase = "trial" /\ mark >= runs /\ phase' = "confirmed"
  /\ UNCHANGED <<runs, before, offer, mark>>

Return ==
  /\ phase = "trial" \/ (phase = "confirmed" /\ runs \in MayRollBack)
  /\ phase' = "returning"
  /\ UNCHANGED <<runs, before, offer, mark>>

Undo ==
  /\ phase \in {"offered", "returning"} /\ phase' = "undone"
  /\ runs' = before
  /\ UNCHANGED <<before, offer, mark>>

Settle ==
  /\ phase = "undone" /\ phase' = "settled"
  /\ UNCHANGED <<runs, before, offer, mark>>

GiveUp ==
  /\ phase \in {"offered", "returning", "undone"} /\ phase' = "stuck"
  /\ runs' = 0
  /\ UNCHANGED <<before, offer, mark>>

Next ==
  \/ (\E r \in Release : Offer(r))
  \/ Drop \/ Move \/ Vouch \/ Confirm \/ Return \/ Undo \/ Settle \/ GiveUp

Spec == Init /\ [][Next]_vars
=============================================================================
