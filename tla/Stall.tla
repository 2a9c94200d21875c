-------------------------------- MODULE Stall --------------------------------
(***************************************************************************)
(* The write side's watch (view-engine, stall.rs) over the two counters of *)
(* Outbox: each pass of the runtime loop loads the number of messages      *)
(* still owed and the number delivered, decides whether the writer is      *)
(* wedged, and sleeps until the watch would have something new to say.     *)
(*                                                                         *)
(* The writer bumps the delivered count before it releases the message     *)
(* from the owed count, and the watch loads the owed count first, so a     *)
(* pass can see the pair torn.  A pass, and the two steps of the writer,    *)
(* are shorter than a unit of the clock.  progress and seen are history:   *)
(* when the writer last had nothing to write or delivered, and which pass  *)
(* first found the backlog standing since then.  Its names are apart from  *)
(* Outbox's, so that one module can prove about both.                      *)
(***************************************************************************)
EXTENDS Integers

CONSTANTS
  Threshold,  \* WRITER_STALL_THRESHOLD
  MaxGap,     \* the longest the loop goes between two passes
  MaxMsgs,    \* bound: messages handed off
  MaxTime     \* bound: the clock

ASSUME ThresholdPositive == Threshold \in Nat \ {0}
ASSUME StallBoundsAreNat == {MaxGap, MaxMsgs, MaxTime} \subseteq Nat

VARIABLES
  now,
  owed, writes, delivering, handed, \* Outbox: handed_off, wrote; messages so far
  opc, rOwed,                       \* the pass
  since, delivered, stalled, wake,  \* OutboxStallWatch, and what it answered
  lastPass, progress, seen          \* history

outbox == <<owed, writes, delivering, handed>>
watch == <<since, delivered, stalled, wake>>
stallVars == <<now, outbox, opc, rOwed, watch, lastPass, progress, seen>>

None == -1
Times == 0 .. MaxTime

StallTypeOK ==
  /\ now \in Times /\ lastPass \in Times /\ progress \in Times
  /\ owed \in 0 .. MaxMsgs /\ writes \in 0 .. MaxMsgs /\ handed \in 0 .. MaxMsgs
  /\ delivering \in BOOLEAN
  /\ opc \in {"asleep", "loaded", "folded"} /\ rOwed \in 0 .. MaxMsgs
  /\ since \in Times \cup {None} /\ seen \in Times \cup {None}
  /\ delivered \in 0 .. MaxMsgs /\ stalled \in BOOLEAN
  /\ wake \in Nat \cup {None}

StallInit ==
  /\ now = 0
  /\ owed = 0 /\ writes = 0 /\ delivering = FALSE /\ handed = 0
  /\ opc = "asleep" /\ rOwed = 0
  /\ since = None /\ delivered = 0 /\ stalled = FALSE /\ wake = None
  /\ lastPass = 0 /\ progress = 0 /\ seen = None

-----------------------------------------------------------------------------
(* The outbox, as module Outbox counts it.                                 *)

CountHandOff ==
  /\ handed < MaxMsgs
  /\ handed' = handed + 1 /\ owed' = owed + 1
  /\ progress' = IF owed = 0 THEN now ELSE progress
  /\ UNCHANGED <<now, writes, delivering, opc, rOwed, watch, lastPass, seen>>

(* The bytes are out.                                                      *)
CountDelivered ==
  /\ owed > 0 /\ ~delivering
  /\ writes' = writes + 1 /\ delivering' = TRUE
  /\ progress' = now /\ seen' = None
  /\ UNCHANGED <<now, owed, handed, opc, rOwed, watch, lastPass>>

Release ==
  /\ delivering
  /\ owed' = owed - 1 /\ delivering' = FALSE
  /\ progress' = now /\ seen' = None
  /\ UNCHANGED <<now, writes, handed, opc, rOwed, watch, lastPass>>

-----------------------------------------------------------------------------
(* One pass of the loop: observe, then poll_deadline.                      *)

LoadOwed ==
  /\ opc = "asleep"
  /\ rOwed' = owed
  /\ opc' = "loaded"
  /\ UNCHANGED <<now, outbox, watch, lastPass, progress, seen>>

(* Mutant: a delivery does not open the window again. *)
Fold_IgnoresDeliveries ==
  /\ opc = "loaded"
  /\ delivered' = writes
  /\ LET anchor == IF since = None THEN now ELSE since IN
       /\ since' = IF rOwed = 0 THEN None ELSE anchor
       /\ stalled' = (rOwed > 0 /\ now - anchor >= Threshold)
  /\ opc' = "folded"
  /\ lastPass' = now
  /\ seen' = IF rOwed > 0 /\ owed > 0 /\ ~delivering /\ seen = None THEN now ELSE seen
  /\ UNCHANGED <<now, outbox, rOwed, wake, progress>>

(* fold_lazily.                                                            *)
Fold ==
  /\ opc = "loaded"
  /\ delivered' = writes
  /\ LET moved == writes # delivered
         anchor == IF since = None THEN now ELSE since
     IN
       /\ since' = IF rOwed = 0 THEN None ELSE IF moved THEN now ELSE anchor
       /\ stalled' = (rOwed > 0 /\ ~moved /\ now - anchor >= Threshold)
  /\ opc' = "folded"
  /\ lastPass' = now
  /\ seen' = IF rOwed > 0 /\ owed > 0 /\ ~delivering /\ seen = None THEN now ELSE seen
  /\ UNCHANGED <<now, outbox, rOwed, wake, progress>>

(* Mutant: every sleep is a whole threshold. *)
Sleep_Whole ==
  /\ opc = "folded"
  /\ wake' = IF since = None THEN None ELSE now + Threshold
  /\ opc' = "asleep" /\ rOwed' = 0
  /\ UNCHANGED <<now, outbox, since, delivered, stalled, lastPass, progress, seen>>

Sleep ==
  /\ opc = "folded"
  /\ LET remaining == Threshold - (now - since) IN
       wake' = IF since = None THEN None
               ELSE now + (IF remaining <= 0 THEN Threshold ELSE remaining)
  /\ opc' = "asleep" /\ rOwed' = 0
  /\ UNCHANGED <<now, outbox, since, delivered, stalled, lastPass, progress, seen>>

(* The loop does not sleep past its deadline, nor past its longest gap.    *)
TimePasses ==
  /\ opc = "asleep" /\ ~delivering /\ now < MaxTime
  /\ wake = None \/ now < wake
  /\ now - lastPass < MaxGap
  /\ now' = now + 1
  /\ UNCHANGED <<outbox, opc, rOwed, watch, lastPass, progress, seen>>

StallNext ==
  \/ CountHandOff \/ CountDelivered \/ Release
  \/ LoadOwed \/ Fold \/ Sleep \/ TimePasses

StallSpec == StallInit /\ [][StallNext]_stallVars

-----------------------------------------------------------------------------
(* Properties.                                                             *)

(* A writer called wedged has had something to write and has delivered     *)
(* nothing for the threshold, less the one gap between passes a torn       *)
(* reading can charge to it.                                               *)
StallIsReal == [][Fold /\ stalled' => now - progress >= Threshold - MaxGap]_stallVars

(* A backlog a pass found standing is reported no later than one threshold *)
(* after that pass: the loop wakes for it, and the pass it makes says so.  *)
NeverSleepsThrough == seen # None /\ ~stalled => now - seen <= Threshold
=============================================================================
