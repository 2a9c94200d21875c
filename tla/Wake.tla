-------------------------------- MODULE Wake --------------------------------
(***************************************************************************)
(* How the runtime loop sleeps and is woken (view, wake.rs, and            *)
(* wait_for_msg_unified in runtime.rs).  Producers put a message on the    *)
(* bounded channel and signal a self-pipe, whose writes a flag dedups; the *)
(* loop empties its queues, clears flag and pipe, looks once more, and     *)
(* polls the pipe, the terminal and the fatal-signal pipe.                 *)
(*                                                                         *)
(* A message is only counted: what it says is the concern of the modules   *)
(* that send it.  Every access to the flag, the pipe and the channel is a  *)
(* step of its own.                                                        *)
(***************************************************************************)
EXTENDS Naturals, FiniteSets

CONSTANTS
  Producers,  \* threads holding a LoopSender
  MaxSends,   \* bound: messages each sends
  MaxKeys,    \* bound: terminal events
  Capacity    \* MSG_CHANNEL_CAPACITY

ASSUME ProducersFinite == IsFiniteSet(Producers)
ASSUME BoundsAreNat == {MaxSends, MaxKeys} \subseteq Nat /\ Capacity \in Nat \ {0}

VARIABLES
  ppc, left,       \* each producer: where it is in send, what it has left to send
  queue,           \* messages in the channel
  flag, bytes,     \* WakerShared::pending, bytes in the wake pipe
  lpc,             \* the loop
  typed, tty, staged,  \* terminal: events so far, in the kernel, drained into `pending'
  signal           \* a fatal signal was delivered

producerVars == <<ppc, left>>
terminalVars == <<typed, tty, staged>>
vars == <<producerVars, queue, flag, bytes, lpc, terminalVars, signal>>

TypeOK ==
  /\ ppc \in [Producers -> {"idle", "signal", "write"}]
  /\ left \in [Producers -> 0 .. MaxSends]
  /\ queue \in 0 .. Capacity /\ flag \in BOOLEAN /\ bytes \in Nat
  /\ lpc \in {"take", "clear", "drain", "recheck", "poll", "exited"}
  /\ typed \in 0 .. MaxKeys /\ tty + staged <= typed /\ signal \in BOOLEAN

Init ==
  /\ ppc = [p \in Producers |-> "idle"] /\ left = [p \in Producers |-> MaxSends]
  /\ queue = 0 /\ flag = FALSE /\ bytes = 0
  /\ lpc = "take"
  /\ typed = 0 /\ tty = 0 /\ staged = 0 /\ signal = FALSE

-----------------------------------------------------------------------------
(* LoopSender::send and try_send: the message first, the signal after it.  *)

Goto(p, where) == ppc' = [ppc EXCEPT ![p] = where]

(* try_send refuses, and send blocks, while the channel is full.           *)
Queue(p) ==
  /\ ppc[p] = "idle" /\ left[p] > 0
  /\ queue < Capacity /\ lpc # "exited"
  /\ queue' = queue + 1
  /\ left' = [left EXCEPT ![p] = @ - 1]
  /\ Goto(p, "signal")
  /\ UNCHANGED <<flag, bytes, lpc, terminalVars, signal>>

(* wake: the swap decides who writes.                                      *)
Swap(p) ==
  /\ ppc[p] = "signal"
  /\ flag' = TRUE
  /\ Goto(p, IF flag THEN "idle" ELSE "write")
  /\ UNCHANGED <<left, queue, bytes, lpc, terminalVars, signal>>

Write(p) ==
  /\ ppc[p] = "write"
  /\ bytes' = bytes + 1
  /\ Goto(p, "idle")
  /\ UNCHANGED <<left, queue, flag, lpc, terminalVars, signal>>

-----------------------------------------------------------------------------
(* wait_for_msg_unified; a message it returns is dispatched before the     *)
(* loop comes back to it.                                                  *)

TakeStaged ==
  /\ lpc = "take" /\ staged > 0
  /\ staged' = staged - 1
  /\ UNCHANGED <<producerVars, queue, flag, bytes, lpc, typed, tty, signal>>

TryRecv(at, next) ==
  /\ lpc = at
  /\ IF queue > 0 THEN queue' = queue - 1 /\ lpc' = "take"
     ELSE lpc' = next /\ UNCHANGED queue
  /\ UNCHANGED <<producerVars, flag, bytes, terminalVars, signal>>

TakeQueued == staged = 0 /\ TryRecv("take", "clear")

(* clear: the flag is folded back, then the pipe is drained.               *)
ClearFlag ==
  /\ lpc = "clear"
  /\ flag' = FALSE
  /\ lpc' = "drain"
  /\ UNCHANGED <<producerVars, queue, bytes, terminalVars, signal>>

(* Mutant: the pipe is drained only while the flag stands. *)
DrainPipe_IfFlagged ==
  /\ lpc = "drain"
  /\ bytes' = IF flag THEN 0 ELSE bytes
  /\ lpc' = "recheck"
  /\ UNCHANGED <<producerVars, queue, flag, terminalVars, signal>>

DrainPipe ==
  /\ lpc = "drain"
  /\ bytes' = 0
  /\ lpc' = "recheck"
  /\ UNCHANGED <<producerVars, queue, flag, terminalVars, signal>>

Recheck == TryRecv("recheck", "poll")

Ready == bytes > 0 \/ tty > 0 \/ signal

(* poll_readiness returned: a signal first, then the terminal's events.    *)
Woken ==
  /\ lpc = "poll" /\ Ready
  /\ lpc' = IF signal THEN "exited" ELSE "take"
  /\ IF signal THEN UNCHANGED <<tty, staged>> ELSE staged' = staged + tty /\ tty' = 0
  /\ UNCHANGED <<producerVars, queue, flag, bytes, typed, signal>>

(* Mutant: an elapsed deadline polls again. *)
TimedOut_PollsAgain ==
  /\ lpc = "poll" /\ ~Ready
  /\ UNCHANGED vars

(* The deadline elapsed: the caller makes a pass and waits again.          *)
TimedOut ==
  /\ lpc = "poll" /\ ~Ready
  /\ lpc' = "take"
  /\ UNCHANGED <<producerVars, queue, flag, bytes, terminalVars, signal>>

-----------------------------------------------------------------------------
(* The terminal and the system (external).                                 *)

Types ==
  /\ typed < MaxKeys
  /\ typed' = typed + 1 /\ tty' = tty + 1
  /\ UNCHANGED <<producerVars, queue, flag, bytes, lpc, staged, signal>>

Terminates ==
  /\ ~signal /\ signal' = TRUE
  /\ UNCHANGED <<producerVars, queue, flag, bytes, lpc, terminalVars>>

Signalling(p) == Swap(p) \/ Write(p)
Passing == TakeStaged \/ TakeQueued \/ ClearFlag \/ DrainPipe \/ Recheck \/ Woken
Next ==
  \/ \E p \in Producers : Queue(p) \/ Signalling(p)
  \/ Passing \/ TimedOut \/ Types \/ Terminates

Spec == Init /\ [][Next]_vars

(* Threads run.  Nothing is assumed of the deadline, which may be none.    *)
FairSpec == Spec /\ WF_vars(Passing) /\ \A p \in Producers : WF_vars(Signalling(p))

(* The heartbeat's deadline is armed for as long as an engine is watched   *)
(* (module Heartbeat, ArmedNamesADeadline), and elapses.                   *)
DeadlineArmed == WF_vars(TimedOut)

-----------------------------------------------------------------------------
(* Properties.                                                             *)

(* The pipe holds at most one byte per producer, and one for each of the   *)
(* two times the flag is clear between drains: a write never finds it full. *)
PipeNeverFills == bytes <= Cardinality(Producers) + 2

(* Once producers and terminal are quiet no byte stays behind for the      *)
(* level-triggered poll to spin on: one left by a producer preempted in    *)
(* its signal is gone after the next clear.                                *)
Quiet == \A p \in Producers : ppc[p] = "idle" /\ left[p] = 0
NoBusyLoop == <>[](Quiet /\ ~signal) => <>[](bytes = 0)

(* While deadlines are armed, every queued message is dispatched.          *)
QueueIsDrained == DeadlineArmed => queue > 0 ~> (queue = 0 \/ lpc = "exited")

(* The doc of clear and of wait_for_msg_unified: a send landing after the  *)
(* re-check writes a fresh byte the poll sees.                             *)
NoLostWakeup ==
  lpc = "poll" /\ queue > 0 =>
    \/ bytes > 0
    \/ \E p \in Producers : ppc[p] = "write" \/ (ppc[p] = "signal" /\ ~flag)
=============================================================================
