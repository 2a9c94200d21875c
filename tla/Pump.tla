-------------------------------- MODULE Pump --------------------------------
(***************************************************************************)
(* The damage pump of an engine connection (view-engine, damage.rs) and    *)
(* the part of the runtime loop that empties it (view, runtime.rs).  The   *)
(* reader thread folds nvim's redraw batches into a buffer the loop drains *)
(* at will, and routes everything else into the loop's bounded channel     *)
(* without ever blocking: a refused message waits in a slot or a queue for *)
(* the next routing attempt, a refused token is disarmed, a refused        *)
(* request ends the connection.  Only the terminal stop blocks.            *)
(*                                                                         *)
(* Batches are numbered in wire order and compaction is left out: what is  *)
(* staged is batches drawn + 1 to folded, and flush and the barriers are   *)
(* lengths of prefixes of it, as in the code.  Of the fourteen slots there *)
(* are two, in the order they are retried: Heartbeat, FloatRows.  wireEnd, *)
(* sent and got are history: the last flushed batch nvim sent, and the     *)
(* numbered messages of each kind it sent and the loop dispatched last.    *)
(***************************************************************************)
EXTENDS Naturals, Sequences

CONSTANTS
  ChanCap,   \* the loop channel's size: 64 in the code, more than there are slots
  MaxMsgs,   \* bound: messages nvim sends, answers to later probes aside
  MaxKeys    \* bound: keys typed while the session holds its input

ASSUME CapHoldsTheSlots == ChanCap \in Nat /\ ChanCap > 1
ASSUME BoundsAreNat == {MaxMsgs, MaxKeys} \subseteq Nat

VARIABLES
  folded, drawn,           \* batches folded, batches handed to the loop
  flush, barriers, pending,  \* DamageBuffer: flush_index, barriers, pending
  attached, presink, beatSlot, rowsSlot, queued,  \* Route
  lock,                    \* who holds the route's lock
  chan,                    \* the loop's channel
  at, op,                  \* where each thread is, the message the reader routes
  cur,                     \* the message the loop has received
  msgs, keys,              \* bounds
  wireEnd, sent, got       \* history

damage == <<folded, drawn, flush, barriers, pending>>
slots == <<beatSlot, rowsSlot, queued>>
route == <<attached, presink, slots>>
bounds == <<msgs, keys>>
history == <<wireEnd, sent, got>>
vars == <<damage, route, lock, chan, at, op, cur, bounds, history>>

Threads == {"reader", "loop"}
Numbered == {"rows", "queued", "request"}
Kinds == Numbered \cup {"token", "invoke", "beat", "stop"}
Msg == [kind : Kinds, nr : 0 .. MaxMsgs]
Null == [kind |-> "none", nr |-> 0]
Staged == folded - drawn
At(kind, s) == {i \in 1 .. Len(s) : s[i].kind = kind}

DamageOK ==
  /\ folded \in 0 .. MaxMsgs /\ drawn \in 0 .. folded
  /\ flush \in 0 .. Staged /\ pending \in BOOLEAN
  /\ barriers \in Seq(0 .. flush)
RouteOK ==
  /\ attached \in BOOLEAN /\ presink \in Seq(Msg)
  /\ {beatSlot, rowsSlot} \subseteq Msg \cup {Null} /\ queued \in Seq(Msg)
  /\ lock \in Threads \cup {"free"}
  /\ chan \in Seq(Msg) /\ Len(chan) <= ChanCap
  /\ {op, cur} \subseteq Msg \cup {Null}
ReaderAt ==
  {"idle", "lock", "beat", "rows", "queue", "raise", "send", "lower", "disarm", "stopping",
   "posting", "over"}
LoopAt ==
  {"start", "attached", "drain", "cutover", "wait", "received", "residue", "lock", "beat", "rows",
   "queue"}
ThreadsOK ==
  /\ at \in [Threads -> ReaderAt \cup LoopAt]
  /\ at["reader"] \in ReaderAt /\ at["loop"] \in LoopAt
CountsOK ==
  /\ wireEnd \in 0 .. folded
  /\ sent \in [Numbered -> 0 .. MaxMsgs] /\ got \in [Numbered -> 0 .. MaxMsgs]
  /\ msgs \in 0 .. MaxMsgs /\ keys \in 0 .. MaxKeys
  /\ folded <= msgs /\ \A k \in Numbered : sent[k] <= msgs
TypeOK == DamageOK /\ RouteOK /\ ThreadsOK /\ CountsOK

Init ==
  /\ folded = 0 /\ drawn = 0 /\ flush = 0 /\ barriers = <<>> /\ pending = FALSE
  /\ attached = FALSE /\ presink = <<>>
  /\ beatSlot = Null /\ rowsSlot = Null /\ queued = <<>>
  /\ lock = "free" /\ chan = <<>>
  /\ at = [reader |-> "idle", loop |-> "start"]
  /\ op = Null /\ cur = Null
  /\ msgs = 0 /\ keys = 0
  /\ wireEnd = 0
  /\ sent = [k \in Numbered |-> 0] /\ got = [k \in Numbered |-> 0]

Goto(t, where) == at' = [at EXCEPT ![t] = where]
HasRoom == Len(chan) < ChanCap
Idle == op' = Null /\ Goto("reader", "idle")

-----------------------------------------------------------------------------
(* DamageBuffer.                                                           *)

(* drain_to: the first end staged batches leave, every index moves down.   *)
DrainTo(end) ==
  /\ drawn' = drawn + end
  /\ flush' = flush - end
  /\ UNCHANGED folded

Moved(bs, end) == [i \in 1 .. Len(bs) |-> IF bs[i] > end THEN bs[i] - end ELSE 0]

(* Mutant: drains as the consumer that admits no invocation does. *)
TakeToBarrier_Ignores ==
  DrainTo(flush) /\ barriers' = Moved(barriers, flush) /\ pending' = FALSE

(* The runtime's drain.  Past a barrier the invocation is the wakeup. *)
TakeToBarrier ==
  LET stops == barriers # <<>> /\ Head(barriers) < flush
      end == IF stops THEN Head(barriers) ELSE flush
  IN  DrainTo(end) /\ barriers' = Moved(barriers, end) /\ pending' = stops

PassBarrier ==
  LET end == IF barriers = <<>> THEN 0 ELSE Head(barriers)
  IN  /\ DrainTo(end)
      /\ barriers' = IF barriers = <<>> THEN <<>> ELSE Moved(Tail(barriers), end)
      /\ UNCHANGED pending

-----------------------------------------------------------------------------
(* The reader: one message of nvim's at a time.                            *)

Begin(m) == op' = m /\ Goto("reader", "lock")

(* fold_redraw, first half: a batch nvim may have split before its Flush.  *)
Fold(flushes) ==
  /\ at["reader"] = "idle" /\ msgs < MaxMsgs
  /\ msgs' = msgs + 1
  /\ folded' = folded + 1
  /\ flush' = IF flushes THEN Staged + 1 ELSE flush
  /\ wireEnd' = IF flushes THEN folded + 1 ELSE wireEnd
  /\ pending' = TRUE
  /\ IF pending THEN UNCHANGED <<at, op>> ELSE Begin([kind |-> "token", nr |-> 0])
  /\ UNCHANGED <<drawn, barriers, route, lock, chan, cur, keys, sent, got>>

(* An invocation carries what nvim had shown when it sent it.              *)
Invoke ==
  /\ at["reader"] = "idle" /\ msgs < MaxMsgs
  /\ msgs' = msgs + 1
  /\ Begin([kind |-> "invoke", nr |-> wireEnd])
  /\ UNCHANGED <<damage, route, lock, chan, cur, keys, history>>

Answer(kind) ==
  /\ at["reader"] = "idle" /\ msgs < MaxMsgs
  /\ msgs' = msgs + 1
  /\ sent' = [sent EXCEPT ![kind] = @ + 1]
  /\ Begin([kind |-> kind, nr |-> sent[kind] + 1])
  /\ UNCHANGED <<damage, route, lock, chan, cur, keys, wireEnd, got>>

Beat ==
  /\ at["reader"] = "idle" /\ msgs < MaxMsgs
  /\ msgs' = msgs + 1
  /\ Begin([kind |-> "beat", nr |-> 0])
  /\ UNCHANGED <<damage, route, lock, chan, cur, keys, history>>

(* The answers of the probes to come: an interval later, a loop that runs  *)
(* has emptied its channel.                                                *)
LaterBeat ==
  /\ at["reader"] = "idle" /\ attached /\ chan = <<>> /\ at["loop"] = "wait"
  /\ Begin([kind |-> "beat", nr |-> 0])
  /\ UNCHANGED <<damage, route, lock, chan, cur, bounds, history>>

StreamEnds ==
  /\ at["reader"] = "idle"
  /\ Goto("reader", "stopping")
  /\ UNCHANGED <<damage, route, lock, chan, op, cur, bounds, history>>

-----------------------------------------------------------------------------
(* retry_deferred, under the route's lock: the reader's own retry before   *)
(* every message it routes, and the loop's before a key while it holds     *)
(* input.  The try_send of a held message is a step, the loop takes        *)
(* messages between them; an empty slot is passed over.                    *)

AfterBeat == IF rowsSlot # Null THEN "rows" ELSE "queue"

Acquire(t) ==
  /\ at[t] = "lock" /\ lock = "free"
  /\ lock' = t
  /\ Goto(t, IF beatSlot # Null THEN "beat" ELSE AfterBeat)
  /\ UNCHANGED <<damage, route, chan, op, cur, bounds, history>>

RetryBeat(t) ==
  /\ at[t] = "beat"
  /\ IF HasRoom THEN chan' = Append(chan, beatSlot) /\ beatSlot' = Null
     ELSE UNCHANGED <<chan, beatSlot>>
  /\ Goto(t, AfterBeat)
  /\ UNCHANGED <<damage, attached, presink, rowsSlot, queued, lock, op, cur, bounds, history>>

RetryRows(t) ==
  /\ at[t] = "rows"
  /\ IF HasRoom THEN chan' = Append(chan, rowsSlot) /\ rowsSlot' = Null
     ELSE UNCHANGED <<chan, rowsSlot>>
  /\ Goto(t, "queue")
  /\ UNCHANGED <<damage, attached, presink, beatSlot, queued, lock, op, cur, bounds, history>>

(* retry_deferred_queued, one message of it. *)
RetryQueued(t) ==
  /\ at[t] = "queue" /\ queued # <<>> /\ HasRoom
  /\ chan' = Append(chan, Head(queued)) /\ queued' = Tail(queued)
  /\ UNCHANGED <<damage, attached, presink, beatSlot, rowsSlot, lock, at, op, cur, bounds,
                 history>>

(* What follows the retry: a token and an invocation go with the lock      *)
(* released and the sink cloned, the rest under it, and all of them to the *)
(* FIFO while there is no sink, where a token is not needed.               *)
HandOver ==
  /\ IF attached
     THEN /\ Goto("reader", IF op.kind = "invoke" THEN "raise" ELSE "send")
          /\ lock' = IF op.kind \in {"token", "invoke"} THEN "free" ELSE lock
          /\ UNCHANGED <<op, presink>>
     ELSE /\ lock' = "free"
          /\ presink' = IF op.kind = "token" THEN presink ELSE Append(presink, op)
          /\ Idle
  /\ UNCHANGED <<damage, attached, slots, chan, cur, bounds, history>>

Tried == queued = <<>> \/ ~HasRoom

(* Mutant: the retry may end before the queue is tried. *)
Retried_Early == at["reader"] = "queue" /\ HandOver

Retried == at["reader"] = "queue" /\ Tried /\ HandOver

RetriedParked ==
  /\ at["loop"] = "queue" /\ Tried
  /\ lock' = "free"
  /\ Goto("loop", "residue")
  /\ UNCHANGED <<damage, route, chan, op, cur, bounds, history>>

-----------------------------------------------------------------------------
(* The sends.                                                              *)

Sends(kinds) == at["reader"] = "send" /\ op.kind \in kinds
Sent == chan' = Append(chan, op) /\ Idle

SendToken ==
  /\ Sends({"token"})
  /\ IF HasRoom THEN Sent ELSE Goto("reader", "disarm") /\ UNCHANGED <<chan, op>>
  /\ UNCHANGED <<damage, route, lock, cur, bounds, history>>

(* fold_redraw, after a refused token. *)
Disarm ==
  /\ at["reader"] = "disarm"
  /\ pending' = FALSE
  /\ Idle
  /\ UNCHANGED <<folded, drawn, flush, barriers, route, lock, chan, cur, bounds, history>>

(* route_invocation: the barrier goes up before the message is sent. *)
Raise ==
  /\ at["reader"] = "raise"
  /\ barriers' = Append(barriers, flush)
  /\ Goto("reader", "send")
  /\ UNCHANGED <<folded, drawn, flush, pending, route, lock, chan, op, cur, bounds, history>>

SendInvoke ==
  /\ Sends({"invoke"})
  /\ IF HasRoom THEN Sent ELSE Goto("reader", "lower") /\ UNCHANGED <<chan, op>>
  /\ UNCHANGED <<damage, route, lock, cur, bounds, history>>

Lower ==
  /\ at["reader"] = "lower"
  /\ barriers' = SubSeq(barriers, 1, Len(barriers) - 1)
  /\ Idle
  /\ UNCHANGED <<folded, drawn, flush, pending, route, lock, chan, cur, bounds, history>>

(* route_held: a refused answer is held over whatever its slot held.       *)
SendHeld ==
  /\ Sends({"beat", "rows"})
  /\ IF HasRoom THEN Sent /\ UNCHANGED <<beatSlot, rowsSlot>>
     ELSE /\ Idle
          /\ beatSlot' = IF op.kind = "beat" THEN op ELSE beatSlot
          /\ rowsSlot' = IF op.kind = "rows" THEN op ELSE rowsSlot
          /\ UNCHANGED chan
  /\ lock' = "free"
  /\ UNCHANGED <<damage, attached, presink, queued, cur, bounds, history>>

(* Mutant: sends into whatever room there is, ahead of what is parked. *)
SendQueued_Overtakes ==
  /\ Sends({"queued"})
  /\ IF HasRoom THEN Sent /\ UNCHANGED queued
     ELSE Idle /\ queued' = Append(queued, op) /\ UNCHANGED chan
  /\ lock' = "free"
  /\ UNCHANGED <<damage, attached, presink, beatSlot, rowsSlot, cur, bounds, history>>

(* route_queued: behind whatever is parked, even if there is room by now. *)
SendQueued ==
  /\ Sends({"queued"})
  /\ IF HasRoom /\ queued = <<>> THEN Sent /\ UNCHANGED queued
     ELSE Idle /\ queued' = Append(queued, op) /\ UNCHANGED chan
  /\ lock' = "free"
  /\ UNCHANGED <<damage, attached, presink, beatSlot, rowsSlot, cur, bounds, history>>

(* Mutant: a refused request is dropped and the reader reads on. *)
SendRequest_Drops ==
  /\ Sends({"request"})
  /\ IF HasRoom THEN Sent ELSE Idle /\ UNCHANGED chan
  /\ lock' = "free"
  /\ UNCHANGED <<damage, route, cur, bounds, history>>

(* route_msg: a refused request ends the reader. *)
SendRequest ==
  /\ Sends({"request"})
  /\ IF HasRoom THEN Sent ELSE op' = Null /\ Goto("reader", "stopping") /\ UNCHANGED chan
  /\ lock' = "free"
  /\ UNCHANGED <<damage, route, cur, bounds, history>>

(* Mutant: route_terminal keeps the route locked over its blocking send. *)
RouteStop_KeepsLock ==
  /\ at["reader"] = "stopping" /\ lock = "free"
  /\ lock' = "reader"
  /\ IF attached THEN Goto("reader", "posting") /\ UNCHANGED presink
     ELSE presink' = Append(presink, [kind |-> "stop", nr |-> 0]) /\ Goto("reader", "over")
  /\ UNCHANGED <<damage, attached, slots, chan, op, cur, bounds, history>>

(* route_terminal: no retry, and the send blocks outside the lock.         *)
RouteStop ==
  /\ at["reader"] = "stopping" /\ lock = "free"
  /\ IF attached THEN Goto("reader", "posting") /\ UNCHANGED presink
     ELSE presink' = Append(presink, [kind |-> "stop", nr |-> 0]) /\ Goto("reader", "over")
  /\ UNCHANGED <<damage, attached, slots, lock, chan, op, cur, bounds, history>>

PostStop ==
  /\ at["reader"] = "posting" /\ HasRoom
  /\ chan' = Append(chan, [kind |-> "stop", nr |-> 0])
  /\ Goto("reader", "over")
  /\ UNCHANGED <<damage, route, lock, op, cur, bounds, history>>

-----------------------------------------------------------------------------
(* The loop.                                                               *)

(* What the messages of s leave dispatched. *)
Last(kind, s) == CHOOSE i \in At(kind, s) : \A j \in At(kind, s) : j <= i
After(s) == [k \in Numbered |-> IF At(k, s) = {} THEN got[k] ELSE s[Last(k, s)].nr]

(* attach_sink: the sink goes in and the FIFO comes out, nothing is sent.  *)
Attach ==
  /\ at["loop"] = "start" /\ lock = "free"
  /\ attached' = TRUE
  /\ Goto("loop", "attached")
  /\ UNCHANGED <<damage, presink, slots, lock, chan, op, cur, bounds, history>>

(* Its second half, the other lock: whether damage was pending already. *)
ReadPending ==
  /\ at["loop"] = "attached"
  /\ Goto("loop", IF pending THEN "drain" ELSE "cutover")
  /\ UNCHANGED <<damage, route, lock, chan, op, cur, bounds, history>>

DrainPending ==
  /\ at["loop"] = "drain"
  /\ TakeToBarrier
  /\ Goto("loop", "cutover")
  /\ UNCHANGED <<route, lock, chan, op, cur, bounds, history>>

(* run_cutover: the FIFO is dispatched, and the loop starts to wait. *)
Cutover ==
  /\ at["loop"] = "cutover"
  /\ presink' = <<>> /\ got' = After(presink)
  /\ Goto("loop", "wait")
  /\ UNCHANGED <<damage, attached, slots, lock, chan, op, cur, bounds, wireEnd, sent>>

Receive ==
  /\ at["loop"] = "wait" /\ chan # <<>>
  /\ cur' = Head(chan) /\ chan' = Tail(chan)
  /\ Goto("loop", "received")
  /\ UNCHANGED <<damage, route, lock, op, bounds, history>>

(* intake and admit, and the dispatch of what they give.                   *)
Admit ==
  /\ at["loop"] = "received"
  /\ CASE cur.kind = "token" -> TakeToBarrier
       [] cur.kind = "invoke" -> PassBarrier
       [] OTHER -> UNCHANGED damage
  /\ got' = After(<<cur>>)
  /\ cur' = Null
  /\ Goto("loop", "residue")
  /\ UNCHANGED <<route, lock, chan, op, bounds, wireEnd, sent>>

(* Mutant: the loop sleeps on what its tokens told it. *)
Residue_Skipped ==
  /\ at["loop"] = "residue"
  /\ Goto("loop", "wait")
  /\ UNCHANGED <<damage, route, lock, chan, op, cur, bounds, history>>

(* The residue drain of every wakeup. *)
Residue ==
  /\ at["loop"] = "residue"
  /\ TakeToBarrier
  /\ Goto("loop", "wait")
  /\ UNCHANGED <<route, lock, chan, op, cur, bounds, history>>

(* A key while the session holds its input: retry_parked_claims.           *)
Key ==
  /\ at["loop"] = "wait" /\ keys < MaxKeys
  /\ keys' = keys + 1
  /\ Goto("loop", "lock")
  /\ UNCHANGED <<damage, route, lock, chan, op, cur, msgs, history>>

-----------------------------------------------------------------------------
Retry(t) == Acquire(t) \/ RetryBeat(t) \/ RetryRows(t) \/ RetryQueued(t)
Routes ==
  \/ Retry("reader") \/ Retried
  \/ SendToken \/ Disarm \/ Raise \/ SendInvoke \/ Lower
  \/ SendHeld \/ SendQueued \/ SendRequest
  \/ RouteStop \/ PostStop
Nvim ==
  \/ \E flushes \in BOOLEAN : Fold(flushes)
  \/ Invoke \/ Beat \/ LaterBeat \/ StreamEnds
  \/ \E kind \in Numbered : Answer(kind)
Runtime ==
  \/ Attach \/ ReadPending \/ DrainPending \/ Cutover \/ Receive \/ Admit \/ Residue
  \/ Retry("loop") \/ RetriedParked
Next == Routes \/ Nvim \/ Runtime \/ Key

Spec == Init /\ [][Next]_vars

(* The reader and the loop run, and nvim answers its probes until it ends. *)
FairSpec == Spec /\ WF_vars(Routes) /\ WF_vars(Runtime) /\ WF_vars(LaterBeat)

-----------------------------------------------------------------------------
(* Properties.                                                             *)

(* "This drain makes a stranded batch impossible" (run): when the loop     *)
(* sleeps with its channel empty and the reader is at rest, every flushed  *)
(* batch is on the screen, whichever tokens were refused.                  *)
NothingStranded ==
  at["loop"] = "wait" /\ chan = <<>> /\ at["reader"] \in {"idle", "over"} => drawn = wireEnd

(* The invocation barrier: an invocation is dispatched over exactly the    *)
(* screen nvim had flushed before it, no batch short and none ahead.       *)
InvocationSeesItsScreen ==
  [][Admit /\ cur.kind = "invoke" => drawn' = cur.nr]_vars

(* The never-drop queue drops and reorders nothing, and neither are the     *)
(* requests nvim blocks on: what the loop has yet to dispatch follows on    *)
(* what it has, number by number, over the FIFO, the channel, the queue and *)
(* the reader's hands.  A request the loop refuses ends its connection.     *)
Places(kind) ==
  <<presink, <<cur>>, chan, IF kind = "queued" THEN queued ELSE <<>>, <<op>>>>
Numbers(kind, s) == {s[i].nr : i \in At(kind, s)}
InOrder(kind, s) == \A i, j \in At(kind, s) : i < j => s[i].nr < s[j].nr
FollowsOn(kind) ==
  LET places == Places(kind)
  IN  /\ UNION {Numbers(kind, places[p]) : p \in 1 .. 5} = got[kind] + 1 .. sent[kind]
      /\ \A p \in 1 .. 5 : InOrder(kind, places[p])
      /\ \A p, q \in 1 .. 5 : p < q =>
           \A a \in Numbers(kind, places[p]), b \in Numbers(kind, places[q]) : a < b
NothingIsLostOrReordered ==
  /\ FollowsOn("queued")
  /\ at["reader"] \notin {"stopping", "posting", "over"} => FollowsOn("request")

(* The stop gets through, although its send blocks on a full channel and   *)
(* the loop takes the same lock.                                           *)
StopGetsThrough == at["reader"] = "stopping" ~> (at["reader"] = "over" /\ chan = <<>>)

(* A parked message reaches the loop while the engine answers its probes.  *)
ParkedIsDelivered == queued # <<>> ~> (queued = <<>> \/ at["reader"] = "over")

(* The doc of deferred_float_rows: "an older held read is superseded rather *)
(* than kept", so the loop never paints rows older than it has painted.    *)
RowsNeverGoBack == [][got'["rows"] >= got["rows"]]_vars
=============================================================================
