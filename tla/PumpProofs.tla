----------------------------- MODULE PumpProofs -----------------------------
(***************************************************************************)
(* Proofs about Pump, for every size of the channel and every number of    *)
(* messages: no wakeup is lost, an invocation sees the screen it was sent  *)
(* over, and the numbered messages come through in order.                  *)
(***************************************************************************)
EXTENDS Pump, FiniteSetTheorems, TLAPS

-----------------------------------------------------------------------------
(* The strengthening that makes the properties inductive.                  *)

Held == {"beat", "rows", "queue"}
Busy == {"lock", "raise", "send", "lower", "disarm"} \cup Held

(* The route's lock is held over the retry, and by the reader over a send   *)
(* of anything but a token or an invocation.                                *)
LockOwned ==
  /\ lock = "loop" <=> at["loop"] \in Held
  /\ lock = "reader" <=> \/ at["reader"] \in Held
                         \/ at["reader"] = "send" /\ op.kind \notin {"token", "invoke"}

(* What each thread has in hand, and what there can be before the sink. *)
HandsOK ==
  /\ at["reader"] \in Busy <=> op # Null
  /\ op.kind # "stop"
  /\ at["reader"] \in {"raise", "lower"} => op.kind = "invoke"
  /\ at["reader"] = "disarm" => op.kind = "token"
  /\ at["reader"] \in {"raise", "send", "lower", "disarm", "posting"} => attached
  /\ attached <=> at["loop"] # "start"
  /\ at["loop"] = "received" <=> cur # Null
  /\ ~attached => chan = <<>> /\ queued = <<>> /\ beatSlot = Null /\ rowsSlot = Null /\ barriers = <<>>
  /\ presink # <<>> => at["loop"] \in {"start", "attached", "drain", "cutover"}

(* A slot holds its own kind of message, and is tried only while it does. *)
SlotsOK ==
  /\ beatSlot # Null => beatSlot.kind = "beat"
  /\ rowsSlot # Null => rowsSlot.kind = "rows"
  /\ \A i \in 1 .. Len(queued) : queued[i].kind = "queued"
  /\ \A t \in Threads : /\ at[t] = "beat" => beatSlot # Null
                        /\ at[t] = "rows" => rowsSlot # Null

(* What is staged and flushed is what nvim has flushed and the loop has not *)
(* drawn; the barriers rise towards it, and an invocation still the         *)
(* reader's was sent over all of it.                                        *)
BufferOK ==
  /\ wireEnd = drawn + flush
  /\ \A i, j \in 1 .. Len(barriers) : i < j => barriers[i] <= barriers[j]
  /\ op.kind = "invoke" => op.nr = wireEnd

(* The messages past the route: the loop's, the channel's and, once its     *)
(* barrier is up, the reader's.                                             *)
Raised == op.kind = "invoke" /\ at["reader"] \in {"send", "lower"}
Past(i) == IF i = 0 THEN cur ELSE IF i = Len(chan) + 1 THEN op ELSE chan[i]
Invokes ==
  {i \in 0 .. Len(chan) : Past(i).kind = "invoke"} \cup (IF Raised THEN {Len(chan) + 1} ELSE {})

(* ix pairs the barriers with the invocations past the route, in order: a   *)
(* barrier stands where its invocation's screen ends.                       *)
Pairs(ix) ==
  /\ ix \in [1 .. Len(barriers) -> Invokes]
  /\ \A k, l \in 1 .. Len(barriers) : k < l => ix[k] < ix[l]
  /\ \A i \in Invokes : \E k \in 1 .. Len(barriers) : ix[k] = i
  /\ \A k \in 1 .. Len(barriers) : drawn + barriers[k] = Past(ix[k]).nr
Paired == \E ix \in [1 .. Len(barriers) -> Invokes] : Pairs(ix)

(* The loop will drain, whatever comes; and if not, what makes it. *)
WillDrain == at["loop"] \in {"start", "drain", "received", "residue", "lock"} \cup Held
TokenComing == op.kind = "token" /\ at["reader"] \in {"lock", "send"} \cup Held
WakeupOwed ==
  /\ flush > 0 \/ pending =>
       \/ chan # <<>> \/ WillDrain \/ TokenComing
       \/ at["loop"] = "attached" /\ pending
  /\ flush > 0 /\ at["loop"] = "start" => pending
  /\ flush > 0 /\ at["reader"] = "disarm" => chan # <<>> \/ WillDrain

-----------------------------------------------------------------------------
(* Sequences.                                                              *)

(* Appending to a sequence, and taking its head. *)
LEMMA AppendSeq ==
  ASSUME NEW S, NEW s \in Seq(S), NEW m \in S, NEW t, t = Append(s, m)
  PROVE  /\ t \in Seq(S) /\ Len(s) \in Nat /\ Len(t) = Len(s) + 1 /\ t[Len(s) + 1] = m
         /\ \A i \in 1 .. Len(s) : t[i] = s[i]
OBVIOUS

LEMMA TailSeq ==
  ASSUME NEW S, NEW s \in Seq(S), s # <<>>
  PROVE  /\ Tail(s) \in Seq(S) /\ Head(s) \in S /\ Head(s) = s[1]
         /\ Len(s) \in Nat /\ Len(s) >= 1 /\ Len(Tail(s)) = Len(s) - 1
         /\ \A i \in 1 .. Len(Tail(s)) : Tail(s)[i] = s[i + 1]
OBVIOUS

(* A set of naturals that is not empty has a least member: of the intervals *)
(* its members end, one contains no other.                                  *)
LEMMA NatMin ==
  ASSUME NEW T \in SUBSET Nat, T # {}
  PROVE  \E x \in T : \A y \in T : x <= y
<1> DEFINE F == {1 .. x : x \in T}
<1>1. \A x \in T : x \in Nat /\ 1 .. x \in FiniteSubsetsOf(Nat)
  <2>1. SUFFICES ASSUME NEW x \in T PROVE x \in Nat /\ 1 .. x \in FiniteSubsetsOf(Nat)
    OBVIOUS
  <2>2. IsFiniteSet(1 .. x)
    BY FS_Interval
  <2>3. QED
    BY <2>2 DEF FiniteSubsetsOf
<1>2. F \subseteq FiniteSubsetsOf(Nat) /\ F # {}
  BY <1>1
<1>3. PICK m \in F : \A y \in F : <<y, m>> \notin StrictSubsetOrdering(Nat)
  <2> HIDE DEF F
  <2>1. IsWellFoundedOn(StrictSubsetOrdering(Nat), FiniteSubsetsOf(Nat))
    BY FS_StrictSubsetOrderingWellFounded
  <2>2. QED
    BY <2>1, <1>2, WFMin
<1>4. PICK x \in T : m = 1 .. x
  BY <1>3
<1>5. \A y \in T : x <= y
  <2>1. SUFFICES ASSUME NEW y \in T, y < x PROVE FALSE
    BY <1>1
  <2>2. x \in Nat /\ y \in Nat
    BY <1>1
  <2>3. (1 .. y) \subseteq (1 .. x) /\ x \in 1 .. x /\ x \notin 1 .. y
    BY <2>1, <2>2
  <2>4. 1 .. y \in F
    BY <2>1
  <2>5. 1 .. y \in SUBSET Nat /\ 1 .. x \in SUBSET Nat
    BY <2>2
  <2>6. 1 .. y # 1 .. x
    BY <2>3
  <2>7. <<1 .. y, 1 .. x>> \in StrictSubsetOrdering(Nat)
    BY <2>3, <2>5, <2>6 DEF StrictSubsetOrdering
  <2>8. QED
    BY <2>7, <2>4, <1>3, <1>4
<1>6. QED
  BY <1>5

(* So the messages of a kind in a sequence, if there are any, have a last.  *)
LEMMA LastOf ==
  ASSUME NEW s, Len(s) \in Nat, NEW kind, At(kind, s) # {}
  PROVE  /\ Last(kind, s) \in At(kind, s)
         /\ \A j \in At(kind, s) : j <= Last(kind, s)
<1> DEFINE T == {Len(s) - i : i \in At(kind, s)}
<1>1. \A i \in At(kind, s) : i \in 1 .. Len(s) /\ Len(s) - i \in Nat
  BY DEF At
<1>2. T \in SUBSET Nat /\ T # {}
  BY <1>1
<1>3. PICK x \in T : \A y \in T : x <= y
  <2> HIDE DEF T
  <2>1. QED
    BY <1>2, NatMin
<1>4. PICK i \in At(kind, s) : x = Len(s) - i
  BY <1>3
<1>5. \A j \in At(kind, s) : j <= i
  <2>1. SUFFICES ASSUME NEW j \in At(kind, s) PROVE j <= i
    OBVIOUS
  <2>2. Len(s) - i <= Len(s) - j
    BY <1>3, <1>4
  <2>3. QED
    BY <1>1, <2>2
<1>6. QED
  BY <1>4, <1>5 DEF Last

(* Draining moves every barrier down, and none below zero. *)
LEMMA MovedSeq ==
  ASSUME NEW n \in Nat, NEW bs \in Seq(0 .. n), NEW end \in 0 .. n
  PROVE  /\ Moved(bs, end) \in Seq(0 .. n - end)
         /\ Len(Moved(bs, end)) = Len(bs)
         /\ \A i \in 1 .. Len(bs) : /\ bs[i] \in 0 .. n
                                   /\ bs[i] >= end => Moved(bs, end)[i] = bs[i] - end
<1>1. Len(bs) \in Nat /\ \A i \in 1 .. Len(bs) : bs[i] \in 0 .. n
  OBVIOUS
<1>2. \A i \in 1 .. Len(bs) : (IF bs[i] > end THEN bs[i] - end ELSE 0) \in 0 .. n - end
  BY <1>1
<1>3. Moved(bs, end) \in [1 .. Len(bs) -> 0 .. n - end]
  BY <1>2 DEF Moved
<1>4. Moved(bs, end) \in Seq(0 .. n - end) /\ Len(Moved(bs, end)) = Len(bs)
  BY <1>1, <1>3
<1>5. \A i \in 1 .. Len(bs) : bs[i] >= end => Moved(bs, end)[i] = bs[i] - end
  BY <1>1 DEF Moved
<1>6. QED
  BY <1>1, <1>4, <1>5

(* The barriers stay within the flushed part when it grows. *)
LEMMA WiderSeq ==
  ASSUME NEW m \in Nat, NEW n \in Nat, m <= n, NEW bs \in Seq(0 .. m)
  PROVE  bs \in Seq(0 .. n)
<1>1. bs \in [1 .. Len(bs) -> 0 .. m] /\ Len(bs) \in Nat
  OBVIOUS
<1>2. bs \in [1 .. Len(bs) -> 0 .. n]
  BY <1>1
<1>3. QED
  BY <1>1, <1>2

(* Where a drain stops, and what it leaves: the barriers it passes over are *)
(* those of the screen it stops at.                                         *)
LEMMA Drain ==
  ASSUME DamageOK, BufferOK, TakeToBarrier
  PROVE  \E end \in 0 .. flush :
           /\ drawn' = drawn + end /\ flush' = flush - end /\ folded' = folded
           /\ barriers' = Moved(barriers, end)
           /\ \A i \in 1 .. Len(barriers) : barriers[i] >= end
           /\ pending' \in BOOLEAN
           /\ (flush' > 0 \/ pending') => barriers # <<>> /\ barriers[1] < flush
<1> DEFINE stops == barriers # <<>> /\ Head(barriers) < flush
           end == IF stops THEN Head(barriers) ELSE flush
<1>1. flush \in Nat /\ drawn \in Nat /\ barriers \in Seq(0 .. flush) /\ Len(barriers) \in Nat
      /\ \A i \in 1 .. Len(barriers) : barriers[i] \in 0 .. flush
  BY BoundsAreNat DEF DamageOK, Staged
<1>2. barriers # <<>> => Head(barriers) = barriers[1] /\ 1 \in 1 .. Len(barriers)
  BY <1>1
<1>3. /\ drawn' = drawn + end /\ flush' = flush - end /\ folded' = folded
      /\ barriers' = Moved(barriers, end) /\ pending' = stops
  BY DEF TakeToBarrier, DrainTo
<1>4. end \in 0 .. flush
  BY <1>1, <1>2
<1>5. \A i \in 1 .. Len(barriers) : barriers[i] >= barriers[1] /\ barriers # <<>>
  <2>1. SUFFICES ASSUME NEW i \in 1 .. Len(barriers)
                 PROVE  barriers[i] >= barriers[1] /\ barriers # <<>>
    OBVIOUS
  <2>2. barriers # <<>> /\ 1 \in 1 .. Len(barriers)
    BY <1>1, <2>1
  <2>3. CASE i = 1
    BY <1>1, <2>2, <2>3
  <2>4. CASE i # 1
    <3>1. 1 < i
      BY <2>1, <2>4
    <3>2. barriers[1] <= barriers[i]
      BY <2>1, <2>2, <3>1 DEF BufferOK
    <3>3. barriers[1] \in Nat /\ barriers[i] \in Nat
      BY <1>1, <2>1, <2>2
    <3>4. QED
      BY <2>2, <3>2, <3>3
  <2>5. QED
    BY <2>3, <2>4
<1>6. \A i \in 1 .. Len(barriers) : barriers[i] >= end
  <2>1. SUFFICES ASSUME NEW i \in 1 .. Len(barriers) PROVE barriers[i] >= end
    OBVIOUS
  <2>2. barriers[i] >= barriers[1] /\ barriers # <<>> /\ barriers[i] \in 0 .. flush
        /\ barriers[1] \in 0 .. flush
    BY <1>1, <1>2, <1>5
  <2>3. QED
    BY <1>1, <1>2, <2>2
<1>7. stops \in BOOLEAN /\ (stops => barriers # <<>> /\ barriers[1] < flush)
  BY <1>2
<1>8. flush' > 0 => stops
  BY <1>1, <1>3
<1>9. QED
  BY <1>3, <1>4, <1>6, <1>7, <1>8

(* An invocation admitted takes its barrier with it. *)
LEMMA Pass ==
  ASSUME DamageOK, BufferOK, barriers # <<>>, PassBarrier
  PROVE  \E end \in 0 .. flush :
           /\ end = barriers[1]
           /\ drawn' = drawn + end /\ flush' = flush - end /\ folded' = folded
           /\ barriers' = Moved(Tail(barriers), end) /\ Tail(barriers) \in Seq(0 .. flush)
           /\ Len(barriers') = Len(barriers) - 1 /\ Len(barriers) \in Nat
           /\ \A i \in 1 .. Len(barriers') : /\ i + 1 \in 1 .. Len(barriers)
                                            /\ barriers[i + 1] \in 0 .. flush
                                            /\ barriers[i + 1] >= end
                                            /\ barriers'[i] = barriers[i + 1] - end
           /\ pending' = pending
<1>1. flush \in Nat /\ barriers \in Seq(0 .. flush) /\ Len(barriers) \in Nat
      /\ \A i \in 1 .. Len(barriers) : barriers[i] \in 0 .. flush
  BY BoundsAreNat DEF DamageOK, Staged
<1>2. /\ Tail(barriers) \in Seq(0 .. flush) /\ Len(Tail(barriers)) = Len(barriers) - 1
      /\ Head(barriers) = barriers[1] /\ 1 \in 1 .. Len(barriers) /\ Len(barriers) >= 1
      /\ \A i \in 1 .. Len(Tail(barriers)) : Tail(barriers)[i] = barriers[i + 1]
  BY <1>1, TailSeq
<1>03. barriers[1] \in 0 .. flush
  BY <1>1, <1>2
<1>3. /\ drawn' = drawn + barriers[1] /\ flush' = flush - barriers[1] /\ folded' = folded
      /\ barriers' = Moved(Tail(barriers), barriers[1]) /\ pending' = pending
  BY <1>2 DEF PassBarrier, DrainTo
<1>4. \A i \in 1 .. Len(barriers) - 1 :
        i + 1 \in 1 .. Len(barriers) /\ barriers[i + 1] >= barriers[1]
  <2>1. SUFFICES ASSUME NEW i \in 1 .. Len(barriers) - 1
                 PROVE  i + 1 \in 1 .. Len(barriers) /\ barriers[i + 1] >= barriers[1]
    OBVIOUS
  <2>2. i + 1 \in 1 .. Len(barriers) /\ 1 < i + 1
    BY <1>1
  <2>3. barriers[1] <= barriers[i + 1]
    BY <1>2, <2>2 DEF BufferOK
  <2>4. QED
    BY <1>1, <1>2, <2>2, <2>3
<1>5. /\ Len(Moved(Tail(barriers), barriers[1])) = Len(barriers) - 1
      /\ \A i \in 1 .. Len(barriers) - 1 : Tail(barriers)[i] >= barriers[1] =>
              Moved(Tail(barriers), barriers[1])[i] = Tail(barriers)[i] - barriers[1]
  <2>1. flush \in Nat /\ Tail(barriers) \in Seq(0 .. flush) /\ barriers[1] \in 0 .. flush
    BY <1>1, <1>2, <1>03
  <2>2. /\ Len(Moved(Tail(barriers), barriers[1])) = Len(Tail(barriers))
        /\ \A i \in 1 .. Len(Tail(barriers)) : Tail(barriers)[i] >= barriers[1] =>
              Moved(Tail(barriers), barriers[1])[i] = Tail(barriers)[i] - barriers[1]
    BY <1>1, <1>2, <2>1 DEF Moved
  <2>3. QED
    BY <1>2, <2>2
<1>6. \A i \in 1 .. Len(barriers) - 1 : barriers'[i] = barriers[i + 1] - barriers[1]
  BY <1>2, <1>3, <1>4, <1>5
<1>7. Len(barriers') = Len(barriers) - 1
  BY <1>3, <1>5
<1>8. QED
  BY <1>1, <1>2, <1>03, <1>3, <1>4, <1>6, <1>7

-----------------------------------------------------------------------------
(* Types and bounds.                                                       *)

(* A step that puts a held message into the channel, or a routed one. *)
LEMMA ChanTakes ==
  ASSUME TypeOK, HasRoom, NEW m \in Msg, chan' = Append(chan, m)
  PROVE  /\ chan' \in Seq(Msg) /\ Len(chan') <= ChanCap /\ chan' # <<>>
         /\ Len(chan) \in Nat /\ Len(chan') = Len(chan) + 1 /\ chan'[Len(chan) + 1] = m
         /\ \A i \in 1 .. Len(chan) : chan'[i] = chan[i]
BY CapHoldsTheSlots, AppendSeq DEF TypeOK, RouteOK, HasRoom

(* Null is no message. *)
LEMMA MsgFacts ==
  /\ \A m \in Msg : m # Null /\ m.kind \in Kinds /\ m.nr \in Nat
  /\ Null.kind = "none" /\ Null \notin Msg
BY BoundsAreNat DEF Msg, Null, Kinds, Numbered

(* A thread moves alone. *)
LEMMA ReaderMoves ==
  ASSUME ThreadsOK, NEW w \in ReaderAt, Goto("reader", w)
  PROVE  at'["reader"] = w /\ at'["loop"] = at["loop"] /\ ThreadsOK'
BY DEF ThreadsOK, Goto, Threads

LEMMA LoopMoves ==
  ASSUME ThreadsOK, NEW w \in LoopAt, Goto("loop", w)
  PROVE  at'["loop"] = w /\ at'["reader"] = at["reader"] /\ ThreadsOK'
BY DEF ThreadsOK, Goto, Threads

(* The places the steps name are places of their thread. *)
LEMMA PlacesNamed ==
  /\ {"idle", "lock", "raise", "send", "lower", "disarm", "stopping", "posting", "over"} \cup Held
        \subseteq ReaderAt
  /\ {"start", "attached", "drain", "cutover", "wait", "received", "residue", "lock"} \cup Held
        \subseteq LoopAt
  /\ {"beat", "rows", "queue"} = Held
BY DEF ReaderAt, LoopAt, Held

(* Where each step of the reader's leads, and each of the loop's. *)
ReaderGoes(w) ==
  /\ w \in ReaderAt /\ at'["reader"] = w /\ at'["loop"] = at["loop"] /\ ThreadsOK'
LoopGoes(w) ==
  /\ w \in LoopAt /\ at'["loop"] = w /\ at'["reader"] = at["reader"] /\ ThreadsOK'

LEMMA GotoGoes ==
  ASSUME ThreadsOK
  PROVE  /\ \A w \in ReaderAt : Goto("reader", w) => ReaderGoes(w)
         /\ \A w \in LoopAt : Goto("loop", w) => LoopGoes(w)
BY ReaderMoves, LoopMoves DEF ReaderGoes, LoopGoes

(* What the route and the channel hold. *)
LEMMA NextRouteOK ==
  ASSUME TypeOK, LockOwned, HandsOK, SlotsOK, [Next]_vars
  PROVE  RouteOK'
<1> USE BoundsAreNat DEF RouteOK, route, slots
<1>0. RouteOK
  BY DEF TypeOK
<1>1. ASSUME NEW t \in Threads, Acquire(t) PROVE RouteOK'
  BY <1>0, <1>1 DEF Acquire
<1>2. ASSUME NEW t \in Threads, RetryBeat(t) PROVE RouteOK'
  <2>1. beatSlot \in Msg
    BY <1>0, <1>2 DEF RetryBeat, SlotsOK
  <2>2. QED
    BY <1>0, <1>2, <2>1, ChanTakes DEF RetryBeat
<1>3. ASSUME NEW t \in Threads, RetryRows(t) PROVE RouteOK'
  <2>1. rowsSlot \in Msg
    BY <1>0, <1>3 DEF RetryRows, SlotsOK
  <2>2. QED
    BY <1>0, <1>3, <2>1, ChanTakes DEF RetryRows
<1>4. ASSUME NEW t \in Threads, RetryQueued(t) PROVE RouteOK'
  <2>1. Head(queued) \in Msg /\ Tail(queued) \in Seq(Msg)
    BY <1>0, <1>4, TailSeq DEF RetryQueued
  <2>2. QED
    BY <1>0, <1>4, <2>1, ChanTakes DEF RetryQueued
<1>5. at["reader"] \in Busy => op \in Msg
  BY <1>0 DEF HandsOK
<1>6. ASSUME Retried PROVE RouteOK'
  <2>1. op \in Msg
    BY <1>5, <1>6 DEF Retried, Busy, Held
  <2>2. presink' \in Seq(Msg)
    BY <1>0, <1>6, <2>1, SMTT(30) DEF Retried, HandOver
  <2>3. QED
    BY <1>0, <1>6, <2>2 DEF Retried, HandOver, Idle
<1>7. ASSUME SendToken \/ SendInvoke PROVE RouteOK'
  <2>1. op \in Msg
    BY <1>5, <1>7 DEF SendToken, SendInvoke, Sends, Busy
  <2>2. chan' \in Seq(Msg) /\ Len(chan') <= ChanCap
    BY <1>0, <1>7, <2>1, ChanTakes DEF SendToken, SendInvoke, Sent
  <2>3. op' \in Msg \cup {Null}
    BY <1>0, <1>7 DEF SendToken, SendInvoke, Sent, Idle
  <2>4. QED
    BY <1>0, <1>7, <2>2, <2>3 DEF SendToken, SendInvoke
<1>8. ASSUME Disarm \/ Raise \/ Lower PROVE RouteOK'
  BY <1>0, <1>8 DEF Disarm, Raise, Lower, Idle
<1>9. ASSUME SendHeld \/ SendQueued \/ SendRequest PROVE RouteOK'
  <2>1. op \in Msg
    BY <1>5, <1>9 DEF SendHeld, SendQueued, SendRequest, Sends, Busy
  <2>2. chan' \in Seq(Msg) /\ Len(chan') <= ChanCap
    BY <1>0, <1>9, <2>1, ChanTakes DEF SendHeld, SendQueued, SendRequest, Sent
  <2>3. queued' \in Seq(Msg)
    <3>1. Append(queued, op) \in Seq(Msg)
      BY <1>0, <2>1, AppendSeq
    <3>2. queued' = queued \/ queued' = Append(queued, op)
      BY <1>9 DEF SendHeld, SendQueued, SendRequest
    <3>3. QED
      BY <1>0, <3>1, <3>2
  <2>4. op' = Null
    BY <1>9 DEF SendHeld, SendQueued, SendRequest, Sent, Idle
  <2>5. QED
    BY <1>0, <1>9, <2>1, <2>2, <2>3, <2>4 DEF SendHeld, SendQueued, SendRequest
<1>10. ASSUME RouteStop \/ PostStop PROVE RouteOK'
  <2>1. [kind |-> "stop", nr |-> 0] \in Msg
    BY DEF Msg, Kinds
  <2>2. chan' \in Seq(Msg) /\ Len(chan') <= ChanCap
    BY <1>0, <1>10, <2>1, ChanTakes DEF RouteStop, PostStop
  <2>3. presink' \in Seq(Msg)
    BY <1>0, <1>10, <2>1, AppendSeq DEF RouteStop, PostStop
  <2>4. QED
    BY <1>0, <1>10, <2>2, <2>3 DEF RouteStop, PostStop
<1>11. ASSUME Nvim PROVE RouteOK'
  <2>1. /\ [kind |-> "beat", nr |-> 0] \in Msg /\ [kind |-> "token", nr |-> 0] \in Msg
        /\ [kind |-> "invoke", nr |-> wireEnd] \in Msg
    BY DEF TypeOK, CountsOK, DamageOK, Msg, Kinds
  <2>2. \A k \in Numbered : sent[k] < MaxMsgs => [kind |-> k, nr |-> sent[k] + 1] \in Msg
    BY DEF TypeOK, CountsOK, Msg, Kinds
  <2>3. \A k \in Numbered : msgs < MaxMsgs => sent[k] < MaxMsgs
    BY DEF TypeOK, CountsOK
  <2>4. op' \in Msg \cup {Null}
    BY <1>0, <1>11, <2>1, <2>2, <2>3 DEF Nvim, Fold, Invoke, Beat, LaterBeat, StreamEnds, Answer, Begin
  <2>5. UNCHANGED <<route, lock, chan, cur>>
    BY <1>11 DEF Nvim, Fold, Invoke, Beat, LaterBeat, StreamEnds, Answer
  <2>6. QED
    BY <1>0, <2>4, <2>5
<1>12. ASSUME Attach \/ ReadPending \/ DrainPending \/ Cutover \/ Admit \/ Residue
       PROVE  RouteOK'
  <2>1. attached' \in BOOLEAN /\ presink' \in {presink, <<>>} /\ cur' \in {cur, Null}
    BY <1>0, <1>12 DEF Attach, ReadPending, DrainPending, Cutover, Admit, Residue
  <2>2. UNCHANGED <<beatSlot, rowsSlot, queued, lock, chan, op>>
    BY <1>12 DEF Attach, ReadPending, DrainPending, Cutover, Admit, Residue
  <2>3. <<>> \in Seq(Msg)
    OBVIOUS
  <2>4. QED
    BY <1>0, <2>1, <2>2, <2>3
<1>13. ASSUME Receive PROVE RouteOK'
  <2>1. chan' \in Seq(Msg) /\ Len(chan') <= ChanCap /\ cur' \in Msg
    BY <1>0, <1>13, TailSeq, CapHoldsTheSlots DEF Receive
  <2>2. UNCHANGED <<attached, presink, beatSlot, rowsSlot, queued, lock, op>>
    BY <1>13 DEF Receive
  <2>3. QED
    BY <1>0, <2>1, <2>2
<1>14. ASSUME RetriedParked \/ Key PROVE RouteOK'
  BY <1>0, <1>14 DEF RetriedParked, Key
<1>15. CASE UNCHANGED vars
  BY <1>0, <1>15 DEF vars
<1> HIDE DEF RouteOK, route, slots
<1>16. ASSUME Routes PROVE RouteOK'
  <2>1. "reader" \in Threads
    BY DEF Threads
  <2>2. QED
    BY <2>1, <1>1, <1>2, <1>3, <1>4, <1>6, <1>7, <1>8, <1>9, <1>10, <1>16, Zenon DEF Routes, Retry
<1>17. ASSUME Runtime PROVE RouteOK'
  <2>1. "loop" \in Threads
    BY DEF Threads
  <2>2. QED
    BY <2>1, <1>1, <1>2, <1>3, <1>4, <1>12, <1>13, <1>14, <1>17, Zenon DEF Runtime, Retry
<1>18. QED
  BY <1>11, <1>14, <1>15, <1>16, <1>17, Zenon DEF Next

(* What is counted, and what the counts bound. *)
LEMMA AfterBounded ==
  ASSUME CountsOK, NEW s, Len(s) \in Nat, \A i \in 1 .. Len(s) : s[i] \in Msg \cup {Null}
  PROVE  After(s) \in [Numbered -> 0 .. MaxMsgs]
<1>1. SUFFICES ASSUME NEW k \in Numbered, At(k, s) # {} PROVE s[Last(k, s)].nr \in 0 .. MaxMsgs
  BY DEF After, CountsOK
<1>2. Last(k, s) \in At(k, s)
  BY <1>1, LastOf
<1>3. s[Last(k, s)] \in Msg
  BY <1>2 DEF At, Null, Numbered
<1>4. QED
  BY <1>3 DEF Msg

(* What a drain, or an invocation admitted, leaves of the buffer. *)
DamageStep ==
  /\ DamageOK' /\ folded' = folded /\ drawn' + flush' = drawn + flush /\ drawn' >= drawn

(* A drain leaves a prefix of the batches staged, and so does passing a barrier. *)
LEMMA DrainOK ==
  ASSUME DamageOK, BufferOK, TakeToBarrier
  PROVE  DamageStep
<1>1. PICK end \in 0 .. flush :
           /\ drawn' = drawn + end /\ flush' = flush - end /\ folded' = folded
           /\ barriers' = Moved(barriers, end) /\ pending' \in BOOLEAN
  BY Drain
<1>2. flush \in Nat /\ drawn \in Nat /\ folded \in Nat /\ flush <= folded - drawn
  BY BoundsAreNat DEF DamageOK, Staged
<1>3. barriers' \in Seq(0 .. flush')
  BY <1>1, <1>2, MovedSeq DEF DamageOK
<1>4. QED
  BY <1>1, <1>2, <1>3 DEF DamageStep, DamageOK, Staged

LEMMA PassOK ==
  ASSUME DamageOK, BufferOK, barriers # <<>>, PassBarrier
  PROVE  DamageStep
<1>1. PICK end \in 0 .. flush :
           /\ drawn' = drawn + end /\ flush' = flush - end /\ folded' = folded
           /\ barriers' = Moved(Tail(barriers), end) /\ Tail(barriers) \in Seq(0 .. flush)
           /\ pending' = pending
  BY Pass
<1>2. flush \in Nat /\ drawn \in Nat /\ folded \in Nat /\ flush <= folded - drawn
  BY BoundsAreNat DEF DamageOK, Staged
<1>3. barriers' \in Seq(0 .. flush')
  BY <1>1, <1>2, MovedSeq
<1>4. QED
  BY <1>1, <1>2, <1>3 DEF DamageStep, DamageOK, Staged

(* An invocation in the loop's hands has its barrier. *)
LEMMA BarrierIsUp ==
  ASSUME Paired, cur.kind = "invoke"
  PROVE  barriers # <<>>
<1>1. 0 \in Invokes
  BY DEF Invokes, Past
<1>2. QED
  BY <1>1 DEF Paired, Pairs

(* How a step changes the damage buffer, the counts apart. *)
LEMMA DamageSteps ==
  ASSUME TypeOK, BufferOK, Paired, HandsOK, [Next]_vars
  PROVE  \/ UNCHANGED damage
         \/ (DrainPending \/ Residue) /\ DamageStep
         \/ Admit /\ DamageStep
         \/ \E flushes \in BOOLEAN : Fold(flushes)
         \/ Disarm \/ Raise \/ Lower
<1>1. DamageOK
  BY DEF TypeOK
<1>2. ASSUME Admit PROVE UNCHANGED damage \/ DamageStep
  <2>1. CASE cur.kind = "token"
    BY <1>1, <1>2, <2>1, DrainOK DEF Admit
  <2>2. CASE cur.kind = "invoke"
    BY <1>1, <1>2, <2>2, BarrierIsUp, PassOK DEF Admit
  <2>3. CASE cur.kind \notin {"token", "invoke"}
    BY <1>2, <2>3 DEF Admit
  <2>4. QED
    BY <2>1, <2>2, <2>3
<1>3. ASSUME DrainPending \/ Residue PROVE DamageStep
  BY <1>1, <1>3, DrainOK DEF DrainPending, Residue
<1>4. ASSUME NEW t, Retry(t) PROVE UNCHANGED damage
  BY <1>4 DEF Retry, Acquire, RetryBeat, RetryRows, RetryQueued
<1>5. ASSUME \/ Retried \/ SendToken \/ SendInvoke \/ SendHeld \/ SendQueued \/ SendRequest
             \/ RouteStop \/ PostStop
      PROVE  UNCHANGED damage
  BY <1>5 DEF Retried, HandOver, SendToken, SendInvoke, SendHeld, SendQueued, SendRequest, RouteStop,
              PostStop
<1>6. ASSUME \/ Invoke \/ Beat \/ LaterBeat \/ StreamEnds \/ \E kind \in Numbered : Answer(kind)
             \/ Attach \/ ReadPending \/ Cutover \/ Receive \/ RetriedParked \/ Key
      PROVE  UNCHANGED damage
  BY <1>6 DEF Invoke, Beat, LaterBeat, StreamEnds, Answer, Attach, ReadPending, Cutover, Receive,
              RetriedParked, Key
<1>7. CASE UNCHANGED vars
  BY <1>7 DEF vars
<1>8. QED
  BY <1>2, <1>3, <1>4, <1>5, <1>6, <1>7, Zenon DEF Next, Routes, Nvim, Runtime

(* What each step does to the threads. *)
LEMMA NextThreads ==
  ASSUME ThreadsOK, [Next]_vars
  PROVE  UNCHANGED at \/ (\E w \in ReaderAt : ReaderGoes(w)) \/ (\E w \in LoopAt : LoopGoes(w))
<1>1. ASSUME NEW t \in Threads, Acquire(t) \/ RetryBeat(t) \/ RetryRows(t)
      PROVE  (\E w \in ReaderAt : ReaderGoes(w)) \/ (\E w \in LoopAt : LoopGoes(w))
  <2>1. PICK w \in Held : Goto(t, w)
    BY <1>1 DEF Acquire, RetryBeat, RetryRows, AfterBeat, Held
  <2>2. w \in ReaderAt /\ w \in LoopAt
    BY PlacesNamed
  <2>3. CASE t = "reader"
    BY <2>1, <2>2, <2>3, GotoGoes
  <2>4. CASE t = "loop"
    BY <2>1, <2>2, <2>4, GotoGoes
  <2>5. QED
    BY <2>3, <2>4 DEF Threads
<1>2. ASSUME NEW t \in Threads, RetryQueued(t) PROVE UNCHANGED at
  BY <1>2 DEF RetryQueued
<1>3. ASSUME Retried PROVE (\E w \in ReaderAt : ReaderGoes(w))
  <2>1. \E w \in {"raise", "send", "idle"} : Goto("reader", w)
    BY <1>3 DEF Retried, HandOver, Idle
  <2>2. QED
    BY <2>1, GotoGoes, PlacesNamed
<1>4. ASSUME SendToken \/ Disarm \/ Raise \/ SendInvoke \/ Lower \/ SendHeld \/ SendQueued \/ SendRequest
             \/ RouteStop \/ PostStop
      PROVE  (\E w \in ReaderAt : ReaderGoes(w))
  <2>1. \E w \in {"idle", "send", "disarm", "lower", "stopping", "posting", "over"} : Goto("reader", w)
    BY <1>4 DEF SendToken, Disarm, Raise, SendInvoke, Lower, SendHeld, SendQueued, SendRequest,
                RouteStop, PostStop, Sent, Idle
  <2>2. QED
    BY <2>1, GotoGoes, PlacesNamed
<1>5. ASSUME Nvim PROVE UNCHANGED at \/ (\E w \in ReaderAt : ReaderGoes(w))
  <2>1. UNCHANGED at \/ \E w \in {"lock", "stopping"} : Goto("reader", w)
    BY <1>5 DEF Nvim, Fold, Invoke, Beat, LaterBeat, StreamEnds, Answer, Begin
  <2>2. QED
    BY <2>1, GotoGoes, PlacesNamed
<1>6. ASSUME Attach \/ ReadPending \/ DrainPending \/ Cutover \/ Receive \/ Admit \/ Residue
             \/ RetriedParked \/ Key
      PROVE  (\E w \in LoopAt : LoopGoes(w))
  <2>1. \E w \in {"attached", "drain", "cutover", "wait", "received", "residue", "lock"} :
          Goto("loop", w)
    BY <1>6 DEF Attach, ReadPending, DrainPending, Cutover, Receive, Admit, Residue, RetriedParked, Key
  <2>2. QED
    BY <2>1, GotoGoes, PlacesNamed
<1>7. CASE UNCHANGED vars
  BY <1>7 DEF vars
<1>8. "reader" \in Threads /\ "loop" \in Threads
  BY DEF Threads
<1>9. QED
  BY <1>1, <1>2, <1>3, <1>4, <1>5, <1>6, <1>7, <1>8, Zenon DEF Next, Routes, Runtime, Retry

(* Whoever moves finds the lock as its place says, and leaves it so. *)
LEMMA NextLockOwned ==
  ASSUME TypeOK, LockOwned, HandsOK, [Next]_vars
  PROVE  LockOwned'
<1>0. /\ \A w \in ReaderAt : Goto("reader", w) => at'["reader"] = w /\ at'["loop"] = at["loop"]
      /\ \A w \in LoopAt : Goto("loop", w) => at'["loop"] = w /\ at'["reader"] = at["reader"]
  BY GotoGoes, Zenon DEF TypeOK, ReaderGoes, LoopGoes
<1> USE PlacesNamed DEF LockOwned
<1>1. ASSUME Acquire("reader") \/ RetryBeat("reader") \/ RetryRows("reader") PROVE LockOwned'
  <2>1. \E w \in Held : Goto("reader", w)
    BY <1>1 DEF Acquire, RetryBeat, RetryRows, AfterBeat
  <2>2. at'["reader"] \in Held /\ at'["loop"] = at["loop"] /\ op' = op
    BY <1>0, <1>1, <2>1 DEF Acquire, RetryBeat, RetryRows
  <2>3. lock' = "reader" /\ lock # "loop"
    BY <1>1 DEF Acquire, RetryBeat, RetryRows
  <2>4. QED
    BY <2>2, <2>3
<1>2. ASSUME Acquire("loop") \/ RetryBeat("loop") \/ RetryRows("loop") PROVE LockOwned'
  <2>1. \E w \in Held : Goto("loop", w)
    BY <1>2 DEF Acquire, RetryBeat, RetryRows, AfterBeat
  <2>2. at'["loop"] \in Held /\ at'["reader"] = at["reader"] /\ op' = op
    BY <1>0, <1>2, <2>1 DEF Acquire, RetryBeat, RetryRows
  <2>3. lock' = "loop" /\ lock # "reader"
    BY <1>2 DEF Acquire, RetryBeat, RetryRows
  <2>4. QED
    BY <2>2, <2>3
<1>3. ASSUME NEW t, RetryQueued(t) PROVE LockOwned'
  BY <1>3 DEF RetryQueued
<1>4. ASSUME Retried PROVE LockOwned'
  <2>1. CASE ~attached
    <3>1. Goto("reader", "idle") /\ lock' = "free"
      BY <1>4, <2>1 DEF Retried, HandOver, Idle
    <3>2. at'["reader"] = "idle" /\ at'["loop"] = at["loop"] /\ lock = "reader"
      BY <1>0, <1>4, <3>1 DEF Retried
    <3>3. QED
      BY <3>1, <3>2 DEF Held
  <2>2. CASE attached /\ op.kind = "invoke"
    BY <1>0, <1>4, <2>2 DEF Retried, HandOver, Held
  <2>3. CASE attached /\ op.kind = "token"
    BY <1>0, <1>4, <2>3 DEF Retried, HandOver, Held
  <2>4. CASE attached /\ op.kind \notin {"token", "invoke"}
    BY <1>0, <1>4, <2>4 DEF Retried, HandOver, Held
  <2>5. QED
    BY <2>1, <2>2, <2>3, <2>4
<1>5. ASSUME SendToken \/ Disarm \/ Raise \/ SendInvoke \/ Lower PROVE LockOwned'
  <2>1. \E w \in {"idle", "disarm", "lower", "send"} :
          Goto("reader", w) /\ (w = "send" => op.kind = "invoke" /\ op' = op)
    BY <1>5 DEF SendToken, Disarm, Raise, SendInvoke, Lower, Sent, Idle, HandsOK
  <2>2. /\ at'["reader"] \in {"idle", "disarm", "lower", "send"} /\ at'["loop"] = at["loop"]
        /\ at'["reader"] = "send" => op.kind = "invoke" /\ op' = op
    BY <1>0, <2>1
  <2>3. lock' = lock /\ lock # "reader"
    BY <1>5 DEF SendToken, Disarm, Raise, SendInvoke, Lower, Sends, Held
  <2>4. QED
    BY <2>2, <2>3 DEF Held
<1>6. ASSUME SendHeld \/ SendQueued \/ SendRequest PROVE LockOwned'
  <2>1. \E w \in {"idle", "stopping"} : Goto("reader", w)
    BY <1>6 DEF SendHeld, SendQueued, SendRequest, Sent, Idle
  <2>2. at'["reader"] \in {"idle", "stopping"} /\ at'["loop"] = at["loop"]
    BY <1>0, <2>1
  <2>3. lock' = "free" /\ lock = "reader"
    BY <1>6 DEF SendHeld, SendQueued, SendRequest, Sends
  <2>4. QED
    BY <2>2, <2>3 DEF Held
<1>7. ASSUME RouteStop \/ PostStop PROVE LockOwned'
  BY <1>0, <1>7 DEF RouteStop, PostStop, Held
<1>8. ASSUME Nvim PROVE LockOwned'
  <2>1. UNCHANGED at \/ \E w \in {"lock", "stopping"} : Goto("reader", w)
    BY <1>8 DEF Nvim, Fold, Invoke, Beat, LaterBeat, StreamEnds, Answer, Begin
  <2>2. at'["reader"] \in {"idle", "lock", "stopping"} /\ at'["loop"] = at["loop"] /\ lock' = lock
        /\ at["reader"] = "idle"
    BY <1>0, <1>8, <2>1 DEF Nvim, Fold, Invoke, Beat, LaterBeat, StreamEnds, Answer
  <2>3. QED
    BY <2>2 DEF Held
<1>9. ASSUME Attach \/ ReadPending \/ DrainPending \/ Cutover \/ Receive \/ Admit \/ Residue \/ Key
      PROVE  LockOwned'
  <2>1. \E w \in {"attached", "drain", "cutover", "wait", "received", "residue", "lock"} :
          Goto("loop", w)
    BY <1>9 DEF Attach, ReadPending, DrainPending, Cutover, Receive, Admit, Residue, Key
  <2>2. /\ at'["loop"] \in {"attached", "drain", "cutover", "wait", "received", "residue", "lock"}
        /\ at'["reader"] = at["reader"]
    BY <1>0, <2>1
  <2>3. UNCHANGED <<lock, op>> /\ at["loop"] \notin Held
    BY <1>9 DEF Attach, ReadPending, DrainPending, Cutover, Receive, Admit, Residue, Key, Held
  <2>4. QED
    BY <2>2, <2>3 DEF Held
<1>10. ASSUME RetriedParked PROVE LockOwned'
  BY <1>0, <1>10 DEF RetriedParked, Held
<1>11. CASE UNCHANGED vars
  BY <1>11 DEF vars
<1> HIDE DEF LockOwned
<1>12. QED
  BY <1>1, <1>2, <1>3, <1>4, <1>5, <1>6, <1>7, <1>8, <1>9, <1>10, <1>11, Zenon
     DEF Next, Routes, Runtime, Retry

(* What a thread has in hand is what its place says. *)
LEMMA NextHandsOK ==
  ASSUME TypeOK, LockOwned, HandsOK, SlotsOK, [Next]_vars
  PROVE  HandsOK'
<1>0. /\ \A w \in ReaderAt : Goto("reader", w) => at'["reader"] = w /\ at'["loop"] = at["loop"]
      /\ \A w \in LoopAt : Goto("loop", w) => at'["loop"] = w /\ at'["reader"] = at["reader"]
  BY GotoGoes, Zenon DEF TypeOK, ReaderGoes, LoopGoes
<1>00. Null.kind = "none" /\ \A m \in Msg : m # Null
  BY MsgFacts
<1> USE PlacesNamed, <1>00 DEF HandsOK
<1>1. ASSUME NEW t \in Threads, Acquire(t) \/ RetryBeat(t) \/ RetryRows(t) PROVE HandsOK'
  <2>1. PICK w \in Held : Goto(t, w)
    BY <1>1 DEF Acquire, RetryBeat, RetryRows, AfterBeat
  <2>2. UNCHANGED <<attached, presink, op, cur, barriers, queued>>
    BY <1>1 DEF Acquire, RetryBeat, RetryRows, route, slots, damage
  <2>3. attached \/ UNCHANGED <<chan, beatSlot, rowsSlot>>
    BY <1>1 DEF Acquire, RetryBeat, RetryRows, route, slots, SlotsOK
  <2>4. CASE t = "reader"
    <3>1. at'["reader"] \in Held /\ at'["loop"] = at["loop"]
      BY <1>0, <2>1, <2>4
    <3>2. at["reader"] \in Busy
      BY <1>1, <2>4 DEF Acquire, RetryBeat, RetryRows, Busy
    <3>3. QED
      BY <2>2, <2>3, <3>1, <3>2 DEF Busy, Held
  <2>5. CASE t = "loop"
    <3>1. at'["loop"] \in Held /\ at'["reader"] = at["reader"]
      BY <1>0, <2>1, <2>5
    <3>2. at["loop"] \in Held \cup {"lock"}
      BY <1>1, <2>5 DEF Acquire, RetryBeat, RetryRows
    <3>3. QED
      BY <2>2, <2>3, <3>1, <3>2 DEF Held
  <2>6. QED
    BY <2>4, <2>5 DEF Threads
<1>2. ASSUME NEW t \in Threads, RetryQueued(t) PROVE HandsOK'
  BY <1>2 DEF RetryQueued
<1>3. ASSUME Retried PROVE HandsOK'
  <2>1. at["reader"] \in Busy /\ at["reader"] = "queue"
    BY <1>3 DEF Retried, Busy
  <2>2. UNCHANGED <<attached, chan, cur, beatSlot, rowsSlot, queued, barriers>>
    BY <1>3 DEF Retried, HandOver, slots, damage
  <2>3. CASE ~attached
    BY <1>0, <1>3, <2>1, <2>2, <2>3 DEF Retried, HandOver, Idle, Busy, Held
  <2>4. CASE attached
    <3>1. \E w \in {"raise", "send"} : Goto("reader", w) /\ (w = "raise" => op.kind = "invoke")
      BY <1>3, <2>4 DEF Retried, HandOver
    <3>2. at'["reader"] \in {"raise", "send"} /\ at'["loop"] = at["loop"]
          /\ (at'["reader"] = "raise" => op.kind = "invoke")
      BY <1>0, <3>1
    <3>3. UNCHANGED <<op, presink>>
      BY <1>3, <2>4 DEF Retried, HandOver
    <3>4. QED
      BY <2>1, <2>2, <2>4, <3>2, <3>3 DEF Busy, Held
  <2>5. QED
    BY <2>3, <2>4
<1>4. ASSUME \/ SendToken \/ Disarm \/ SendInvoke \/ Lower \/ SendHeld \/ SendQueued \/ SendRequest
             \/ Raise
      PROVE  HandsOK'
  <2>1. attached
    BY <1>4 DEF SendToken, Disarm, Raise, SendInvoke, Lower, SendHeld, SendQueued, SendRequest, Sends
  <2>2. /\ UNCHANGED <<attached, presink, cur>>
        /\ at["reader"] \in {"send", "disarm", "raise", "lower"}
    BY <1>4 DEF SendToken, Disarm, Raise, SendInvoke, Lower, SendHeld, SendQueued, SendRequest, Sends,
                route, slots
  <2>3. \/ op' = Null /\ \E w \in {"idle", "stopping"} : Goto("reader", w)
        \/ op' = op /\ Goto("reader", "lower") /\ op.kind = "invoke"
        \/ op' = op /\ Goto("reader", "disarm") /\ op.kind = "token"
        \/ op' = op /\ Goto("reader", "send")
    BY <1>4 DEF SendToken, Disarm, Raise, SendInvoke, Lower, SendHeld, SendQueued, SendRequest, Sent,
                Idle, Sends
  <2>4. /\ at'["loop"] = at["loop"]
        /\ \/ op' = Null /\ at'["reader"] \in {"idle", "stopping"}
           \/ op' = op /\ at'["reader"] = "lower" /\ op.kind = "invoke"
           \/ op' = op /\ at'["reader"] = "disarm" /\ op.kind = "token"
           \/ op' = op /\ at'["reader"] = "send"
    BY <1>0, <2>3
  <2>5. QED
    BY <2>1, <2>2, <2>4 DEF Busy, Held
<1>5. ASSUME RouteStop PROVE HandsOK'
  <2>1. UNCHANGED <<attached, chan, cur, beatSlot, rowsSlot, queued, barriers, op>>
    BY <1>5 DEF RouteStop, slots, damage
  <2>2. op = Null
    BY <1>5 DEF RouteStop, Busy, Held
  <2>3. CASE attached
    BY <1>0, <1>5, <2>1, <2>2, <2>3 DEF RouteStop, Busy, Held
  <2>4. CASE ~attached
    BY <1>0, <1>5, <2>1, <2>2, <2>4 DEF RouteStop, Busy, Held
  <2>5. QED
    BY <2>3, <2>4
<1>6. ASSUME PostStop PROVE HandsOK'
  <2>1. attached /\ UNCHANGED <<attached, presink, cur, op>>
    BY <1>6 DEF PostStop, route
  <2>2. at'["reader"] = "over" /\ at["reader"] = "posting" /\ at'["loop"] = at["loop"]
    BY <1>0, <1>6 DEF PostStop
  <2>3. QED
    BY <2>1, <2>2 DEF Busy, Held
<1>7. ASSUME Nvim PROVE HandsOK'
  <2>1. /\ at["reader"] = "idle" /\ op = Null
        /\ UNCHANGED <<attached, presink, beatSlot, rowsSlot, queued, chan, cur, barriers>>
    BY <1>7 DEF Nvim, Fold, Invoke, Beat, LaterBeat, StreamEnds, Answer, route, slots, damage,
                Busy, Held
  <2>2. \/ UNCHANGED <<at, op>>
        \/ Goto("reader", "stopping") /\ op' = op
        \/ Goto("reader", "lock") /\ op'.kind \in Kinds \ {"stop"}
    BY <1>7 DEF Nvim, Fold, Invoke, Beat, LaterBeat, StreamEnds, Answer, Begin, Kinds, Numbered
  <2>3. \/ UNCHANGED <<at, op>>
        \/ at'["reader"] = "stopping" /\ op' = op /\ at'["loop"] = at["loop"]
        \/ /\ at'["reader"] = "lock" /\ op'.kind # "stop" /\ op'.kind # "none"
           /\ at'["loop"] = at["loop"]
    BY <1>0, <2>2 DEF Kinds, Numbered
  <2>4. QED
    BY <2>1, <2>3 DEF Busy, Held
<1>8. ASSUME Attach PROVE HandsOK'
  BY <1>0, <1>8 DEF Attach, slots, damage
<1>9. ASSUME ReadPending \/ DrainPending \/ Cutover \/ Residue \/ Key \/ RetriedParked PROVE HandsOK'
  <2>1. attached /\ UNCHANGED <<attached, cur, op>>
    BY <1>9 DEF ReadPending, DrainPending, Cutover, Residue, Key, RetriedParked, Held, route
  <2>2. \E w \in {"drain", "cutover", "wait", "lock", "residue"} : Goto("loop", w)
          /\ (presink' # <<>> => presink # <<>> /\ w \in {"drain", "cutover"})
    BY <1>9 DEF ReadPending, DrainPending, Cutover, Residue, Key, RetriedParked, Held, route
  <2>3. /\ at'["reader"] = at["reader"] /\ at'["loop"] \in {"drain", "cutover", "wait", "lock", "residue"}
        /\ presink' # <<>> => presink # <<>> /\ at'["loop"] \in {"drain", "cutover"}
    BY <1>0, <2>2
  <2>4. at["loop"] # "received"
    BY <1>9 DEF ReadPending, DrainPending, Cutover, Residue, Key, RetriedParked
  <2>5. QED
    BY <2>1, <2>3, <2>4
<1>10. ASSUME Receive PROVE HandsOK'
  <2>1. cur' \in Msg /\ attached /\ at["loop"] = "wait" /\ UNCHANGED <<attached, presink, op>>
    BY <1>10, TailSeq DEF Receive, route, TypeOK, RouteOK
  <2>2. at'["loop"] = "received" /\ at'["reader"] = at["reader"]
    BY <1>0, <1>10 DEF Receive
  <2>3. QED
    BY <2>1, <2>2
<1>11. ASSUME Admit PROVE HandsOK'
  <2>1. cur' = Null /\ attached /\ at["loop"] = "received" /\ UNCHANGED <<attached, presink, op>>
    BY <1>11 DEF Admit, route
  <2>2. at'["loop"] = "residue" /\ at'["reader"] = at["reader"]
    BY <1>0, <1>11 DEF Admit
  <2>3. QED
    BY <2>1, <2>2
<1>12. CASE UNCHANGED vars
  BY <1>12 DEF vars, route, slots, damage
<1> HIDE DEF HandsOK
<1>13. "reader" \in Threads /\ "loop" \in Threads
  BY DEF Threads
<1>14. QED
  BY <1>1, <1>2, <1>3, <1>4, <1>5, <1>6, <1>7, <1>8, <1>9, <1>10, <1>11, <1>12, <1>13, Zenon
     DEF Next, Routes, Runtime, Retry

(* A slot takes its kind, and empties only under the lock. *)
LEMMA NextSlotsOK ==
  ASSUME TypeOK, LockOwned, HandsOK, SlotsOK, [Next]_vars
  PROVE  SlotsOK'
<1>0. /\ \A w \in ReaderAt : Goto("reader", w) => at'["reader"] = w /\ at'["loop"] = at["loop"]
      /\ \A w \in LoopAt : Goto("loop", w) => at'["loop"] = w /\ at'["reader"] = at["reader"]
  BY GotoGoes, Zenon DEF TypeOK, ReaderGoes, LoopGoes
<1>00. queued \in Seq(Msg) /\ Threads = {"reader", "loop"} /\ Null.kind = "none"
  BY DEF TypeOK, RouteOK, Threads, Null
<1> DEFINE QueueOK == \A i \in 1 .. Len(queued) : queued[i].kind = "queued"
<1>1. ASSUME NEW t \in Threads, Acquire(t) PROVE SlotsOK'
  <2>1. \E w \in Held : Goto(t, w) /\ (w = "beat" => beatSlot # Null) /\ (w = "rows" => rowsSlot # Null)
    BY <1>1, PlacesNamed DEF Acquire, AfterBeat
  <2>2. UNCHANGED <<beatSlot, rowsSlot, queued>>
    BY <1>1 DEF Acquire, route, slots
  <2>3. QED
    BY <1>0, <1>00, <2>1, <2>2, PlacesNamed DEF SlotsOK
<1>2. ASSUME NEW t \in Threads, NEW u \in Threads, u # t, at[t] \in Held
      PROVE  at[u] \notin Held
  BY <1>00, <1>2 DEF LockOwned
<1>3. ASSUME NEW t \in Threads, RetryBeat(t) PROVE SlotsOK'
  <2>1. \E w \in {"rows", "queue"} : Goto(t, w) /\ (w = "rows" => rowsSlot # Null)
    BY <1>3 DEF RetryBeat, AfterBeat
  <2>2. UNCHANGED <<rowsSlot, queued>> /\ beatSlot' \in {beatSlot, Null}
    BY <1>3 DEF RetryBeat
  <2>3. at[t] \in Held
    BY <1>3, PlacesNamed DEF RetryBeat
  <2>4. \A u \in Threads : u # t => at'[u] = at[u] /\ at[u] \notin Held
    BY <1>0, <1>00, <1>2, <2>1, <2>3, PlacesNamed
  <2>5. at'[t] \in {"rows", "queue"} /\ (at'[t] = "rows" => rowsSlot # Null)
    BY <1>0, <1>00, <2>1, PlacesNamed
  <2>6. QED
    BY <1>00, <2>2, <2>4, <2>5, PlacesNamed DEF SlotsOK
<1>4. ASSUME NEW t \in Threads, RetryRows(t) PROVE SlotsOK'
  <2>1. Goto(t, "queue")
    BY <1>4 DEF RetryRows
  <2>2. UNCHANGED <<beatSlot, queued>> /\ rowsSlot' \in {rowsSlot, Null}
    BY <1>4 DEF RetryRows
  <2>3. at[t] \in Held
    BY <1>4, PlacesNamed DEF RetryRows
  <2>4. \A u \in Threads : u # t => at'[u] = at[u] /\ at[u] \notin Held
    BY <1>0, <1>00, <1>2, <2>1, <2>3, PlacesNamed
  <2>5. at'[t] = "queue"
    BY <1>0, <1>00, <2>1, PlacesNamed
  <2>6. QED
    BY <1>00, <2>2, <2>4, <2>5, PlacesNamed DEF SlotsOK
<1>5. ASSUME NEW t \in Threads, RetryQueued(t) PROVE SlotsOK'
  <2>1. UNCHANGED <<beatSlot, rowsSlot, at>>
    BY <1>5 DEF RetryQueued
  <2>2. QueueOK'
    BY <1>00, <1>5, TailSeq DEF RetryQueued, SlotsOK
  <2>3. QED
    BY <2>1, <2>2 DEF SlotsOK
<1>6. ASSUME SendHeld \/ SendQueued PROVE SlotsOK'
  <2>1. at'["reader"] = "idle" /\ at'["loop"] = at["loop"] /\ at["loop"] \notin Held
    BY <1>0, <1>6, PlacesNamed DEF SendHeld, SendQueued, Sent, Idle, Sends, LockOwned
  <2>2. /\ beatSlot' = beatSlot \/ (beatSlot' = op /\ op.kind = "beat")
        /\ rowsSlot' = rowsSlot \/ (rowsSlot' = op /\ op.kind = "rows")
    BY <1>6 DEF SendHeld, SendQueued
  <2>3. queued' = queued \/ (queued' = Append(queued, op) /\ op.kind = "queued")
    BY <1>6 DEF SendHeld, SendQueued, Sends
  <2>4. op \in Msg
    BY <1>6 DEF SendHeld, SendQueued, Sends, HandsOK, Busy, TypeOK, RouteOK
  <2>5. QueueOK'
    BY <1>00, <2>3, <2>4, AppendSeq DEF SlotsOK
  <2>6. QED
    BY <1>00, <2>1, <2>2, <2>5, PlacesNamed DEF SlotsOK
<1>7. ASSUME \/ Retried \/ SendToken \/ Disarm \/ Raise \/ SendInvoke \/ Lower \/ SendRequest
             \/ RouteStop \/ PostStop \/ Nvim
      PROVE  SlotsOK'
  <2>1. UNCHANGED <<beatSlot, rowsSlot, queued>>
    BY <1>7 DEF Retried, HandOver, SendToken, Disarm, Raise, SendInvoke, Lower, SendRequest,
                RouteStop, PostStop, Nvim, Fold, Invoke, Beat, LaterBeat, StreamEnds, Answer,
                route, slots
  <2>2. \/ UNCHANGED at
        \/ \E w \in {"idle", "send", "raise", "disarm", "lower", "stopping", "posting", "over", "lock"} :
             Goto("reader", w)
    BY <1>7 DEF Retried, HandOver, SendToken, Disarm, Raise, SendInvoke, Lower, SendRequest, Sent, Idle,
                RouteStop, PostStop, Nvim, Fold, Invoke, Beat, LaterBeat, StreamEnds, Answer, Begin
  <2>3. \/ UNCHANGED at
        \/ at'["reader"] \notin {"beat", "rows"} /\ at'["loop"] = at["loop"]
    BY <1>0, <2>2, PlacesNamed
  <2>4. QED
    BY <1>00, <2>1, <2>3 DEF SlotsOK
<1>8. ASSUME \/ Attach \/ ReadPending \/ DrainPending \/ Cutover \/ Receive \/ Admit \/ Residue \/ Key
             \/ RetriedParked
      PROVE  SlotsOK'
  <2>1. UNCHANGED <<beatSlot, rowsSlot, queued>>
    BY <1>8 DEF Attach, ReadPending, DrainPending, Cutover, Receive, Admit, Residue, Key, RetriedParked,
                route, slots
  <2>2. \E w \in {"attached", "drain", "cutover", "wait", "received", "residue", "lock"} :
          Goto("loop", w)
    BY <1>8 DEF Attach, ReadPending, DrainPending, Cutover, Receive, Admit, Residue, Key, RetriedParked
  <2>3. at'["loop"] \notin {"beat", "rows"} /\ at'["reader"] = at["reader"]
    BY <1>0, <2>2, PlacesNamed
  <2>4. QED
    BY <1>00, <2>1, <2>3 DEF SlotsOK
<1>9. CASE UNCHANGED vars
  BY <1>9 DEF vars, route, slots, SlotsOK
<1>10. QED
  BY <1>00, <1>1, <1>3, <1>4, <1>5, <1>6, <1>7, <1>8, <1>9, Zenon DEF Next, Routes, Runtime, Retry,
                                                                      Threads

(* The buffer stays in its types whatever the step. *)
LEMMA NextDamageOK ==
  ASSUME TypeOK, BufferOK, Paired, HandsOK, [Next]_vars
  PROVE  DamageOK'
<1>0. DamageOK /\ flush \in Nat /\ drawn \in Nat /\ folded \in Nat /\ flush <= folded - drawn
      /\ Len(barriers) \in Nat
  BY BoundsAreNat DEF TypeOK, DamageOK, Staged
<1>1. ASSUME NEW flushes \in BOOLEAN, Fold(flushes) PROVE DamageOK'
  <2>1. folded' = folded + 1 /\ drawn' = drawn /\ barriers' = barriers /\ pending' = TRUE
        /\ flush' \in {flush, folded - drawn + 1}
    BY <1>1 DEF Fold, Staged
  <2>2. folded' \in 0 .. MaxMsgs
    BY <1>0, <1>1, <2>1, BoundsAreNat DEF Fold, TypeOK, CountsOK
  <2>3. flush \in Nat /\ flush' \in Nat /\ flush <= flush' /\ flush' <= folded' - drawn'
    BY <1>0, <2>1
  <2>4. barriers' \in Seq(0 .. flush')
    BY <1>0, <2>1, <2>3, WiderSeq DEF DamageOK
  <2>5. QED
    BY <1>0, <2>1, <2>2, <2>3, <2>4 DEF DamageOK, Staged
<1>2. ASSUME Disarm PROVE DamageOK'
  BY <1>0, <1>2 DEF Disarm, DamageOK, Staged
<1>3. ASSUME Raise PROVE DamageOK'
  <2>1. flush \in 0 .. flush
    BY <1>0
  <2>2. barriers' \in Seq(0 .. flush)
    BY <1>0, <1>3, <2>1, AppendSeq DEF Raise, DamageOK
  <2>3. QED
    BY <1>0, <1>3, <2>2 DEF Raise, DamageOK, Staged
<1>4. ASSUME Lower PROVE DamageOK'
  <2>1. barriers' \in Seq(0 .. flush)
    BY <1>0, <1>4 DEF Lower, DamageOK
  <2>2. QED
    BY <1>0, <1>4, <2>1 DEF Lower, DamageOK, Staged
<1>5. CASE UNCHANGED damage
  BY <1>0, <1>5 DEF damage, DamageOK, Staged
<1>6. CASE DamageStep
  BY <1>6 DEF DamageStep
<1>7. QED
  BY <1>1, <1>2, <1>3, <1>4, <1>5, <1>6, DamageSteps, Zenon

(* What nvim has flushed is what is drawn and what is staged up to the flush. *)
LEMMA NextBufferOK ==
  ASSUME TypeOK, BufferOK, Paired, HandsOK, [Next]_vars
  PROVE  BufferOK'
<1> DEFINE Rising == \A i, j \in 1 .. Len(barriers) : i < j => barriers[i] <= barriers[j]
           Carried == op.kind = "invoke" => op.nr = wireEnd
<1>0. DamageOK /\ flush \in Nat /\ drawn \in Nat /\ folded \in Nat /\ flush <= folded - drawn
      /\ wireEnd = drawn + flush /\ Len(barriers) \in Nat
      /\ \A i \in 1 .. Len(barriers) : barriers[i] \in 0 .. flush
  BY BoundsAreNat DEF TypeOK, DamageOK, Staged, BufferOK
<1>00. Rising /\ Carried
  BY DEF BufferOK
<1>1. Carried'
  <2>1. CASE UNCHANGED <<op, wireEnd>>
    BY <1>00, <2>1
  <2>2. CASE op' = Null
    BY <2>2 DEF Null
  <2>3. ASSUME Invoke PROVE Carried'
    BY <2>3 DEF Invoke, Begin, history
  <2>4. ASSUME NEW flushes \in BOOLEAN, Fold(flushes) PROVE Carried'
    <3>1. op = Null
      BY <2>4 DEF Fold, HandsOK, Busy, Held
    <3>2. op' = Null \/ op'.kind = "token"
      BY <2>4, <3>1 DEF Fold, Begin
    <3>3. QED
      BY <3>2 DEF Null
  <2>5. ASSUME NEW k \in Numbered, Answer(k) PROVE Carried'
    BY <2>5 DEF Answer, Begin, Numbered
  <2>6. ASSUME Beat \/ LaterBeat PROVE Carried'
    BY <2>6 DEF Beat, LaterBeat, Begin
  <2>7. ASSUME \/ StreamEnds \/ Attach \/ ReadPending \/ DrainPending \/ Cutover \/ Receive \/ Residue
               \/ RetriedParked \/ Key \/ RouteStop \/ PostStop \/ Raise
        PROVE  UNCHANGED <<op, wireEnd>>
    BY <2>7 DEF StreamEnds, Attach, ReadPending, DrainPending, Cutover, Receive, Residue,
                RetriedParked, Key, RouteStop, PostStop, Raise, history
  <2>8. ASSUME Admit PROVE UNCHANGED <<op, wireEnd>>
    BY <2>8 DEF Admit
  <2>9. ASSUME NEW t, Retry(t) PROVE UNCHANGED <<op, wireEnd>>
    BY <2>9 DEF Retry, Acquire, RetryBeat, RetryRows, RetryQueued, history
  <2>10. ASSUME \/ Retried \/ SendToken \/ Disarm \/ SendInvoke \/ Lower \/ SendHeld \/ SendQueued
                \/ SendRequest
         PROVE  op' = Null \/ UNCHANGED <<op, wireEnd>>
    BY <2>10 DEF Retried, HandOver, SendToken, Disarm, SendInvoke, Lower, SendHeld, SendQueued,
                 SendRequest,
                 Sent, Idle, history
  <2>11. CASE UNCHANGED vars
    BY <1>00, <2>11 DEF vars, history
  <2> HIDE DEF Carried
  <2>12. QED
    BY <2>1, <2>2, <2>3, <2>4, <2>5, <2>6, <2>7, <2>8, <2>9, <2>10, <2>11, Zenon
       DEF Next, Routes, Nvim, Runtime
<1>2. ASSUME NEW flushes \in BOOLEAN, Fold(flushes) PROVE BufferOK'
  <2>1. wireEnd' = drawn' + flush'
    BY <1>0, <1>2 DEF Fold, Staged
  <2>2. barriers' = barriers
    BY <1>2 DEF Fold
  <2>3. QED
    BY <1>00, <1>1, <2>1, <2>2 DEF BufferOK
<1>3. ASSUME Disarm \/ Raise \/ Lower PROVE UNCHANGED <<wireEnd, drawn, flush>>
  BY <1>3 DEF Disarm, Raise, Lower, history
<1>4. ASSUME Disarm PROVE BufferOK'
  <2>1. barriers' = barriers
    BY <1>4 DEF Disarm
  <2>2. QED
    BY <1>0, <1>00, <1>1, <1>3, <1>4, <2>1 DEF BufferOK
<1>5. ASSUME Raise PROVE BufferOK'
  <2>1. /\ Len(barriers') = Len(barriers) + 1 /\ barriers'[Len(barriers) + 1] = flush
        /\ \A i \in 1 .. Len(barriers) : barriers'[i] = barriers[i]
    BY <1>0, <1>5, AppendSeq DEF Raise, DamageOK
  <2>2. Rising'
    BY <1>0, <1>00, <2>1
  <2>3. QED
    BY <1>0, <1>1, <1>3, <1>5, <2>2 DEF BufferOK
<1>6. ASSUME Lower PROVE BufferOK'
  <2>1. \A i \in 1 .. Len(barriers') : i \in 1 .. Len(barriers) /\ barriers'[i] = barriers[i]
    <3>1. barriers \in Seq(0 .. flush)
      BY <1>0 DEF DamageOK
    <3>2. barriers' = SubSeq(barriers, 1, Len(barriers) - 1)
      BY <1>6 DEF Lower
    <3>3. QED
      BY <1>0, <3>1, <3>2
  <2>2. Rising'
    BY <1>00, <2>1
  <2>3. QED
    BY <1>0, <1>1, <1>3, <1>6, <2>2 DEF BufferOK
<1>7. ASSUME DrainPending \/ Residue \/ Admit PROVE wireEnd' = wireEnd
  BY <1>7 DEF DrainPending, Residue, Admit, history
<1>8. ASSUME TakeToBarrier PROVE Rising'
  <2>1. PICK end \in 0 .. flush :
           /\ barriers' = Moved(barriers, end)
           /\ \A i \in 1 .. Len(barriers) : barriers[i] >= end
    BY <1>0, <1>8, Drain, Zenon
  <2>2. Len(barriers') = Len(barriers) /\ \A i \in 1 .. Len(barriers) : barriers'[i] = barriers[i] - end
    BY <1>0, <2>1 DEF Moved
  <2>3. QED
    BY <1>0, <1>00, <2>1, <2>2
<1>9. ASSUME barriers # <<>>, PassBarrier PROVE Rising'
  <2>1. PICK end \in 0 .. flush :
           /\ Len(barriers') = Len(barriers) - 1
           /\ \A i \in 1 .. Len(barriers') : /\ i + 1 \in 1 .. Len(barriers)
                                            /\ barriers'[i] = barriers[i + 1] - end
    BY <1>0, <1>9, Pass, Zenon
  <2>2. ASSUME NEW i \in 1 .. Len(barriers'), NEW j \in 1 .. Len(barriers'), i < j
        PROVE  barriers'[i] <= barriers'[j]
    <3>1. /\ i + 1 \in 1 .. Len(barriers) /\ j + 1 \in 1 .. Len(barriers) /\ i + 1 < j + 1
          /\ barriers'[i] = barriers[i + 1] - end /\ barriers'[j] = barriers[j + 1] - end
      BY <1>0, <2>1, <2>2
    <3>2. barriers[i + 1] <= barriers[j + 1]
      BY <1>00, <3>1
    <3>3. QED
      BY <1>0, <2>1, <3>1, <3>2
  <2>3. QED
    BY <2>2
<1>10. ASSUME UNCHANGED damage PROVE Rising' /\ UNCHANGED <<drawn, flush>>
  BY <1>00, <1>10 DEF damage
<1>11. ASSUME Admit PROVE Rising'
  <2>1. CASE cur.kind = "token"
    BY <1>11, <2>1, <1>8 DEF Admit
  <2>2. CASE cur.kind = "invoke"
    BY <1>11, <2>2, <1>9, BarrierIsUp DEF Admit
  <2>3. CASE cur.kind \notin {"token", "invoke"}
    BY <1>11, <2>3, <1>10 DEF Admit
  <2>4. QED
    BY <2>1, <2>2, <2>3
<1>12. ASSUME DrainPending \/ Residue PROVE Rising'
  BY <1>8, <1>12 DEF DrainPending, Residue
<1>13. ASSUME DamageStep, DrainPending \/ Residue \/ Admit PROVE BufferOK'
  <2>1. wireEnd' = drawn' + flush'
    BY <1>0, <1>7, <1>13 DEF DamageStep
  <2>2. Rising'
    BY <1>11, <1>12, <1>13
  <2>3. QED
    BY <1>1, <2>1, <2>2 DEF BufferOK
<1>14. ASSUME UNCHANGED damage PROVE BufferOK'
  <2>1. CASE \E flushes \in BOOLEAN : Fold(flushes)
    BY <1>2, <2>1
  <2>2. CASE ~\E flushes \in BOOLEAN : Fold(flushes)
    <3>1. wireEnd' = wireEnd
      <4>1. ASSUME Admit PROVE wireEnd' = wireEnd
        BY <4>1 DEF Admit
      <4>2. ASSUME \/ Routes \/ Invoke \/ Beat \/ LaterBeat \/ StreamEnds \/ Key
                   \/ (\E kind \in Numbered : Answer(kind)) \/ UNCHANGED vars
            PROVE  wireEnd' = wireEnd
        BY <4>2 DEF Routes, Retry, Acquire, RetryBeat, RetryRows, RetryQueued, Retried, HandOver,
             SendToken, Disarm, Raise, SendInvoke, Lower, SendHeld, SendQueued, SendRequest, RouteStop,
             PostStop, Invoke, Beat, LaterBeat, StreamEnds, Answer, Key, history, vars
      <4>3. ASSUME \/ Attach \/ ReadPending \/ DrainPending \/ Cutover \/ Receive \/ Residue
                   \/ Retry("loop") \/ RetriedParked
            PROVE  wireEnd' = wireEnd
        BY <4>3 DEF Attach, ReadPending, DrainPending, Cutover, Receive, Residue, RetriedParked, Retry,
             Acquire, RetryBeat, RetryRows, RetryQueued, history
      <4>4. QED
        BY <2>2, <4>1, <4>2, <4>3, Zenon DEF Next, Nvim, Runtime
    <3>2. QED
      BY <1>0, <1>1, <1>10, <1>14, <3>1 DEF BufferOK
  <2>3. QED
    BY <2>1, <2>2
<1>15. QED
  BY <1>2, <1>4, <1>5, <1>6, <1>13, <1>14, DamageSteps, Zenon

(* Nothing is counted past its bound. *)
LEMMA NextCountsOK ==
  ASSUME TypeOK, BufferOK, Paired, HandsOK, [Next]_vars
  PROVE  CountsOK'
<1>0. CountsOK /\ DamageOK /\ {wireEnd, folded, msgs, keys, MaxMsgs, MaxKeys} \subseteq Nat
      /\ presink \in Seq(Msg) /\ cur \in Msg \cup {Null} /\ folded <= MaxMsgs
  BY BoundsAreNat DEF TypeOK, CountsOK, DamageOK, RouteOK
<1> USE DEF CountsOK
<1>1. ASSUME NEW flushes \in BOOLEAN, Fold(flushes) PROVE CountsOK'
  <2>1. UNCHANGED <<sent, got, keys>> /\ msgs' = msgs + 1 /\ msgs < MaxMsgs /\ folded' = folded + 1
    BY <1>1 DEF Fold
  <2>2. wireEnd' \in {wireEnd, folded + 1}
    BY <1>1 DEF Fold
  <2>3. \A k \in Numbered : sent[k] \in Nat
    BY <1>0
  <2>4. QED
    BY <1>0, <2>1, <2>2, <2>3
<1>2. ASSUME NEW k \in Numbered, Answer(k) PROVE CountsOK'
  <2>1. UNCHANGED <<wireEnd, got, keys, folded>> /\ msgs' = msgs + 1 /\ msgs < MaxMsgs
        /\ sent' = [sent EXCEPT ![k] = @ + 1]
    BY <1>2 DEF Answer, damage
  <2>2. sent[k] \in Nat /\ sent[k] <= msgs /\ \A l \in Numbered : sent[l] \in Nat /\ sent[l] <= msgs
    BY <1>0
  <2>3. \A l \in Numbered : sent'[l] \in 0 .. MaxMsgs /\ sent'[l] <= msgs'
    BY <1>0, <2>1, <2>2
  <2>4. sent' \in [Numbered -> 0 .. MaxMsgs]
    BY <1>0, <2>1, <2>3
  <2>5. QED
    BY <1>0, <2>1, <2>3, <2>4
<1>3. ASSUME Invoke \/ Beat \/ LaterBeat \/ StreamEnds \/ Key PROVE CountsOK'
  <2>1. /\ UNCHANGED <<wireEnd, got, sent, folded>> /\ msgs' \in {msgs, msgs + 1}
        /\ msgs' # msgs => msgs < MaxMsgs
        /\ keys' = keys \/ (keys < MaxKeys /\ keys' = keys + 1)
    BY <1>3 DEF Invoke, Beat, LaterBeat, StreamEnds, Key, damage, bounds, history
  <2>2. \A l \in Numbered : sent[l] \in Nat
    BY <1>0
  <2>3. QED
    BY <1>0, <2>1, <2>2
<1>4. ASSUME UNCHANGED <<folded, bounds, wireEnd, sent>>, got' \in [Numbered -> 0 .. MaxMsgs]
      PROVE  CountsOK'
  BY <1>0, <1>4 DEF bounds
<1>5. ASSUME Routes \/ UNCHANGED vars PROVE UNCHANGED <<folded, bounds, history>>
  BY <1>5 DEF Routes, Retry, Acquire, RetryBeat, RetryRows, RetryQueued, Retried, HandOver,
       SendToken, Disarm, Raise, SendInvoke, Lower, SendHeld, SendQueued, SendRequest, RouteStop,
       PostStop, vars, damage
<1>6. ASSUME \/ Attach \/ ReadPending \/ DrainPending \/ Receive \/ Residue \/ Retry("loop")
             \/ RetriedParked
      PROVE  UNCHANGED <<folded, bounds, history>>
  BY <1>6 DEF Attach, ReadPending, DrainPending, Receive, Residue, RetriedParked, Retry,
       Acquire, RetryBeat, RetryRows, RetryQueued, damage, TakeToBarrier, DrainTo
<1>7. UNCHANGED history => UNCHANGED <<wireEnd, sent>> /\ got' = got
  BY DEF history
<1>8. ASSUME Cutover PROVE CountsOK'
  <2>1. /\ UNCHANGED <<folded, bounds, wireEnd, sent>> /\ got' = After(presink)
    BY <1>8 DEF Cutover, damage
  <2>2. Len(presink) \in Nat /\ \A i \in 1 .. Len(presink) : presink[i] \in Msg \cup {Null}
    BY <1>0
  <2>3. QED
    BY <1>0, <2>1, <2>2, AfterBounded, <1>4
<1>9. ASSUME Admit PROVE CountsOK'
  <2>1. UNCHANGED <<bounds, wireEnd, sent>> /\ got' = After(<<cur>>)
    BY <1>9 DEF Admit
  <2>2. Len(<<cur>>) \in Nat /\ \A i \in 1 .. Len(<<cur>>) : (<<cur>>)[i] \in Msg \cup {Null}
    BY <1>0
  <2>3. got' \in [Numbered -> 0 .. MaxMsgs]
    BY <1>0, <2>1, <2>2, AfterBounded
  <2>4. folded' = folded
    <3>1. ~Disarm /\ ~Raise /\ ~Lower /\ (\A flushes \in BOOLEAN : ~Fold(flushes))
      <4>1. cur # Null /\ cur' = Null
        BY <1>9, MsgFacts DEF Admit, HandsOK
      <4>2. QED
        BY <4>1 DEF Disarm, Raise, Lower, Fold
    <3>2. QED
      BY <3>1, DamageSteps DEF DamageStep, damage
  <2>5. QED
    BY <2>1, <2>3, <2>4, <1>4
<1> HIDE DEF CountsOK
<1>10. QED
  BY <1>0, <1>1, <1>2, <1>3, <1>4, <1>5, <1>6, <1>7, <1>8, <1>9 DEF Next, Nvim, Runtime, CountsOK

(* What a drain leaves behind waits for an invocation in the channel: a     *)
(* barrier whose message the reader has yet to send stands at the flush.    *)
LEMMA DrainLeaves ==
  ASSUME TypeOK, BufferOK, Paired, cur.kind # "invoke", TakeToBarrier, flush' > 0 \/ pending'
  PROVE  chan # <<>>
<1>1. barriers # <<>> /\ barriers[1] < flush
  BY Drain, Zenon DEF TypeOK
<1>2. Len(barriers) \in Nat /\ 1 \in 1 .. Len(barriers) /\ barriers[1] \in Nat
      /\ flush \in Nat /\ drawn \in Nat /\ Len(chan) \in Nat
  BY <1>1, BoundsAreNat DEF TypeOK, DamageOK, RouteOK, Staged
<1>3. PICK ix \in [1 .. Len(barriers) -> Invokes] : Pairs(ix)
  BY DEF Paired
<1>4. ix[1] \in Invokes /\ drawn + barriers[1] = Past(ix[1]).nr
  BY <1>2, <1>3 DEF Pairs
<1>5. SUFFICES ASSUME chan = <<>> PROVE FALSE
  OBVIOUS
<1>6. ix[1] # 0
  BY <1>4 DEF Invokes, Past
<1>7. ix[1] = 1 /\ Raised
  BY <1>4, <1>5, <1>6 DEF Invokes
<1>8. Past(ix[1]) = op
  BY <1>5, <1>7 DEF Past
<1>9. op.nr = drawn + flush
  BY <1>7 DEF Raised, BufferOK
<1>10. QED
  BY <1>1, <1>2, <1>4, <1>8, <1>9

(* Whatever leaves a flushed batch undrained leaves a wakeup behind. *)
LEMMA NextWakeupOwed ==
  ASSUME TypeOK, LockOwned, HandsOK, SlotsOK, BufferOK, Paired, WakeupOwed, [Next]_vars
  PROVE  WakeupOwed'
<1>0. /\ \A w \in ReaderAt : Goto("reader", w) => at'["reader"] = w /\ at'["loop"] = at["loop"]
      /\ \A w \in LoopAt : Goto("loop", w) => at'["loop"] = w /\ at'["reader"] = at["reader"]
  BY GotoGoes, Zenon DEF TypeOK, ReaderGoes, LoopGoes
<1>00. flush \in Nat /\ Len(chan) \in Nat /\ (~attached => WillDrain) /\ chan \in Seq(Msg)
  BY BoundsAreNat DEF TypeOK, DamageOK, RouteOK, Staged, HandsOK, WillDrain
<1>01. Null.kind = "none"
  BY MsgFacts
<1> DEFINE Due == flush > 0 \/ pending
<1>1. ASSUME UNCHANGED <<flush, pending>>, chan # <<>> => chan' # <<>>,
             WillDrain => WillDrain', TokenComing => TokenComing' \/ chan' # <<>> \/ WillDrain',
             at["loop"] = "attached" => at'["loop"] = "attached",
             at'["loop"] = "start" => at["loop"] = "start",
             at'["reader"] = "disarm" => at["reader"] = "disarm" \/ chan' # <<>>
      PROVE  WakeupOwed'
  BY <1>1 DEF WakeupOwed
<1>2. ASSUME WillDrain', at'["loop"] # "start" PROVE WakeupOwed'
  BY <1>2 DEF WakeupOwed
<1>3. ASSUME UNCHANGED <<flush, pending, chan>> \/ (UNCHANGED <<flush, pending>> /\ chan' # <<>>),
             at'["loop"] = at["loop"],
             TokenComing => TokenComing' \/ chan' # <<>> \/ WillDrain,
             at'["reader"] = "disarm" => at["reader"] = "disarm" \/ chan' # <<>>
      PROVE  WakeupOwed'
  <2>1. WillDrain' = WillDrain
    BY <1>3 DEF WillDrain
  <2>2. QED
    BY <1>1, <1>3, <2>1
<1>4. ASSUME Acquire("reader") \/ RetryBeat("reader") \/ RetryRows("reader") PROVE WakeupOwed'
  <2>1. \E w \in Held : Goto("reader", w)
    BY <1>4, PlacesNamed DEF Acquire, RetryBeat, RetryRows, AfterBeat
  <2>2. at'["reader"] \in Held /\ at'["loop"] = at["loop"] /\ op' = op /\ UNCHANGED <<flush, pending>>
    BY <1>0, <1>4, <2>1, PlacesNamed DEF Acquire, RetryBeat, RetryRows, damage
  <2>3. chan' = chan \/ chan' # <<>>
    BY <1>00, <1>4 DEF Acquire, RetryBeat, RetryRows
  <2>4. TokenComing => TokenComing'
    BY <2>2 DEF TokenComing
  <2>5. QED
    BY <1>3, <2>2, <2>3, <2>4, PlacesNamed DEF Held
<1>5. ASSUME Acquire("loop") \/ RetryBeat("loop") \/ RetryRows("loop") PROVE WakeupOwed'
  <2>1. \E w \in Held : Goto("loop", w)
    BY <1>5, PlacesNamed DEF Acquire, RetryBeat, RetryRows, AfterBeat
  <2>2. at'["loop"] \in Held
    BY <1>0, <2>1, PlacesNamed
  <2>3. QED
    BY <1>2, <2>2 DEF WillDrain, Held
<1>6. ASSUME NEW t, RetryQueued(t) PROVE WakeupOwed'
  <2>1. UNCHANGED <<flush, pending, at, op>> /\ chan' # <<>>
    BY <1>00, <1>6 DEF RetryQueued, damage
  <2>2. QED
    BY <1>3, <2>1
<1>7. ASSUME Retried PROVE WakeupOwed'
  <2>1. UNCHANGED <<flush, pending, chan>>
    BY <1>7 DEF Retried, HandOver, damage
  <2>2. \E w \in {"raise", "send", "idle"} : Goto("reader", w)
    BY <1>7 DEF Retried, HandOver, Idle
  <2>3. at'["reader"] \in {"raise", "send", "idle"} /\ at'["loop"] = at["loop"]
    BY <1>0, <2>2, PlacesNamed
  <2>4. CASE attached /\ op.kind = "token"
    <3>1. at'["reader"] = "send" /\ op' = op
      BY <1>0, <1>7, <2>4, PlacesNamed DEF Retried, HandOver
    <3>2. TokenComing'
      BY <2>4, <3>1 DEF TokenComing
    <3>3. QED
      BY <1>3, <2>1, <2>3, <3>2
  <2>5. CASE ~attached \/ op.kind # "token"
    BY <1>00, <1>3, <2>1, <2>3, <2>5 DEF TokenComing
  <2>6. QED
    BY <2>4, <2>5
<1>8. ASSUME SendToken PROVE WakeupOwed'
  <2>1. UNCHANGED <<flush, pending>> /\ chan' # <<>>
    BY <1>00, <1>8, CapHoldsTheSlots DEF SendToken, Sent, HasRoom, damage
  <2>2. \E w \in {"idle", "disarm"} : Goto("reader", w)
    BY <1>8 DEF SendToken, Sent, Idle
  <2>3. at'["loop"] = at["loop"]
    BY <1>0, <2>2, PlacesNamed
  <2>4. QED
    BY <1>3, <2>1, <2>3
<1>9. ASSUME Disarm PROVE WakeupOwed'
  <2>1. UNCHANGED <<flush, chan>> /\ pending' = FALSE /\ at'["loop"] = at["loop"]
        /\ at'["reader"] = "idle" /\ at["reader"] = "disarm"
    BY <1>0, <1>9, PlacesNamed DEF Disarm, Idle
  <2>2. at["loop"] # "start"
    BY <2>1 DEF HandsOK
  <2>3. WillDrain' = WillDrain
    BY <2>1 DEF WillDrain
  <2>4. QED
    BY <2>1, <2>2, <2>3 DEF WakeupOwed
<1>10. ASSUME \/ Raise \/ SendInvoke \/ Lower \/ SendHeld \/ SendQueued \/ SendRequest \/ RouteStop
              \/ PostStop
       PROVE  WakeupOwed'
  <2>1. UNCHANGED <<flush, pending>>
    BY <1>10 DEF Raise, SendInvoke, Lower, SendHeld, SendQueued, SendRequest, RouteStop, PostStop,
                 damage
  <2>2. chan' = chan \/ chan' # <<>>
    BY <1>00, <1>10 DEF Raise, SendInvoke, Lower, SendHeld, SendQueued, SendRequest, RouteStop,
                        PostStop,
                        Sent
  <2>3. \E w \in {"send", "idle", "lower", "stopping", "posting", "over"} : Goto("reader", w)
    BY <1>10 DEF Raise, SendInvoke, Lower, SendHeld, SendQueued, SendRequest, RouteStop, PostStop,
                 Sent, Idle
  <2>4. at'["reader"] # "disarm" /\ at'["loop"] = at["loop"]
    BY <1>0, <2>3, PlacesNamed
  <2>5. ~TokenComing
    BY <1>10 DEF Raise, SendInvoke, Lower, SendHeld, SendQueued, SendRequest, RouteStop, PostStop,
                 Sends, TokenComing, Held
  <2>6. QED
    BY <1>3, <2>1, <2>2, <2>4, <2>5
<1>11. ASSUME NEW flushes \in BOOLEAN, Fold(flushes) PROVE WakeupOwed'
  <2>1. pending' = TRUE /\ chan' = chan /\ at["reader"] = "idle"
    BY <1>11 DEF Fold
  <2>2. CASE pending
    <3>1. UNCHANGED <<at, op>>
      BY <1>11, <2>2 DEF Fold
    <3>2. ~TokenComing
      BY <2>1 DEF TokenComing, Held
    <3>3. WillDrain' = WillDrain
      BY <3>1 DEF WillDrain
    <3>4. QED
      BY <2>1, <2>2, <3>1, <3>2, <3>3 DEF WakeupOwed
  <2>3. CASE ~pending
    <3>1. op'.kind = "token" /\ at'["reader"] = "lock"
      BY <1>0, <1>11, <2>3, PlacesNamed DEF Fold, Begin
    <3>2. QED
      BY <2>1, <3>1 DEF WakeupOwed, TokenComing
  <2>4. QED
    BY <2>2, <2>3
<1>12. ASSUME Invoke \/ Beat \/ LaterBeat \/ StreamEnds \/ (\E kind \in Numbered : Answer(kind))
       PROVE  WakeupOwed'
  <2>1. UNCHANGED <<flush, pending, chan>> /\ at["reader"] = "idle"
    BY <1>12 DEF Invoke, Beat, LaterBeat, StreamEnds, Answer, damage
  <2>2. \E w \in {"lock", "stopping"} : Goto("reader", w)
    BY <1>12 DEF Invoke, Beat, LaterBeat, StreamEnds, Answer, Begin
  <2>3. at'["reader"] # "disarm" /\ at'["loop"] = at["loop"]
    BY <1>0, <2>2, PlacesNamed
  <2>4. QED
    BY <1>3, <2>1, <2>3 DEF TokenComing, Held
<1>13. ASSUME Attach PROVE WakeupOwed'
  <2>1. UNCHANGED <<flush, pending, chan, op>> /\ at["loop"] = "start"
    BY <1>13 DEF Attach, damage
  <2>2. at'["loop"] = "attached" /\ at'["reader"] = at["reader"]
    BY <1>0, <1>13, PlacesNamed DEF Attach
  <2>3. at["reader"] # "disarm"
    BY <2>1 DEF HandsOK
  <2>4. QED
    BY <2>1, <2>2, <2>3 DEF WakeupOwed
<1>14. ASSUME ReadPending PROVE WakeupOwed'
  <2>1. UNCHANGED <<flush, pending, chan, op>> /\ at["loop"] = "attached"
    BY <1>14 DEF ReadPending, damage
  <2>2. ~WillDrain
    BY <2>1 DEF WillDrain, Held
  <2>3. CASE pending
    <3>1. at'["loop"] = "drain"
      BY <1>0, <1>14, <2>3, PlacesNamed DEF ReadPending
    <3>2. QED
      BY <1>2, <3>1 DEF WillDrain
  <2>4. CASE ~pending
    <3>1. at'["loop"] = "cutover" /\ at'["reader"] = at["reader"]
      BY <1>0, <1>14, <2>4, PlacesNamed DEF ReadPending
    <3>2. TokenComing' = TokenComing
      BY <2>1, <3>1 DEF TokenComing
    <3>3. QED
      BY <2>1, <2>2, <2>4, <3>1, <3>2 DEF WakeupOwed
  <2>5. QED
    BY <2>3, <2>4
<1>15. ASSUME DrainPending \/ Residue PROVE WakeupOwed'
  <2>1. TakeToBarrier /\ chan' = chan
    BY <1>15 DEF DrainPending, Residue
  <2>2. cur.kind # "invoke"
    BY <1>01, <1>15 DEF DrainPending, Residue, HandsOK
  <2>3. \E w \in {"cutover", "wait"} : Goto("loop", w)
    BY <1>15 DEF DrainPending, Residue
  <2>4. at'["loop"] # "start"
    BY <1>0, <2>3, PlacesNamed
  <2>5. flush' > 0 \/ pending' => chan' # <<>>
    BY <2>1, <2>2, DrainLeaves
  <2>6. QED
    BY <2>4, <2>5 DEF WakeupOwed
<1>16. ASSUME Cutover PROVE WakeupOwed'
  <2>1. UNCHANGED <<flush, pending, chan, op>> /\ at["loop"] = "cutover"
    BY <1>16 DEF Cutover, damage
  <2>2. at'["loop"] = "wait" /\ at'["reader"] = at["reader"]
    BY <1>0, <1>16, PlacesNamed DEF Cutover
  <2>3. ~WillDrain
    BY <2>1 DEF WillDrain, Held
  <2>4. TokenComing' = TokenComing
    BY <2>1, <2>2 DEF TokenComing
  <2>5. QED
    BY <2>1, <2>2, <2>3, <2>4 DEF WakeupOwed
<1>17. ASSUME Receive \/ Admit \/ RetriedParked \/ Key PROVE WakeupOwed'
  <2>1. \E w \in {"received", "residue", "lock"} : Goto("loop", w)
    BY <1>17 DEF Receive, Admit, RetriedParked, Key
  <2>2. at'["loop"] \in {"received", "residue", "lock"}
    BY <1>0, <2>1, PlacesNamed
  <2>3. QED
    BY <1>2, <2>2 DEF WillDrain
<1>18. CASE UNCHANGED vars
  BY <1>3, <1>18 DEF vars, damage, TokenComing
<1>19. QED
  BY <1>4, <1>5, <1>6, <1>7, <1>8, <1>9, <1>10, <1>11, <1>12, <1>13, <1>14, <1>15, <1>16, <1>17, <1>18,
     Zenon DEF Next, Nvim, Routes, Runtime, Retry

(* A step that moves the invocations past the route, and neither adds nor   *)
(* removes one, keeps the pairing.                                          *)
LEMMA PairsMoved ==
  ASSUME Invokes \subseteq Nat, Paired, NEW f \in [Nat -> Nat],
         Len(barriers') = Len(barriers),
         \A k \in 1 .. Len(barriers) : drawn' + barriers'[k] = drawn + barriers[k],
         \A i \in Invokes : f[i] \in Invokes' /\ (Past(f[i]).nr)' = Past(i).nr,
         \A i \in Invokes : \A j \in Invokes : i < j => f[i] < f[j],
         \A j \in Invokes' : \E i \in Invokes : f[i] = j
  PROVE  Paired'
<1>1. PICK ix \in [1 .. Len(barriers) -> Invokes] : Pairs(ix)
  BY DEF Paired
<1>2. PICK jx : jx = [k \in 1 .. Len(barriers) |-> f[ix[k]]]
  OBVIOUS
<1>3. \A k \in 1 .. Len(barriers) : ix[k] \in Invokes /\ jx[k] = f[ix[k]]
  BY <1>1, <1>2
<1>4. jx \in [1 .. Len(barriers') -> Invokes']
  BY <1>2, <1>3
<1>5. \A k, l \in 1 .. Len(barriers') : k < l => jx[k] < jx[l]
  <2>1. SUFFICES ASSUME NEW k \in 1 .. Len(barriers), NEW l \in 1 .. Len(barriers), k < l
                 PROVE  jx[k] < jx[l]
    OBVIOUS
  <2>2. ix[k] \in Invokes /\ ix[l] \in Invokes /\ ix[k] < ix[l]
    BY <1>1, <1>3, <2>1 DEF Pairs
  <2>3. f[ix[k]] < f[ix[l]]
    BY <2>2
  <2>4. QED
    BY <1>3, <2>3
<1>6. \A j \in Invokes' : \E k \in 1 .. Len(barriers') : jx[k] = j
  <2>1. SUFFICES ASSUME NEW j \in Invokes' PROVE \E k \in 1 .. Len(barriers') : jx[k] = j
    OBVIOUS
  <2>2. PICK i \in Invokes : f[i] = j
    OBVIOUS
  <2>3. PICK k \in 1 .. Len(barriers) : ix[k] = i
    BY <1>1 DEF Pairs
  <2>4. QED
    BY <1>3, <2>2, <2>3
<1>7. ASSUME NEW k \in 1 .. Len(barriers') PROVE drawn' + barriers'[k] = (Past(jx[k]).nr)'
  <2>1. drawn' + barriers'[k] = Past(ix[k]).nr
    BY <1>1, <1>7 DEF Pairs
  <2>2. PICK i \in Invokes : i = ix[k] /\ f[i] = jx[k]
    BY <1>3, <1>7
  <2>3. (Past(f[i]).nr)' = Past(i).nr
    OBVIOUS
  <2>4. QED
    BY <2>1, <2>2, <2>3
<1>8. Pairs(jx)'
  BY <1>4, <1>5, <1>6, <1>7 DEF Pairs
<1>9. QED
  BY <1>4, <1>8 DEF Paired

LEMMA InvokesNat ==
  ASSUME Len(chan) \in Nat
  PROVE  Invokes \subseteq Nat
BY DEF Invokes

(* The line of messages past the route, now and after a step. *)
LEMMA PastIs ==
  ASSUME NEW n \in Nat
  PROVE  /\ Len(chan) = n => Past(0) = cur /\ Past(n + 1) = op /\ \A i \in 1 .. n : Past(i) = chan[i]
         /\ Len(chan') = n =>
              Past(0)' = cur' /\ Past(n + 1)' = op' /\ \A i \in 1 .. n : Past(i)' = chan'[i]
BY DEF Past

LEMMA InvokesAre ==
  ASSUME NEW n \in Nat
  PROVE  /\ Len(chan) = n => \A i : i \in Invokes <=> \/ i \in 0 .. n /\ Past(i).kind = "invoke"
                                                      \/ i = n + 1 /\ Raised
         /\ Len(chan') = n => \A i : i \in Invokes' <=> \/ i \in 0 .. n /\ Past(i)'.kind = "invoke"
                                                        \/ i = n + 1 /\ Raised'
BY DEF Invokes

(* Nothing past the route moves. *)
Stays ==
  /\ chan' = chan
  /\ cur' = cur \/ (cur.kind # "invoke" /\ cur'.kind # "invoke")
  /\ Raised' <=> Raised
  /\ Raised => op' = op
Shown == \* where the barriers stand
  /\ Len(barriers') = Len(barriers)
  /\ \A k \in 1 .. Len(barriers) : drawn' + barriers'[k] = drawn + barriers[k]

LEMMA PairsStay ==
  ASSUME TypeOK, Paired, Stays, Shown
  PROVE  Paired'
<1>1. PICK f \in [Nat -> Nat] : f = [i \in Nat |-> i]
  OBVIOUS
<1>2. PICK n \in Nat : n = Len(chan)
  BY DEF TypeOK, RouteOK
<1>3. /\ Invokes \subseteq Nat /\ Len(chan) = n /\ Len(chan') = n /\ (Raised' <=> Raised)
      /\ \A i \in 1 .. n : chan'[i] = chan[i]
      /\ cur' = cur \/ (cur.kind # "invoke" /\ cur'.kind # "invoke")
      /\ Raised => op' = op
  BY <1>2, InvokesNat DEF Stays
<1>4. /\ Past(0) = cur /\ Past(0)' = cur' /\ Past(n + 1) = op /\ Past(n + 1)' = op'
      /\ \A i \in 1 .. n : Past(i)' = Past(i)
  BY <1>3, PastIs
<1>5. /\ \A i : i \in Invokes <=> \/ i \in 0 .. n /\ Past(i).kind = "invoke"
                                  \/ i = n + 1 /\ Raised
      /\ \A i : i \in Invokes' <=> \/ i \in 0 .. n /\ Past(i)'.kind = "invoke"
                                   \/ i = n + 1 /\ Raised'
  BY <1>3, InvokesAre
<1>6. ASSUME NEW i \in 0 .. n + 1
      PROVE  (i \in Invokes <=> i \in Invokes') /\ (i \in Invokes => Past(i)' = Past(i))
  <2>1. CASE i = 0
    BY <1>3, <1>4, <1>5, <2>1
  <2>2. CASE i = n + 1
    BY <1>3, <1>4, <1>5, <2>2, SMTT(30)
  <2>3. CASE i \in 1 .. n
    BY <1>4, <1>5, <2>3
  <2>4. QED
    BY <2>1, <2>2, <2>3
<1>7. \A i : i \in Invokes \/ i \in Invokes' => i \in 0 .. n + 1
  BY <1>5
<1>8. Invokes' = Invokes
  BY <1>6, <1>7
<1>9. ASSUME NEW i \in Invokes PROVE f[i] \in Invokes' /\ (Past(f[i]).nr)' = Past(i).nr
  <2>1. f[i] = i /\ i \in 0 .. n + 1
    BY <1>1, <1>7
  <2>2. i \in Invokes' /\ Past(i)' = Past(i)
    BY <1>6, <2>1
  <2>3. QED
    BY <2>1, <2>2
<1>10. QED
  BY <1>1, <1>3, <1>8, <1>9, PairsMoved DEF Shown

(* A message that is no invocation enters the channel, ahead of one whose   *)
(* barrier is up.                                                           *)
MakeWay ==
  /\ cur' = cur
  /\ Raised' <=> Raised
  /\ Raised => op' = op
  /\ UNCHANGED <<barriers, drawn>>
Enters(m) == HasRoom /\ chan' = Append(chan, m)

LEMMA EntersAt ==
  ASSUME TypeOK, NEW n \in Nat, n = Len(chan), NEW m \in Msg, Enters(m)
  PROVE  Len(chan') = n + 1 /\ chan'[n + 1] = m /\ \A i \in 1 .. n : chan'[i] = chan[i]
BY ChanTakes DEF Enters

(* Another message goes in ahead of an invocation the reader has raised. *)
LEMMA PairsMakeWay ==
  ASSUME TypeOK, Paired, NEW m \in Msg, m.kind # "invoke", Enters(m), MakeWay
  PROVE  Paired'
<1>0. PICK n \in Nat : n = Len(chan)
  BY DEF TypeOK, RouteOK
<1>1. PICK f \in [Nat -> Nat] : f = [i \in Nat |-> IF i = n + 1 THEN n + 2 ELSE i]
  <2>1. [i \in Nat |-> IF i = n + 1 THEN n + 2 ELSE i] \in [Nat -> Nat]
    OBVIOUS
  <2>2. QED
    BY <2>1, Zenon
<1>2. /\ Len(chan) = n /\ Len(chan') = n + 1 /\ chan'[n + 1] = m
      /\ \A i \in 1 .. n : chan'[i] = chan[i]
  BY <1>0, EntersAt
<1>02. cur' = cur /\ (Raised' <=> Raised) /\ (Raised => op' = op)
  BY DEF MakeWay
<1>3. Invokes \subseteq Nat
  BY <1>0, InvokesNat
<1>4. /\ Past(0)' = Past(0) /\ Past(n + 1) = op /\ Past(n + 1)' = m /\ Past(n + 2)' = op'
      /\ \A i \in 1 .. n : Past(i)' = Past(i)
  <2>1. Past(0) = cur /\ Past(n + 1) = op /\ \A i \in 1 .. n : Past(i) = chan[i]
    BY <1>2, PastIs
  <2>2. /\ Past(0)' = cur' /\ Past(n + 1 + 1)' = op'
        /\ \A i \in 1 .. n + 1 : Past(i)' = chan'[i]
    <3>1. PICK k \in Nat : k = n + 1
      OBVIOUS
    <3>2. Past(0)' = cur' /\ Past(k + 1)' = op' /\ \A i \in 1 .. k : Past(i)' = chan'[i]
      BY <1>2, <3>1, PastIs
    <3>3. QED
      BY <3>1, <3>2
  <2>3. n + 1 + 1 = n + 2 /\ n + 1 \in 1 .. n + 1 /\ \A i \in 1 .. n : i \in 1 .. n + 1
    OBVIOUS
  <2>4. QED
    BY <1>2, <1>02, <2>1, <2>2, <2>3
<1>5. /\ \A i : i \in Invokes <=> \/ i \in 0 .. n /\ Past(i).kind = "invoke"
                                  \/ i = n + 1 /\ Raised
      /\ \A i : i \in Invokes' <=> \/ i \in 0 .. n + 1 /\ Past(i)'.kind = "invoke"
                                   \/ i = n + 2 /\ Raised
  <2>1. PICK k \in Nat : k = n + 1 /\ k + 1 = n + 2
    OBVIOUS
  <2>2. \A i : i \in Invokes' <=> \/ i \in 0 .. k /\ Past(i)'.kind = "invoke"
                                  \/ i = k + 1 /\ Raised'
    BY <1>2, <2>1, InvokesAre
  <2>3. QED
    BY <1>2, <1>02, <2>1, <2>2, InvokesAre
<1>6. ASSUME NEW i \in 0 .. n
      PROVE  (i \in Invokes <=> i \in Invokes') /\ Past(i)' = Past(i) /\ f[i] = i
  <2>1. Past(i)' = Past(i)
    BY <1>4
  <2>2. i # n + 1 /\ i # n + 2 /\ i \in 0 .. n + 1 /\ i \in Nat
    OBVIOUS
  <2>3. QED
    BY <1>1, <1>5, <2>1, <2>2
<1>7. /\ n + 1 \notin Invokes' /\ (n + 1 \in Invokes <=> Raised) /\ (n + 2 \in Invokes' <=> Raised)
      /\ f[n + 1] = n + 2
  <2>1. n + 1 \notin 0 .. n /\ n + 2 \notin 0 .. n + 1 /\ n + 1 # n + 2 /\ n + 1 \in Nat
    OBVIOUS
  <2>2. QED
    BY <1>1, <1>4, <1>5, <2>1
<1>8. /\ \A i \in Invokes : i \in 0 .. n \/ i = n + 1
      /\ \A i \in Invokes' : i \in 0 .. n \/ i = n + 1 \/ i = n + 2
  BY <1>5
<1>9. ASSUME NEW i \in Invokes PROVE f[i] \in Invokes' /\ (Past(f[i]).nr)' = Past(i).nr
  <2>1. CASE i \in 0 .. n
    BY <1>6, <2>1
  <2>2. CASE i = n + 1
    BY <1>02, <1>4, <1>7, <2>2
  <2>3. QED
    BY <1>8, <2>1, <2>2
<1>10. \A i \in Invokes : \A j \in Invokes : i < j => f[i] < f[j]
  BY <1>6, <1>7, <1>8
<1>11. ASSUME NEW j \in Invokes' PROVE \E i \in Invokes : f[i] = j
  <2>1. CASE j \in 0 .. n
    BY <1>6, <2>1
  <2>2. CASE j = n + 2
    BY <1>7, <2>2
  <2>3. QED
    BY <1>7, <1>8, <2>1, <2>2
<1>12. UNCHANGED <<barriers, drawn>>
  BY DEF MakeWay
<1>13. QED
  BY <1>3, <1>9, <1>10, <1>11, <1>12, PairsMoved

(* The invocation whose barrier is up enters the channel. *)
LEMMA PairsSent ==
  ASSUME TypeOK, Paired, op \in Msg, Raised, Enters(op), ~Raised', UNCHANGED <<cur, barriers, drawn>>
  PROVE  Paired'
<1>0. PICK n \in Nat : n = Len(chan)
  BY DEF TypeOK, RouteOK
<1>1. PICK f \in [Nat -> Nat] : f = [i \in Nat |-> i]
  OBVIOUS
<1>2. /\ Len(chan) = n /\ Len(chan') = n + 1 /\ chan'[n + 1] = op
      /\ \A i \in 1 .. n : chan'[i] = chan[i]
  BY <1>0, EntersAt
<1>3. Invokes \subseteq Nat
  BY <1>0, InvokesNat
<1>4. PICK k \in Nat : k = n + 1
  OBVIOUS
<1>5. ASSUME NEW i \in 0 .. k PROVE Past(i)' = Past(i)
  <2>1. Past(0) = cur /\ Past(n + 1) = op /\ \A j \in 1 .. n : Past(j) = chan[j]
    BY <1>2, PastIs
  <2>2. Past(0)' = cur' /\ \A j \in 1 .. k : Past(j)' = chan'[j]
    BY <1>2, <1>4, PastIs
  <2>3. CASE i = 0
    BY <2>1, <2>2, <2>3
  <2>4. CASE i = k
    BY <1>2, <1>4, <2>1, <2>2, <2>4
  <2>5. CASE i \in 1 .. n
    BY <1>2, <1>4, <2>1, <2>2, <2>5
  <2>6. QED
    BY <1>4, <2>3, <2>4, <2>5
<1>6. /\ \A i : i \in Invokes <=> \/ i \in 0 .. n /\ Past(i).kind = "invoke"
                                  \/ i = k /\ Raised
      /\ \A i : i \in Invokes' <=> \/ i \in 0 .. k /\ Past(i)'.kind = "invoke"
                                   \/ i = k + 1 /\ Raised'
  BY <1>2, <1>4, InvokesAre
<1>7. Past(k).kind = "invoke"
  <2>1. Past(k) = op
    BY <1>2, <1>4, PastIs
  <2>2. QED
    BY <2>1 DEF Raised
<1>8. ASSUME NEW i \in 0 .. k PROVE i \in Invokes <=> i \in Invokes'
  <2>1. Past(i)' = Past(i) /\ i # k + 1
    BY <1>5
  <2>2. CASE i = k
    BY <1>6, <1>7, <2>1, <2>2
  <2>3. CASE i # k
    <3>1. i \in 0 .. n
      BY <1>4, <2>3
    <3>2. QED
      BY <1>6, <2>1, <2>3, <3>1
  <2>4. QED
    BY <2>2, <2>3
<1>9. \A i : i \in Invokes \/ i \in Invokes' => i \in 0 .. k
  BY <1>4, <1>6
<1>10. Invokes' = Invokes
  BY <1>8, <1>9
<1>11. ASSUME NEW i \in Invokes PROVE f[i] \in Invokes' /\ (Past(f[i]).nr)' = Past(i).nr
  <2>1. i \in 0 .. k /\ f[i] = i
    BY <1>1, <1>9
  <2>2. Past(i)' = Past(i)
    BY <1>5, <2>1
  <2>3. QED
    BY <1>10, <2>1, <2>2
<1>12. QED
  BY <1>1, <1>3, <1>10, <1>11, PairsMoved

(* The loop receives the first message of the channel. *)
LEMMA PairsReceived ==
  ASSUME TypeOK, Paired, Receive, cur.kind # "invoke", (Raised' <=> Raised)
  PROVE  Paired'
<1>0. PICK n \in Nat : n + 1 = Len(chan)
  <2>1. Len(chan) \in Nat /\ Len(chan) >= 1
    BY DEF Receive, TypeOK, RouteOK
  <2>2. Len(chan) - 1 \in Nat /\ (Len(chan) - 1) + 1 = Len(chan)
    BY <2>1
  <2>3. QED
    BY <2>2, Zenon
<1>1. PICK f \in [Nat -> Nat] : f = [i \in Nat |-> IF i = 0 THEN 0 ELSE i - 1]
  <2>1. [i \in Nat |-> IF i = 0 THEN 0 ELSE i - 1] \in [Nat -> Nat]
    OBVIOUS
  <2>2. QED
    BY <2>1, Zenon
<1>2. /\ Len(chan') = n /\ cur' = chan[1] /\ op' = op
      /\ \A i \in 1 .. n : chan'[i] = chan[i + 1]
  BY <1>0, TailSeq DEF Receive, TypeOK, RouteOK
<1>3. Invokes \subseteq Nat
  BY <1>0, InvokesNat
<1>02. PICK k \in Nat : k = n + 1 /\ Len(chan) = k
  BY <1>0
<1>4. ASSUME NEW i \in 0 .. k PROVE Past(i)' = Past(i + 1)
  <2>1. Past(0) = cur /\ Past(k + 1) = op /\ \A j \in 1 .. k : Past(j) = chan[j]
    BY <1>02, PastIs
  <2>2. Past(0)' = cur' /\ Past(n + 1)' = op' /\ \A j \in 1 .. n : Past(j)' = chan'[j]
    BY <1>2, PastIs
  <2>3. CASE i = 0
    BY <1>2, <1>02, <2>1, <2>2, <2>3
  <2>4. CASE i = k
    BY <1>2, <1>02, <2>1, <2>2, <2>4
  <2>5. CASE i \in 1 .. n
    <3>1. i + 1 \in 1 .. k
      BY <1>02, <2>5
    <3>2. QED
      BY <1>2, <2>1, <2>2, <2>5, <3>1
  <2>6. QED
    BY <1>02, <2>3, <2>4, <2>5
<1>5. /\ \A i : i \in Invokes <=> \/ i \in 0 .. k /\ Past(i).kind = "invoke"
                                  \/ i = k + 1 /\ Raised
      /\ \A i : i \in Invokes' <=> \/ i \in 0 .. n /\ Past(i)'.kind = "invoke"
                                   \/ i = n + 1 /\ Raised'
  BY <1>2, <1>02, InvokesAre
<1>6. 0 \notin Invokes
  <2>1. Past(0) = cur
    BY <1>02, PastIs
  <2>2. QED
    BY <1>02, <1>5, <2>1
<1>7. ASSUME NEW i \in 0 .. k PROVE i \in Invokes' <=> i + 1 \in Invokes
  <2>1. CASE i = k
    <3>1. k \notin 0 .. n /\ k + 1 \notin 0 .. k
      BY <1>02
    <3>2. QED
      BY <1>02, <1>5, <2>1, <3>1
  <2>2. CASE i # k
    <3>1. i \in 0 .. n /\ i + 1 \in 0 .. k /\ i + 1 # k + 1 /\ i # n + 1
      BY <1>02, <2>2
    <3>2. Past(i)' = Past(i + 1)
      BY <1>4
    <3>3. QED
      BY <1>5, <3>1, <3>2
  <2>3. QED
    BY <2>1, <2>2
<1>8. ASSUME NEW i \in Invokes PROVE i - 1 \in 0 .. k /\ i = (i - 1) + 1 /\ f[i] = i - 1
  <2>1. i \in Nat /\ i # 0 /\ i <= k + 1
    BY <1>3, <1>5, <1>6, <1>8
  <2>2. f[i] = i - 1
    BY <1>1, <2>1
  <2>3. QED
    BY <2>1, <2>2
<1>9. ASSUME NEW i \in Invokes PROVE f[i] \in Invokes' /\ (Past(f[i]).nr)' = Past(i).nr
  <2>1. PICK j \in 0 .. k : j + 1 = i /\ f[i] = j
    BY <1>8, <1>9
  <2>2. j \in Invokes' /\ Past(j)' = Past(i)
    BY <1>4, <1>7, <1>9, <2>1
  <2>3. QED
    BY <2>1, <2>2
<1>10. \A i \in Invokes : \A j \in Invokes : i < j => f[i] < f[j]
  BY <1>3, <1>8
<1>11. ASSUME NEW j \in Invokes' PROVE \E i \in Invokes : f[i] = j
  <2>1. j \in 0 .. k
    BY <1>02, <1>5, <1>11
  <2>2. j + 1 \in Invokes
    BY <1>7, <1>11, <2>1
  <2>3. f[j + 1] = j
    BY <1>8, <2>1, <2>2
  <2>4. QED
    BY <2>2, <2>3
<1>12. UNCHANGED <<barriers, drawn>>
  BY DEF Receive, damage
<1>13. QED
  BY <1>3, <1>9, <1>10, <1>11, <1>12, PairsMoved

(* The first barrier is the loop's, when it holds an invocation; the last   *)
(* the reader's, when it has raised one.                                    *)
LEMMA PairsEnds ==
  ASSUME NEW n \in Nat, n = Len(chan), NEW b \in Nat, b = Len(barriers),
         NEW ix \in [1 .. Len(barriers) -> Invokes], Pairs(ix)
  PROVE  /\ cur.kind = "invoke" => b >= 1 /\ ix[1] = 0
         /\ Raised => b >= 1 /\ ix[b] = n + 1
<1>1. Invokes \subseteq Nat /\ \A i \in Invokes : i <= n + 1
  BY DEF Invokes
<1>2. \A k \in 1 .. b : ix[k] \in Invokes /\ ix[k] \in Nat /\ ix[k] <= n + 1
  BY <1>1
<1>3. \A k \in 1 .. b : \A l \in 1 .. b : k < l => ix[k] < ix[l]
  BY DEF Pairs
<1>4. ASSUME cur.kind = "invoke" PROVE b >= 1 /\ ix[1] = 0
  <2>1. 0 \in Invokes
    BY <1>4 DEF Invokes, Past
  <2>2. PICK k \in 1 .. b : ix[k] = 0
    BY <2>1 DEF Pairs
  <2>3. 1 \in 1 .. b
    BY <2>2
  <2>4. k = 1
    <3>1. CASE 1 < k
      <4>1. ix[1] < ix[k]
        BY <1>3, <2>2, <2>3, <3>1
      <4>2. QED
        BY <1>2, <2>2, <2>3, <4>1
    <3>2. QED
      BY <2>2, <3>1
  <2>5. QED
    BY <2>2, <2>3, <2>4
<1>5. ASSUME Raised PROVE b >= 1 /\ ix[b] = n + 1
  <2>1. n + 1 \in Invokes
    BY <1>5 DEF Invokes
  <2>2. PICK k \in 1 .. b : ix[k] = n + 1
    BY <2>1 DEF Pairs
  <2>3. b \in 1 .. b
    BY <2>2
  <2>4. k = b
    <3>1. CASE k < b
      <4>1. ix[k] < ix[b]
        BY <1>3, <2>2, <2>3, <3>1
      <4>2. QED
        BY <1>2, <2>2, <2>3, <4>1
    <3>2. QED
      BY <2>2, <3>1
  <2>5. QED
    BY <2>2, <2>3, <2>4
<1>6. QED
  BY <1>4, <1>5

(* An invocation is admitted over the screen it was sent over, and takes    *)
(* its barrier with it.                                                     *)
LEMMA PairsAdmitted ==
  ASSUME TypeOK, BufferOK, Paired, cur.kind = "invoke", PassBarrier, cur' = Null, chan' = chan,
         op' = op, (Raised' <=> Raised)
  PROVE  drawn' = cur.nr /\ Paired'
<1>0. PICK n \in Nat : n = Len(chan) /\ n = Len(chan')
  BY DEF TypeOK, RouteOK
<1>1. PICK b \in Nat : b = Len(barriers)
  BY DEF TypeOK, DamageOK
<1>2. PICK ix \in [1 .. b -> Invokes] : Pairs(ix)
  BY <1>1 DEF Paired
<1>3. b >= 1 /\ ix[1] = 0
  BY <1>0, <1>1, <1>2, PairsEnds
<1>4. barriers # <<>>
  BY BarrierIsUp
<1>5. PICK end \in 0 .. flush :
        /\ end = barriers[1]
        /\ drawn' = drawn + end
        /\ Len(barriers') = b - 1
        /\ \A i \in 1 .. b - 1 : /\ i + 1 \in 1 .. b
                                 /\ barriers[i + 1] \in 0 .. flush
                                 /\ barriers'[i] = barriers[i + 1] - end
  BY <1>1, <1>4, Pass DEF TypeOK
<1>6. flush \in Nat /\ drawn \in Nat /\ end \in Nat
  BY BoundsAreNat DEF TypeOK, DamageOK, Staged
<1>7. /\ \A i : i \in Invokes <=> \/ i \in 0 .. n /\ Past(i).kind = "invoke"
                                  \/ i = n + 1 /\ Raised
      /\ \A i : i \in Invokes' <=> \/ i \in 0 .. n /\ Past(i)'.kind = "invoke"
                                   \/ i = n + 1 /\ Raised'
  BY <1>0, InvokesAre
<1>8. Past(0) = cur /\ Past(0)' = Null /\ \A i \in 1 .. n + 1 : Past(i)' = Past(i)
  BY <1>0, PastIs
<1>9. 0 \notin Invokes' /\ \A i : i # 0 => (i \in Invokes' <=> i \in Invokes)
  <2>1. 0 \notin Invokes'
    BY <1>7, <1>8, MsgFacts
  <2>2. ASSUME NEW i, i # 0 PROVE i \in Invokes' <=> i \in Invokes
    <3>1. CASE i \in 1 .. n
      BY <1>7, <1>8, <3>1
    <3>2. CASE i = n + 1
      BY <1>7, <3>2
    <3>3. CASE i \notin 1 .. n /\ i # n + 1
      BY <1>7, <2>2, <3>3
    <3>4. QED
      BY <3>1, <3>2, <3>3
  <2>3. QED
    BY <2>1, <2>2
<1>10. Invokes \subseteq 0 .. n + 1
  BY <1>7
<1>11. /\ \A k \in 1 .. b : ix[k] \in Invokes
       /\ \A k \in 1 .. b : \A l \in 1 .. b : k < l => ix[k] < ix[l]
       /\ \A k \in 1 .. b : drawn + barriers[k] = Past(ix[k]).nr
  BY <1>1, <1>2 DEF Pairs
<1>12. drawn' = cur.nr
  <2>1. drawn + barriers[1] = Past(ix[1]).nr
    BY <1>3, <1>11
  <2>2. QED
    BY <1>3, <1>5, <1>8, <2>1
<1>13. PICK jx : jx = [k \in 1 .. b - 1 |-> ix[k + 1]]
  OBVIOUS
<1>14. \A k \in 1 .. b - 1 : /\ k + 1 \in 1 .. b /\ jx[k] = ix[k + 1] /\ ix[k + 1] # 0
                             /\ jx[k] \in Invokes'
  <2>1. SUFFICES ASSUME NEW k \in 1 .. b - 1
                 PROVE  /\ k + 1 \in 1 .. b /\ jx[k] = ix[k + 1] /\ ix[k + 1] # 0
                        /\ jx[k] \in Invokes'
    OBVIOUS
  <2>2. k + 1 \in 1 .. b /\ jx[k] = ix[k + 1] /\ 1 < k + 1 /\ 1 \in 1 .. b
    BY <1>1, <1>13
  <2>3. ix[1] < ix[k + 1] /\ ix[k + 1] \in Invokes
    BY <1>11, <2>2
  <2>4. ix[k + 1] # 0
    BY <1>3, <2>3
  <2>5. QED
    BY <1>9, <2>2, <2>3, <2>4
<1>15. jx \in [1 .. Len(barriers') -> Invokes']
  BY <1>5, <1>13, <1>14
<1>16. \A k \in 1 .. Len(barriers') : \A l \in 1 .. Len(barriers') : k < l => jx[k] < jx[l]
  <2>1. SUFFICES ASSUME NEW k \in 1 .. b - 1, NEW l \in 1 .. b - 1, k < l
                 PROVE  jx[k] < jx[l]
    BY <1>5
  <2>2. k + 1 < l + 1 /\ k + 1 \in 1 .. b /\ l + 1 \in 1 .. b
    BY <1>1, <2>1
  <2>3. QED
    BY <1>11, <1>14, <2>2
<1>17. \A i \in Invokes' : \E k \in 1 .. Len(barriers') : jx[k] = i
  <2>1. SUFFICES ASSUME NEW i \in Invokes' PROVE \E k \in 1 .. b - 1 : jx[k] = i
    BY <1>5
  <2>2. i \in Invokes /\ i # 0
    BY <1>9
  <2>3. PICK l \in 1 .. b : ix[l] = i
    BY <1>1, <1>2, <2>2 DEF Pairs
  <2>4. l # 1
    BY <1>3, <2>2, <2>3
  <2>5. PICK k \in 1 .. b - 1 : k + 1 = l
    <3>1. l - 1 \in 1 .. b - 1 /\ (l - 1) + 1 = l
      BY <1>1, <2>3, <2>4
    <3>2. QED
      BY <3>1, Zenon
  <2>6. QED
    BY <1>14, <2>3, <2>5
<1>18. ASSUME NEW k \in 1 .. Len(barriers') PROVE drawn' + barriers'[k] = (Past(jx[k]).nr)'
  <2>1. k \in 1 .. b - 1
    BY <1>5
  <2>2. PICK j \in Invokes : j = jx[k] /\ j # 0 /\ j = ix[k + 1]
    BY <1>11, <1>14, <2>1
  <2>3. drawn + barriers[k + 1] = Past(j).nr
    BY <1>11, <1>14, <2>1, <2>2
  <2>4. Past(j)' = Past(j)
    BY <1>8, <1>10, <2>2
  <2>5. drawn' + barriers'[k] = drawn + barriers[k + 1]
    <3>1. barriers'[k] = barriers[k + 1] - end /\ barriers[k + 1] \in 0 .. flush
      BY <1>5, <2>1, Zenon
    <3>2. PICK x \in Nat : x = barriers[k + 1]
      BY <1>6, <3>1
    <3>3. barriers'[k] = x - end
      BY <3>1, <3>2, Zenon
    <3>4. drawn' + barriers'[k] = drawn + x
      BY <1>5, <1>6, <3>3
    <3>5. QED
      BY <3>2, <3>4
  <2>6. QED
    BY <2>2, <2>3, <2>4, <2>5
<1>19. Pairs(jx)'
  BY <1>15, <1>16, <1>17, <1>18 DEF Pairs
<1>20. QED
  BY <1>12, <1>15, <1>19 DEF Paired

(* The reader raises the barrier of the invocation it is about to send. *)
LEMMA PairsRaised ==
  ASSUME TypeOK, BufferOK, Paired, op.kind = "invoke", ~Raised, Raised',
         UNCHANGED <<chan, cur, op, drawn>>, barriers' = Append(barriers, flush)
  PROVE  Paired'
<1>0. PICK n \in Nat : n = Len(chan) /\ n = Len(chan')
  BY DEF TypeOK, RouteOK
<1>1. PICK b \in Nat : b = Len(barriers)
  BY DEF TypeOK, DamageOK
<1>2. PICK ix \in [1 .. b -> Invokes] : Pairs(ix)
  BY <1>1 DEF Paired
<1>5. /\ Len(barriers') = b + 1 /\ barriers'[b + 1] = flush
      /\ \A i \in 1 .. b : barriers'[i] = barriers[i]
  <2>1. barriers \in Seq(0 .. flush) /\ flush \in 0 .. flush
    BY BoundsAreNat DEF TypeOK, DamageOK, Staged
  <2>2. QED
    BY <1>1, <2>1, AppendSeq
<1>7. /\ \A i : i \in Invokes <=> i \in 0 .. n /\ Past(i).kind = "invoke"
      /\ \A i : i \in Invokes' <=> (i \in 0 .. n /\ Past(i)'.kind = "invoke") \/ i = n + 1
  BY <1>0, InvokesAre
<1>8. Past(n + 1) = op /\ Past(n + 1)' = op' /\ \A i \in 0 .. n : Past(i)' = Past(i)
  BY <1>0, PastIs
<1>9. \A i : i \in Invokes' <=> i \in Invokes \/ i = n + 1
  BY <1>7, <1>8
<1>10. Invokes \subseteq 0 .. n
  BY <1>7
<1>11. /\ \A k \in 1 .. b : ix[k] \in Invokes
       /\ \A k \in 1 .. b : \A l \in 1 .. b : k < l => ix[k] < ix[l]
       /\ \A k \in 1 .. b : drawn + barriers[k] = Past(ix[k]).nr
  BY <1>1, <1>2 DEF Pairs
<1>13. PICK jx : jx = [k \in 1 .. b + 1 |-> IF k = b + 1 THEN n + 1 ELSE ix[k]]
  OBVIOUS
<1>14. /\ jx[b + 1] = n + 1
       /\ \A k \in 1 .. b : jx[k] = ix[k] /\ jx[k] \in Invokes /\ jx[k] \in 0 .. n
  <2>1. b + 1 \in 1 .. b + 1 /\ \A k \in 1 .. b : k \in 1 .. b + 1 /\ k # b + 1
    OBVIOUS
  <2>2. jx[b + 1] = n + 1 /\ \A k \in 1 .. b : jx[k] = ix[k]
    BY <1>13, <2>1
  <2>3. \A k \in 1 .. b : ix[k] \in Invokes /\ ix[k] \in 0 .. n
    BY <1>10, <1>11
  <2>4. QED
    BY <2>2, <2>3
<1>04. \A k \in 1 .. b + 1 : k \in 1 .. b \/ k = b + 1
  OBVIOUS
<1>15. jx \in [1 .. Len(barriers') -> Invokes']
  <2>1. \A k \in 1 .. b + 1 : jx[k] \in Invokes'
    BY <1>04, <1>9, <1>14
  <2>2. QED
    BY <1>5, <1>13, <2>1
<1>16. \A k \in 1 .. Len(barriers') : \A l \in 1 .. Len(barriers') : k < l => jx[k] < jx[l]
  <2>1. SUFFICES ASSUME NEW k \in 1 .. b + 1, NEW l \in 1 .. b + 1, k < l
                 PROVE  jx[k] < jx[l]
    BY <1>5
  <2>2. k \in 1 .. b
    BY <2>1
  <2>3. CASE l \in 1 .. b
    BY <1>11, <1>14, <2>1, <2>2, <2>3
  <2>4. CASE l = b + 1
    BY <1>14, <2>2, <2>4
  <2>5. QED
    BY <1>04, <2>3, <2>4
<1>17. \A i \in Invokes' : \E k \in 1 .. Len(barriers') : jx[k] = i
  <2>1. SUFFICES ASSUME NEW i \in Invokes' PROVE \E k \in 1 .. b + 1 : jx[k] = i
    BY <1>5
  <2>2. CASE i = n + 1
    BY <1>14, <2>2
  <2>3. CASE i \in Invokes
    <3>1. PICK l \in 1 .. b : ix[l] = i
      BY <1>1, <1>2, <2>3 DEF Pairs
    <3>2. l \in 1 .. b + 1 /\ jx[l] = i
      BY <1>14, <3>1
    <3>3. QED
      BY <3>2
  <2>4. QED
    BY <1>9, <2>2, <2>3
<1>18. ASSUME NEW k \in 1 .. Len(barriers') PROVE drawn' + barriers'[k] = (Past(jx[k]).nr)'
  <2>1. CASE k \in 1 .. b
    <3>1. PICK j \in 0 .. n : j = jx[k] /\ j = ix[k]
      BY <1>14, <2>1
    <3>2. drawn + barriers[k] = Past(j).nr
      BY <1>11, <2>1, <3>1
    <3>3. Past(j)' = Past(j)
      BY <1>8
    <3>4. QED
      BY <1>5, <2>1, <3>1, <3>2, <3>3
  <2>2. CASE k = b + 1
    <3>1. PICK j : j = n + 1
      OBVIOUS
    <3>2. jx[k] = j /\ Past(j)' = op
      BY <1>8, <1>14, <2>2, <3>1
    <3>3. drawn' + barriers'[k] = op.nr
      BY <1>5, <2>2 DEF BufferOK
    <3>4. QED
      BY <3>2, <3>3
  <2>3. QED
    BY <1>04, <1>5, <2>1, <2>2
<1>19. Pairs(jx)'
  BY <1>15, <1>16, <1>17, <1>18 DEF Pairs
<1>20. QED
  BY <1>15, <1>19 DEF Paired

(* And takes it back with a message the channel refuses. *)
LEMMA PairsLowered ==
  ASSUME TypeOK, Paired, Raised, ~Raised', UNCHANGED <<chan, cur, drawn>>,
         barriers' = SubSeq(barriers, 1, Len(barriers) - 1)
  PROVE  Paired'
<1>0. PICK n \in Nat : n = Len(chan) /\ n = Len(chan')
  BY DEF TypeOK, RouteOK
<1>1. PICK b \in Nat : b = Len(barriers)
  BY DEF TypeOK, DamageOK
<1>2. PICK ix \in [1 .. b -> Invokes] : Pairs(ix)
  BY <1>1 DEF Paired
<1>3. b >= 1 /\ ix[b] = n + 1
  BY <1>0, <1>1, <1>2, PairsEnds
<1>5. Len(barriers') = b - 1 /\ \A i \in 1 .. b - 1 : barriers'[i] = barriers[i]
  <2>1. barriers \in Seq(0 .. flush)
    BY DEF TypeOK, DamageOK
  <2>2. QED
    BY <1>1, <1>3, <2>1
<1>7. /\ \A i : i \in Invokes <=> (i \in 0 .. n /\ Past(i).kind = "invoke") \/ i = n + 1
      /\ \A i : i \in Invokes' <=> i \in 0 .. n /\ Past(i)'.kind = "invoke"
  BY <1>0, InvokesAre
<1>8. \A i \in 0 .. n : Past(i)' = Past(i)
  BY <1>0, PastIs
<1>9. \A i : i \in Invokes' <=> i \in Invokes /\ i # n + 1
  <2>1. n + 1 \notin 0 .. n
    OBVIOUS
  <2>2. QED
    BY <1>7, <1>8, <2>1
<1>11. /\ \A k \in 1 .. b : ix[k] \in Invokes
       /\ \A k \in 1 .. b : \A l \in 1 .. b : k < l => ix[k] < ix[l]
       /\ \A k \in 1 .. b : drawn + barriers[k] = Past(ix[k]).nr
  BY <1>1, <1>2 DEF Pairs
<1>13. PICK jx : jx = [k \in 1 .. b - 1 |-> ix[k]]
  OBVIOUS
<1>14. \A k \in 1 .. b - 1 : k \in 1 .. b /\ jx[k] = ix[k] /\ jx[k] \in Invokes'
  <2>1. SUFFICES ASSUME NEW k \in 1 .. b - 1
                 PROVE  k \in 1 .. b /\ jx[k] = ix[k] /\ jx[k] \in Invokes'
    OBVIOUS
  <2>2. k \in 1 .. b /\ k < b /\ b \in 1 .. b /\ jx[k] = ix[k]
    BY <1>13
  <2>3. ix[k] < n + 1 /\ ix[k] \in Invokes
    BY <1>3, <1>11, <2>2
  <2>4. ix[k] # n + 1
    <3>1. ~(n + 1 < n + 1)
      OBVIOUS
    <3>2. QED
      BY <2>3, <3>1
  <2>5. QED
    BY <1>9, <2>2, <2>3, <2>4
<1>15. jx \in [1 .. Len(barriers') -> Invokes']
  BY <1>5, <1>13, <1>14
<1>16. \A k \in 1 .. Len(barriers') : \A l \in 1 .. Len(barriers') : k < l => jx[k] < jx[l]
  BY <1>5, <1>11, <1>14
<1>17. \A i \in Invokes' : \E k \in 1 .. Len(barriers') : jx[k] = i
  <2>1. SUFFICES ASSUME NEW i \in Invokes' PROVE \E k \in 1 .. b - 1 : jx[k] = i
    BY <1>5
  <2>2. i \in Invokes /\ i # n + 1
    BY <1>9
  <2>3. PICK l \in 1 .. b : ix[l] = i
    BY <1>1, <1>2, <2>2 DEF Pairs
  <2>4. l \in 1 .. b - 1
    BY <1>3, <2>2, <2>3
  <2>5. QED
    BY <1>14, <2>3, <2>4
<1>18. ASSUME NEW k \in 1 .. Len(barriers') PROVE drawn' + barriers'[k] = (Past(jx[k]).nr)'
  <2>1. k \in 1 .. b - 1
    BY <1>5
  <2>2. PICK j \in 0 .. n : j = jx[k] /\ j = ix[k]
    BY <1>7, <1>14, <2>1
  <2>3. drawn + barriers[k] = Past(j).nr
    BY <1>11, <1>14, <2>1, <2>2
  <2>4. Past(j)' = Past(j)
    BY <1>8
  <2>5. QED
    BY <1>5, <2>1, <2>2, <2>3, <2>4
<1>19. Pairs(jx)'
  BY <1>15, <1>16, <1>17, <1>18 DEF Pairs
<1>20. QED
  BY <1>15, <1>19 DEF Paired

(* A drain moves the buffer's origin and the barriers with it. *)
LEMMA DrainShown ==
  ASSUME TypeOK, BufferOK, TakeToBarrier
  PROVE  Shown
<1>1. PICK end \in 0 .. flush :
         /\ drawn' = drawn + end /\ barriers' = Moved(barriers, end)
         /\ \A i \in 1 .. Len(barriers) : barriers[i] >= end
  BY Drain, Zenon DEF TypeOK
<1>2. /\ flush \in Nat /\ drawn \in Nat /\ end \in Nat /\ Len(barriers) \in Nat
      /\ \A i \in 1 .. Len(barriers) : barriers[i] \in 0 .. flush
  BY BoundsAreNat DEF TypeOK, DamageOK, Staged
<1>3. Len(barriers') = Len(barriers) /\ \A i \in 1 .. Len(barriers) : barriers'[i] = barriers[i] - end
  BY <1>1, <1>2 DEF Moved
<1>4. ASSUME NEW i \in 1 .. Len(barriers) PROVE drawn' + barriers'[i] = drawn + barriers[i]
  <2>1. PICK x \in Nat : x = barriers[i]
    BY <1>2
  <2>2. barriers'[i] = x - end
    BY <1>3, <2>1
  <2>3. QED
    BY <1>1, <1>2, <2>1, <2>2
<1>5. QED
  BY <1>3, <1>4 DEF Shown

(* What the steps do to the reader's raised barrier. *)
LEMMA LoopKeepsRaised ==
  ASSUME ThreadsOK, op' = op, NEW w \in LoopAt, Goto("loop", w)
  PROVE  Raised' <=> Raised
BY LoopMoves DEF Raised

(* Every step keeps barriers and invocations paired. *)
LEMMA NextPaired ==
  ASSUME TypeOK, LockOwned, HandsOK, SlotsOK, BufferOK, Paired, [Next]_vars
  PROVE  Paired'
<1>0. \A w \in ReaderAt : Goto("reader", w) => at'["reader"] = w /\ at'["loop"] = at["loop"]
  BY GotoGoes, Zenon DEF TypeOK, ReaderGoes
<1>00. /\ ThreadsOK /\ Null.kind = "none" /\ RouteOK
       /\ at["reader"] \in Busy => op \in Msg
  BY MsgFacts DEF TypeOK, RouteOK, HandsOK
<1>01. UNCHANGED <<barriers, drawn>> => Shown
  BY DEF Shown
<1>1. ASSUME Acquire("reader") \/ RetryBeat("reader") \/ RetryRows("reader") \/ RetryQueued("reader")
      PROVE  ~Raised /\ ~Raised' /\ op' = op
  <2>1. UNCHANGED at \/ \E w \in Held : Goto("reader", w)
    BY <1>1, PlacesNamed DEF Acquire, RetryBeat, RetryRows, RetryQueued, AfterBeat
  <2>2. at["reader"] \notin {"send", "lower"} /\ op' = op
    BY <1>1 DEF Acquire, RetryBeat, RetryRows, RetryQueued
  <2>3. at'["reader"] \notin {"send", "lower"}
    BY <1>0, <2>1, <2>2, PlacesNamed DEF Held
  <2>4. QED
    BY <2>2, <2>3 DEF Raised
<1>2. ASSUME Acquire("loop") \/ RetryBeat("loop") \/ RetryRows("loop") \/ RetryQueued("loop")
      PROVE  (Raised' <=> Raised) /\ op' = op
  <2>1. UNCHANGED at \/ \E w \in Held : Goto("loop", w)
    BY <1>2, PlacesNamed DEF Acquire, RetryBeat, RetryRows, RetryQueued, AfterBeat
  <2>2. op' = op
    BY <1>2 DEF Acquire, RetryBeat, RetryRows, RetryQueued
  <2>3. CASE UNCHANGED at
    BY <2>2, <2>3 DEF Raised
  <2>4. CASE \E w \in Held : Goto("loop", w)
    BY <1>00, <2>2, <2>4, LoopKeepsRaised, PlacesNamed
  <2>5. QED
    BY <2>1, <2>2, <2>3, <2>4
<1>3. ASSUME NEW t \in Threads, Acquire(t) \/ RetryBeat(t) \/ RetryRows(t) \/ RetryQueued(t)
      PROVE  Paired'
  <2>1. /\ cur' = cur /\ UNCHANGED <<barriers, drawn>>
        /\ Raised' <=> Raised
        /\ Raised => op' = op
    <3>1. UNCHANGED <<cur, barriers, drawn>>
      BY <1>3 DEF Acquire, RetryBeat, RetryRows, RetryQueued, damage
    <3>2. QED
      BY <1>1, <1>2, <1>3, <3>1 DEF Threads
  <2>2. chan' = chan \/ \E m \in {beatSlot, rowsSlot, Head(queued)} : Enters(m)
          /\ m \in Msg /\ m.kind # "invoke"
    <3>1. CASE Acquire(t)
      BY <3>1 DEF Acquire
    <3>2. CASE RetryBeat(t)
      BY <1>00, <3>2 DEF RetryBeat, Enters, SlotsOK, RouteOK
    <3>3. CASE RetryRows(t)
      BY <1>00, <3>3 DEF RetryRows, Enters, SlotsOK, RouteOK
    <3>4. CASE RetryQueued(t)
      <4>1. Head(queued) \in Msg /\ Head(queued) = queued[1] /\ 1 \in 1 .. Len(queued)
        BY <1>00, <3>4, TailSeq DEF RetryQueued, RouteOK
      <4>2. QED
        BY <3>4, <4>1 DEF RetryQueued, Enters, SlotsOK
    <3>5. QED
      BY <1>3, <3>1, <3>2, <3>3, <3>4
  <2>3. CASE chan' = chan
    BY <1>01, <2>1, <2>3, PairsStay DEF Stays
  <2>4. ASSUME NEW m \in Msg, m.kind # "invoke", Enters(m) PROVE Paired'
    <3>1. MakeWay
      BY <2>1 DEF MakeWay
    <3>2. QED
      BY <2>4, <3>1, PairsMakeWay
  <2>5. QED
    BY <2>2, <2>3, <2>4
<1>4. ASSUME chan' = chan, ~Raised, ~Raised', UNCHANGED <<cur, barriers, drawn>> PROVE Paired'
  BY <1>01, <1>4, PairsStay DEF Stays
<1>5. ASSUME ~Raised, ~Raised', NEW m \in Msg, m.kind # "invoke", Enters(m),
             UNCHANGED <<cur, barriers, drawn>>
      PROVE  Paired'
  <2>1. MakeWay
    BY <1>5 DEF MakeWay
  <2>2. QED
    BY <1>5, <2>1, PairsMakeWay
<1>6. op'.kind # "invoke" \/ at'["reader"] \notin {"send", "lower"} => ~Raised'
  BY DEF Raised
<1>7. op.kind # "invoke" \/ at["reader"] \notin {"send", "lower"} => ~Raised
  BY DEF Raised
<1>8. ASSUME Retried PROVE Paired'
  <2>1. at["reader"] = "queue" /\ UNCHANGED <<chan, cur, barriers, drawn>>
    BY <1>8 DEF Retried, HandOver, damage
  <2>2. ~Raised'
    <3>1. CASE attached /\ op.kind = "invoke"
      <4>1. at'["reader"] = "raise"
        BY <1>0, <1>8, <3>1, PlacesNamed DEF Retried, HandOver
      <4>2. QED
        BY <1>6, <4>1
    <3>2. CASE attached /\ op.kind # "invoke"
      BY <1>6, <1>8, <3>2 DEF Retried, HandOver
    <3>3. CASE ~attached
      BY <1>00, <1>6, <1>8, <3>3 DEF Retried, HandOver, Idle
    <3>4. QED
      BY <3>1, <3>2, <3>3
  <2>3. QED
    BY <1>4, <1>7, <2>1, <2>2
<1>9. ASSUME SendToken \/ SendHeld \/ SendQueued \/ SendRequest PROVE Paired'
  <2>1. /\ UNCHANGED <<cur, barriers, drawn>> /\ op.kind # "invoke" /\ op \in Msg
        /\ op' \in {op, Null}
    BY <1>00, <1>9 DEF SendToken, SendHeld, SendQueued, SendRequest, Sends, Sent, Idle, damage, Busy
  <2>2. chan' = chan \/ Enters(op)
    BY <1>9 DEF SendToken, SendHeld, SendQueued, SendRequest, Sent, Enters
  <2>3. ~Raised /\ ~Raised'
    BY <1>00, <1>6, <1>7, <2>1
  <2>4. QED
    BY <1>4, <1>5, <2>1, <2>2, <2>3
<1>10. ASSUME Disarm PROVE Paired'
  <2>1. /\ UNCHANGED <<chan, cur, barriers, drawn>> /\ op'.kind # "invoke"
        /\ at["reader"] \notin {"send", "lower"}
    BY <1>00, <1>10 DEF Disarm, Idle
  <2>2. QED
    BY <1>4, <1>6, <1>7, <2>1
<1>11. ASSUME SendInvoke PROVE Paired'
  <2>1. UNCHANGED <<cur, barriers, drawn>> /\ Raised /\ op \in Msg
    BY <1>00, <1>11 DEF SendInvoke, Sends, Raised, Busy, damage
  <2>2. CASE HasRoom
    <3>1. Enters(op) /\ op'.kind # "invoke"
      BY <1>00, <1>11, <2>2 DEF SendInvoke, Sent, Idle, Enters
    <3>2. QED
      BY <1>6, <2>1, <3>1, PairsSent
  <2>3. CASE ~HasRoom
    <3>1. UNCHANGED <<chan, op>> /\ at'["reader"] = "lower"
      BY <1>0, <1>11, <2>3, PlacesNamed DEF SendInvoke
    <3>2. Raised'
      BY <2>1, <3>1 DEF Raised
    <3>3. Stays
      BY <2>1, <3>1, <3>2 DEF Stays
    <3>4. QED
      BY <1>01, <2>1, <3>3, PairsStay
  <2>4. QED
    BY <2>2, <2>3
<1>12. ASSUME Raise PROVE Paired'
  <2>1. UNCHANGED <<chan, cur, op, drawn>> /\ barriers' = Append(barriers, flush)
        /\ op.kind = "invoke" /\ at["reader"] = "raise"
    BY <1>12 DEF Raise, HandsOK
  <2>2. at'["reader"] = "send"
    BY <1>0, <1>12, PlacesNamed DEF Raise
  <2>3. ~Raised /\ Raised'
    BY <2>1, <2>2 DEF Raised
  <2>4. QED
    BY <2>1, <2>3, PairsRaised
<1>13. ASSUME Lower PROVE Paired'
  <2>1. UNCHANGED <<chan, cur, drawn>> /\ barriers' = SubSeq(barriers, 1, Len(barriers) - 1)
        /\ Raised /\ op'.kind # "invoke"
    BY <1>00, <1>13 DEF Lower, Idle, HandsOK, Raised
  <2>2. QED
    BY <1>6, <2>1, PairsLowered
<1>14. ASSUME RouteStop \/ PostStop PROVE Paired'
  <2>1. UNCHANGED <<cur, barriers, drawn, op>> /\ at["reader"] \in {"stopping", "posting"}
    BY <1>14 DEF RouteStop, PostStop, damage
  <2>2. op = Null
    BY <2>1 DEF HandsOK, Busy, Held
  <2>3. ~Raised /\ ~Raised'
    BY <1>00, <1>6, <1>7, <2>1, <2>2
  <2>4. [kind |-> "stop", nr |-> 0] \in Msg /\ [kind |-> "stop", nr |-> 0].kind # "invoke"
    BY BoundsAreNat DEF Msg, Kinds
  <2>5. chan' = chan \/ Enters([kind |-> "stop", nr |-> 0])
    BY <1>14 DEF RouteStop, PostStop, Enters
  <2>6. QED
    BY <1>4, <1>5, <2>1, <2>3, <2>4, <2>5
<1>15. ASSUME Nvim PROVE Paired'
  <2>1. UNCHANGED <<chan, cur, barriers, drawn>> /\ at["reader"] = "idle"
    BY <1>15 DEF Nvim, Fold, Invoke, Beat, LaterBeat, StreamEnds, Answer, damage
  <2>2. UNCHANGED at \/ \E w \in {"lock", "stopping"} : Goto("reader", w)
    BY <1>15 DEF Nvim, Fold, Invoke, Beat, LaterBeat, StreamEnds, Answer, Begin
  <2>3. at'["reader"] \notin {"send", "lower"}
    BY <1>0, <2>1, <2>2, PlacesNamed
  <2>4. QED
    BY <1>4, <1>6, <1>7, <2>1, <2>3
<1>16. ASSUME Attach \/ ReadPending \/ DrainPending \/ Cutover \/ Receive \/ Admit \/ Residue \/ Key
              \/ RetriedParked
       PROVE  (Raised' <=> Raised) /\ op' = op
  <2>1. op' = op
    BY <1>16 DEF Attach, ReadPending, DrainPending, Cutover, Receive, Admit, Residue, Key, RetriedParked
  <2>2. \E w \in {"attached", "drain", "cutover", "wait", "received", "residue", "lock"} :
          Goto("loop", w)
    BY <1>16 DEF Attach, ReadPending, DrainPending, Cutover, Receive, Admit, Residue, Key, RetriedParked
  <2>3. QED
    BY <1>00, <2>1, <2>2, LoopKeepsRaised, PlacesNamed
<1>17. ASSUME Attach \/ ReadPending \/ Cutover \/ Key \/ RetriedParked PROVE Paired'
  <2>1. UNCHANGED <<chan, cur, barriers, drawn>>
    BY <1>17 DEF Attach, ReadPending, Cutover, Key, RetriedParked, damage
  <2>2. Stays
    BY <1>16, <1>17, <2>1 DEF Stays
  <2>3. QED
    BY <1>01, <2>1, <2>2, PairsStay
<1>18. ASSUME DrainPending \/ Residue PROVE Paired'
  <2>1. UNCHANGED <<chan, cur>> /\ TakeToBarrier
    BY <1>18 DEF DrainPending, Residue
  <2>2. Stays
    BY <1>16, <1>18, <2>1 DEF Stays
  <2>3. QED
    BY <2>1, <2>2, DrainShown, PairsStay
<1>19. ASSUME Receive PROVE Paired'
  <2>1. cur.kind # "invoke"
    BY <1>00, <1>19 DEF Receive, HandsOK
  <2>2. QED
    BY <1>16, <1>19, <2>1, PairsReceived
<1>20. ASSUME Admit PROVE Paired'
  <2>1. chan' = chan /\ cur' = Null
    BY <1>20 DEF Admit
  <2>2. CASE cur.kind = "invoke"
    <3>1. PassBarrier
      BY <1>20, <2>2 DEF Admit
    <3>2. QED
      BY <1>16, <1>20, <2>1, <2>2, <3>1, PairsAdmitted
  <2>3. CASE cur.kind # "invoke"
    <3>1. Stays
      BY <1>00, <1>16, <1>20, <2>1, <2>3 DEF Stays
    <3>2. CASE cur.kind = "token"
      <4>1. TakeToBarrier
        BY <1>20, <3>2 DEF Admit
      <4>2. QED
        BY <3>1, <4>1, DrainShown, PairsStay
    <3>3. CASE cur.kind # "token"
      <4>1. UNCHANGED damage
        BY <1>20, <2>3, <3>3 DEF Admit
      <4>2. UNCHANGED <<barriers, drawn>>
        BY <4>1 DEF damage
      <4>3. QED
        BY <1>01, <3>1, <4>2, PairsStay
    <3>4. QED
      BY <3>2, <3>3
  <2>4. QED
    BY <2>2, <2>3
<1>21. CASE UNCHANGED vars
  <2>1. UNCHANGED <<chan, cur, op, at, barriers, drawn>>
    BY <1>21 DEF vars, damage
  <2>2. Stays
    BY <2>1 DEF Stays, Raised
  <2>3. QED
    BY <1>01, <2>1, <2>2, PairsStay
<1>22. "reader" \in Threads /\ "loop" \in Threads
  BY DEF Threads
<1>23. QED
  BY <1>3, <1>8, <1>9, <1>10, <1>11, <1>12, <1>13, <1>14, <1>15, <1>17, <1>18, <1>19, <1>20, <1>21,
     <1>22, Zenon DEF Next, Routes, Runtime, Retry

-----------------------------------------------------------------------------
(* The numbered messages.  Of one kind, the line of those the loop has yet  *)
(* to dispatch is five sets of numbers, one for each place.                 *)

Below(A, B) == \A a \in A : \A b \in B : a < b
Line(P, C, H, Q, O, N) ==
  /\ P \cup C \cup H \cup Q \cup O = N
  /\ Below(P, C) /\ Below(P, H) /\ Below(P, Q) /\ Below(P, O)
  /\ Below(C, H) /\ Below(C, Q) /\ Below(C, O)
  /\ Below(H, Q) /\ Below(H, O) /\ Below(Q, O)

(* A message goes one place on, past places that hold none of its kind. *)
LEMMA LineMoves ==
  ASSUME NEW P, NEW C, NEW H, NEW Q, NEW O, NEW X, NEW N
  PROVE  /\ Line(P, {}, {}, {}, O, N) => Line(P \cup O, {}, {}, {}, {}, N)
         /\ Line(P, C, H, {}, O, N) => Line(P, C, H \cup O, {}, {}, N)
         /\ Line(P, C, H, Q, O, N) => Line(P, C, H, Q \cup O, {}, N)
         /\ Line(P, C, H, X \cup Q, O, N) /\ Below(X, Q) => Line(P, C, H \cup X, Q, O, N)
         /\ Line(P, {}, X \cup H, Q, O, N) /\ Below(X, H) => Line(P, X, H, Q, O, N)
BY DEF Line, Below

(* The loop dispatches the first of the line, and nvim sends one more. *)
LEMMA LineFirst ==
  ASSUME NEW P, NEW C, NEW H, NEW Q, NEW O, NEW lo \in Nat, NEW hi \in Nat,
         Line(P, C, H, Q, O, lo + 1 .. hi), NEW m \in P \cup C, \A a \in P \cup C : a <= m
  PROVE  Line({}, {}, H, Q, O, m + 1 .. hi) /\ m <= hi
<1>1. P \cup C \cup H \cup Q \cup O = lo + 1 .. hi
  BY DEF Line
<1>2. m \in Nat /\ m >= lo + 1 /\ m <= hi
  BY <1>1
<1>3. \A b \in H \cup Q \cup O : m < b
  BY DEF Line, Below
<1>4. H \cup Q \cup O = m + 1 .. hi
  <2>1. ASSUME NEW b \in H \cup Q \cup O PROVE b \in m + 1 .. hi
    BY <1>1, <1>2, <1>3
  <2>2. ASSUME NEW b \in m + 1 .. hi PROVE b \in H \cup Q \cup O
    <3>1. b \in lo + 1 .. hi /\ ~(b <= m)
      BY <1>2
    <3>2. b \notin P \cup C
      BY <3>1
    <3>3. QED
      BY <1>1, <3>1, <3>2
  <2>3. QED
    BY <2>1, <2>2
<1>5. QED
  BY <1>2, <1>4 DEF Line, Below

LEMMA LineLast ==
  ASSUME NEW P, NEW C, NEW H, NEW Q, NEW lo \in Nat, NEW hi \in Nat, lo <= hi,
         Line(P, C, H, Q, {}, lo + 1 .. hi)
  PROVE  Line(P, C, H, Q, {hi + 1}, lo + 1 .. hi + 1)
<1>1. P \cup C \cup H \cup Q = lo + 1 .. hi
  BY DEF Line
<1>2. \A a \in P \cup C \cup H \cup Q : a < hi + 1
  BY <1>1
<1>3. P \cup C \cup H \cup Q \cup {hi + 1} = lo + 1 .. hi + 1
  BY <1>1
<1>4. QED
  BY <1>2, <1>3 DEF Line, Below

(* What a sequence holds of a kind. *)
Part(kind, m) == IF m.kind = kind THEN {m.nr} ELSE {}

(* Numbers over the sequences the steps make. *)
LEMMA NumbersOne ==
  ASSUME NEW kind, NEW m
  PROVE  Numbers(kind, <<m>>) = Part(kind, m) /\ InOrder(kind, <<m>>)
BY DEF Numbers, At, Part, InOrder

LEMMA NumbersNone ==
  ASSUME NEW kind
  PROVE  Numbers(kind, <<>>) = {} /\ InOrder(kind, <<>>)
BY DEF Numbers, At, InOrder

LEMMA NumbersAppend ==
  ASSUME NEW kind, NEW s \in Seq(Msg), NEW m \in Msg, NEW t, t = Append(s, m)
  PROVE  /\ Numbers(kind, t) = Numbers(kind, s) \cup Part(kind, m)
         /\ InOrder(kind, s) /\ Below(Numbers(kind, s), Part(kind, m)) => InOrder(kind, t)
<1>1. PICK n \in Nat : n = Len(s)
  OBVIOUS
<1>2. Len(t) = n + 1 /\ t[n + 1] = m /\ \A i \in 1 .. n : t[i] = s[i]
  BY <1>1, AppendSeq
<1>3. \A i : i \in At(kind, t) <=> i \in At(kind, s) \/ (i = n + 1 /\ m.kind = kind)
  <2>1. \A i : i \in 1 .. n + 1 <=> i \in 1 .. n \/ i = n + 1
    OBVIOUS
  <2>2. QED
    BY <1>1, <1>2, <2>1 DEF At
<1>4. \A i \in At(kind, s) : i \in 1 .. n /\ t[i] = s[i]
  BY <1>1, <1>2 DEF At
<1>5. Numbers(kind, t) = Numbers(kind, s) \cup Part(kind, m)
  BY <1>2, <1>3, <1>4 DEF Numbers, Part
<1>6. ASSUME InOrder(kind, s), Below(Numbers(kind, s), Part(kind, m)),
             NEW i \in At(kind, t), NEW j \in At(kind, t), i < j
      PROVE  t[i].nr < t[j].nr
  <2>1. i \in At(kind, s)
    BY <1>3, <1>4, <1>6
  <2>2. CASE j \in At(kind, s)
    BY <1>4, <1>6, <2>1, <2>2 DEF InOrder
  <2>3. CASE j = n + 1 /\ m.kind = kind
    <3>1. s[i].nr \in Numbers(kind, s) /\ m.nr \in Part(kind, m)
      BY <2>1, <2>3 DEF Numbers, Part
    <3>2. s[i].nr < m.nr
      BY <1>6, <3>1 DEF Below
    <3>3. QED
      BY <1>2, <1>4, <2>1, <2>3, <3>2
  <2>4. QED
    BY <1>3, <2>2, <2>3
<1>7. QED
  BY <1>5, <1>6 DEF InOrder

LEMMA NumbersTail ==
  ASSUME NEW kind, NEW s \in Seq(Msg), s # <<>>, InOrder(kind, s)
  PROVE  /\ Numbers(kind, s) = Part(kind, Head(s)) \cup Numbers(kind, Tail(s))
         /\ InOrder(kind, Tail(s))
         /\ Below(Part(kind, Head(s)), Numbers(kind, Tail(s)))
<1>1. PICK n \in Nat : n + 1 = Len(s)
  <2>1. Len(s) \in Nat /\ Len(s) >= 1
    BY TailSeq
  <2>2. Len(s) - 1 \in Nat /\ (Len(s) - 1) + 1 = Len(s)
    BY <2>1
  <2>3. QED
    BY <2>2, Zenon
<1>2. PICK t : t = Tail(s)
  OBVIOUS
<1>3. Head(s) = s[1] /\ Len(t) = n /\ \A i \in 1 .. n : t[i] = s[i + 1]
  BY <1>1, <1>2, TailSeq
<1>4. ASSUME NEW i \in At(kind, t)
      PROVE  i \in 1 .. n /\ i + 1 \in At(kind, s) /\ t[i] = s[i + 1] /\ 1 < i + 1
  <2>1. i \in 1 .. n /\ t[i].kind = kind
    BY <1>3 DEF At
  <2>2. i + 1 \in 1 .. n + 1 /\ t[i] = s[i + 1] /\ 1 < i + 1
    BY <1>3, <2>1
  <2>3. QED
    BY <1>1, <2>1, <2>2 DEF At
<1>5. ASSUME NEW i \in At(kind, s), i # 1
      PROVE  \E j \in At(kind, t) : j + 1 = i /\ t[j] = s[i]
  <2>1. i \in 1 .. n + 1 /\ s[i].kind = kind
    BY <1>1 DEF At
  <2>2. PICK j \in 1 .. n : j + 1 = i
    <3>1. i - 1 \in 1 .. n /\ (i - 1) + 1 = i
      BY <1>5, <2>1
    <3>2. QED
      BY <3>1, Zenon
  <2>3. t[j] = s[i]
    BY <1>3, <2>2
  <2>4. QED
    BY <1>3, <2>1, <2>2, <2>3 DEF At
<1>6. 1 \in At(kind, s) <=> Head(s).kind = kind
  BY <1>1, <1>3 DEF At
<1>7. Numbers(kind, s) = Part(kind, Head(s)) \cup Numbers(kind, t)
  <2>1. ASSUME NEW a \in Numbers(kind, s) PROVE a \in Part(kind, Head(s)) \cup Numbers(kind, t)
    <3>1. PICK i \in At(kind, s) : a = s[i].nr
      BY DEF Numbers
    <3>2. CASE i = 1
      BY <1>3, <1>6, <3>1, <3>2 DEF Part
    <3>3. CASE i # 1
      BY <1>5, <3>1, <3>3 DEF Numbers
    <3>4. QED
      BY <3>2, <3>3
  <2>2. ASSUME NEW a \in Part(kind, Head(s)) \cup Numbers(kind, t) PROVE a \in Numbers(kind, s)
    <3>1. CASE a \in Part(kind, Head(s))
      BY <1>3, <1>6, <3>1 DEF Part, Numbers
    <3>2. CASE a \in Numbers(kind, t)
      <4>1. PICK i \in At(kind, t) : a = t[i].nr
        BY <3>2 DEF Numbers
      <4>2. i + 1 \in At(kind, s) /\ a = s[i + 1].nr
        BY <1>4, <4>1
      <4>3. QED
        BY <4>2, Zenon DEF Numbers
    <3>3. QED
      BY <2>2, <3>1, <3>2
  <2>3. QED
    BY <2>1, <2>2
<1>8. ASSUME NEW i \in At(kind, t), NEW j \in At(kind, t), i < j
      PROVE  t[i].nr < t[j].nr
  <2>1. i + 1 \in At(kind, s) /\ j + 1 \in At(kind, s) /\ i + 1 < j + 1
        /\ t[i] = s[i + 1] /\ t[j] = s[j + 1]
    BY <1>4, <1>8
  <2>2. s[i + 1].nr < s[j + 1].nr
    BY <2>1 DEF InOrder
  <2>3. QED
    BY <2>1, <2>2
<1>9. ASSUME NEW a \in Part(kind, Head(s)), NEW b \in Numbers(kind, t)
      PROVE  a < b
  <2>1. 1 \in At(kind, s) /\ a = s[1].nr
    BY <1>3, <1>6 DEF Part
  <2>2. PICK j \in At(kind, t) : b = t[j].nr
    BY DEF Numbers
  <2>3. j + 1 \in At(kind, s) /\ 1 < j + 1 /\ b = s[j + 1].nr
    BY <1>4, <2>2
  <2>4. s[1].nr < s[j + 1].nr
    BY <2>1, <2>3 DEF InOrder
  <2>5. QED
    BY <2>1, <2>3, <2>4
<1>10. QED
  BY <1>2, <1>7, <1>8, <1>9 DEF InOrder, Below

(* The property, place by place. *)
Five(kind, places, N) ==
  /\ UNION {Numbers(kind, places[p]) : p \in 1 .. 5} = N
  /\ \A p \in 1 .. 5 : InOrder(kind, places[p])
  /\ \A p, q \in 1 .. 5 : p < q =>
       \A a \in Numbers(kind, places[p]), b \in Numbers(kind, places[q]) : a < b

LEMMA FiveInOrder ==
  ASSUME NEW kind, NEW s1, NEW s2, NEW s3, NEW s4, NEW s5, NEW N,
         NEW places, places = <<s1, s2, s3, s4, s5>>
  PROVE  Five(kind, places, N)
         <=>
         ( /\ Line(Numbers(kind, s1), Numbers(kind, s2), Numbers(kind, s3), Numbers(kind, s4),
                   Numbers(kind, s5), N)
           /\ InOrder(kind, s1) /\ InOrder(kind, s2) /\ InOrder(kind, s3) /\ InOrder(kind, s4)
           /\ InOrder(kind, s5) )
<1>1. places[1] = s1 /\ places[2] = s2 /\ places[3] = s3 /\ places[4] = s4 /\ places[5] = s5
  OBVIOUS
<1>2. \A p : p \in 1 .. 5 <=> p = 1 \/ p = 2 \/ p = 3 \/ p = 4 \/ p = 5
  OBVIOUS
<1>3. UNION {Numbers(kind, places[p]) : p \in 1 .. 5}
        = Numbers(kind, s1) \cup Numbers(kind, s2) \cup Numbers(kind, s3) \cup Numbers(kind, s4)
            \cup Numbers(kind, s5)
  <2>1. \A x : x \in UNION {Numbers(kind, places[p]) : p \in 1 .. 5}
                 <=> \E p \in 1 .. 5 : x \in Numbers(kind, places[p])
    OBVIOUS
  <2>2. QED
    BY <1>1, <1>2, <2>1
<1>4. (\A p \in 1 .. 5 : InOrder(kind, places[p])) <=>
      InOrder(kind, s1) /\ InOrder(kind, s2) /\ InOrder(kind, s3) /\ InOrder(kind, s4)
        /\ InOrder(kind, s5)
  BY <1>1, <1>2
<1>5. (\A p, q \in 1 .. 5 : p < q => Below(Numbers(kind, places[p]), Numbers(kind, places[q]))) <=>
      /\ Below(Numbers(kind, s1), Numbers(kind, s2)) /\ Below(Numbers(kind, s1), Numbers(kind, s3))
      /\ Below(Numbers(kind, s1), Numbers(kind, s4)) /\ Below(Numbers(kind, s1), Numbers(kind, s5))
      /\ Below(Numbers(kind, s2), Numbers(kind, s3)) /\ Below(Numbers(kind, s2), Numbers(kind, s4))
      /\ Below(Numbers(kind, s2), Numbers(kind, s5)) /\ Below(Numbers(kind, s3), Numbers(kind, s4))
      /\ Below(Numbers(kind, s3), Numbers(kind, s5)) /\ Below(Numbers(kind, s4), Numbers(kind, s5))
  BY <1>1, <1>2
<1>6. (\A p, q \in 1 .. 5 : p < q => Below(Numbers(kind, places[p]), Numbers(kind, places[q]))) <=>
      (\A p, q \in 1 .. 5 : p < q =>
                \A a \in Numbers(kind, places[p]), b \in Numbers(kind, places[q]) : a < b)
  BY Zenon DEF Below
<1>7. QED
  BY <1>3, <1>4, <1>5, <1>6 DEF Line, Five

Waiting(kind) == IF kind = "queued" THEN queued ELSE <<>>
Lined(kind) ==
  /\ Line(Numbers(kind, presink), Part(kind, cur), Numbers(kind, chan), Numbers(kind, Waiting(kind)),
          Part(kind, op), got[kind] + 1 .. sent[kind])
  /\ InOrder(kind, presink) /\ InOrder(kind, chan) /\ InOrder(kind, Waiting(kind))

(* The property over the five places is the line of five sets. *)
LEMMA FollowsOnIs ==
  ASSUME NEW kind
  PROVE  /\ FollowsOn(kind) <=> Lined(kind)
         /\ FollowsOn(kind)' <=> Lined(kind)'
<1>1. FollowsOn(kind) <=> Lined(kind)
  <2>1. PICK places : places = Places(kind)
    OBVIOUS
  <2>2. places = <<presink, <<cur>>, chan, Waiting(kind), <<op>>>>
    BY <2>1 DEF Places, Waiting
  <2>3. FollowsOn(kind) <=> Five(kind, places, got[kind] + 1 .. sent[kind])
    BY <2>1, Zenon DEF FollowsOn, Five
  <2>4. FollowsOn(kind) <=>
          ( /\ Line(Numbers(kind, presink), Numbers(kind, <<cur>>), Numbers(kind, chan),
                    Numbers(kind, Waiting(kind)), Numbers(kind, <<op>>),
                    got[kind] + 1 .. sent[kind])
            /\ InOrder(kind, presink) /\ InOrder(kind, <<cur>>) /\ InOrder(kind, chan)
            /\ InOrder(kind, Waiting(kind)) /\ InOrder(kind, <<op>>) )
    BY <2>2, <2>3, FiveInOrder
  <2>5. QED
    BY <2>4, NumbersOne, Zenon DEF Lined
<1>2. FollowsOn(kind)' <=> Lined(kind)'
  <2>1. PICK places : places = Places(kind)'
    OBVIOUS
  <2>2. places = <<presink', <<cur'>>, chan', Waiting(kind)', <<op'>>>>
    BY <2>1 DEF Places, Waiting
  <2>3. FollowsOn(kind)' <=> Five(kind, places, got'[kind] + 1 .. sent'[kind])
    BY <2>1, Zenon DEF FollowsOn, Five
  <2>4. FollowsOn(kind)' <=>
          ( /\ Line(Numbers(kind, presink'), Numbers(kind, <<cur'>>), Numbers(kind, chan'),
                    Numbers(kind, Waiting(kind)'), Numbers(kind, <<op'>>),
                    got'[kind] + 1 .. sent'[kind])
            /\ InOrder(kind, presink') /\ InOrder(kind, <<cur'>>) /\ InOrder(kind, chan')
            /\ InOrder(kind, Waiting(kind)') /\ InOrder(kind, <<op'>>) )
    BY <2>2, <2>3, FiveInOrder
  <2>5. QED
    BY <2>4, NumbersOne, Zenon DEF Lined
<1>3. QED
  BY <1>1, <1>2

(* None of the kind moves. *)
LEMMA LinedStays ==
  ASSUME NEW kind, Lined(kind), UNCHANGED <<presink, chan, queued>>,
         Part(kind, cur)' = Part(kind, cur), Part(kind, op)' = Part(kind, op),
         got'[kind] = got[kind], sent'[kind] = sent[kind]
  PROVE  Lined(kind)'
<1>1. Waiting(kind)' = Waiting(kind)
  BY DEF Waiting
<1>2. QED
  BY <1>1 DEF Lined

(* A message of another kind enters the channel. *)
LEMMA LinedPasses ==
  ASSUME NEW kind, Lined(kind), TypeOK, NEW m \in Msg, m.kind # kind, Enters(m), presink' = presink,
         Waiting(kind)' = Waiting(kind),
         Part(kind, cur)' = Part(kind, cur), Part(kind, op)' = Part(kind, op),
         got'[kind] = got[kind], sent'[kind] = sent[kind]
  PROVE  Lined(kind)'
<1>1. chan \in Seq(Msg) /\ chan' = Append(chan, m) /\ Part(kind, m) = {}
  BY DEF TypeOK, RouteOK, Enters, Part
<1>2. Numbers(kind, chan') = Numbers(kind, chan) \cup {} /\ InOrder(kind, chan')
  BY <1>1, NumbersAppend DEF Lined, Below
<1>3. QED
  BY <1>2 DEF Lined

(* Ahead of what waits there, the message the reader routes enters it. *)
LEMMA LinedSent ==
  ASSUME NEW kind, Lined(kind), TypeOK, op \in Msg, Enters(op), op'.kind = "none", kind # "none",
         Waiting(kind) = <<>>, Waiting(kind)' = <<>>, UNCHANGED <<presink, cur>>,
         got'[kind] = got[kind], sent'[kind] = sent[kind]
  PROVE  Lined(kind)'
<1>1. chan \in Seq(Msg) /\ chan' = Append(chan, op) /\ Part(kind, op') = {}
  BY DEF TypeOK, RouteOK, Enters, Part
<1>2. Numbers(kind, <<>>) = {}
  BY NumbersNone
<1>3. Line(Numbers(kind, presink), Part(kind, cur), Numbers(kind, chan), {}, Part(kind, op),
           got[kind] + 1 .. sent[kind])
  BY <1>2 DEF Lined
<1>4. Line(Numbers(kind, presink), Part(kind, cur), Numbers(kind, chan) \cup Part(kind, op), {}, {},
           got[kind] + 1 .. sent[kind])
  BY <1>3, LineMoves
<1>5. Below(Numbers(kind, chan), Part(kind, op))
  BY <1>3 DEF Line
<1>6. Numbers(kind, chan') = Numbers(kind, chan) \cup Part(kind, op) /\ InOrder(kind, chan')
  BY <1>1, <1>5, NumbersAppend DEF Lined
<1>7. QED
  BY <1>1, <1>2, <1>4, <1>6 DEF Lined

(* Or waits behind it. *)
LEMMA LinedParked ==
  ASSUME Lined("queued"), TypeOK, op \in Msg, queued' = Append(queued, op), op'.kind = "none",
         UNCHANGED <<presink, cur, chan>>, UNCHANGED <<got, sent>>
  PROVE  Lined("queued")'
<1>1. queued \in Seq(Msg) /\ Part("queued", op') = {}
  BY DEF TypeOK, RouteOK, Part
<1>2. Waiting("queued") = queued /\ Waiting("queued")' = queued'
  BY DEF Waiting
<1>3. Line(Numbers("queued", presink), Part("queued", cur), Numbers("queued", chan),
           Numbers("queued", queued), Part("queued", op), got["queued"] + 1 .. sent["queued"])
  BY <1>2 DEF Lined
<1>4. Line(Numbers("queued", presink), Part("queued", cur), Numbers("queued", chan),
           Numbers("queued", queued) \cup Part("queued", op), {}, got["queued"] + 1 .. sent["queued"])
  BY <1>3, LineMoves
<1>5. Below(Numbers("queued", queued), Part("queued", op))
  BY <1>3 DEF Line
<1>6. /\ Numbers("queued", queued') = Numbers("queued", queued) \cup Part("queued", op)
      /\ InOrder("queued", queued')
  BY <1>1, <1>2, <1>5, NumbersAppend DEF Lined
<1>7. QED
  BY <1>1, <1>2, <1>4, <1>6 DEF Lined

(* The first of the queue enters the channel. *)
LEMMA LinedRetried ==
  ASSUME Lined("queued"), TypeOK, queued # <<>>, Enters(Head(queued)), queued' = Tail(queued),
         UNCHANGED <<presink, cur, op>>, UNCHANGED <<got, sent>>
  PROVE  Lined("queued")'
<1>1. queued \in Seq(Msg) /\ chan \in Seq(Msg) /\ chan' = Append(chan, Head(queued))
  BY DEF TypeOK, RouteOK, Enters
<1>2. Waiting("queued") = queued /\ Waiting("queued")' = queued'
  BY DEF Waiting
<1>3. PICK m \in Msg : m = Head(queued)
  BY <1>1, TailSeq
<1>4. /\ Numbers("queued", queued) = Part("queued", m) \cup Numbers("queued", queued')
      /\ InOrder("queued", queued') /\ Below(Part("queued", m), Numbers("queued", queued'))
  BY <1>1, <1>2, <1>3, NumbersTail DEF Lined
<1>5. Line(Numbers("queued", presink), Part("queued", cur), Numbers("queued", chan),
           Part("queued", m) \cup Numbers("queued", queued'), Part("queued", op),
           got["queued"] + 1 .. sent["queued"])
  BY <1>2, <1>4 DEF Lined
<1>6. Line(Numbers("queued", presink), Part("queued", cur), Numbers("queued", chan) \cup Part("queued", m),
           Numbers("queued", queued'), Part("queued", op), got["queued"] + 1 .. sent["queued"])
  BY <1>4, <1>5, LineMoves
<1>7. Below(Numbers("queued", chan), Part("queued", m))
  BY <1>5 DEF Line, Below
<1>8. /\ Numbers("queued", chan') = Numbers("queued", chan) \cup Part("queued", m)
      /\ InOrder("queued", chan')
  BY <1>1, <1>3, <1>7, NumbersAppend DEF Lined
<1>9. QED
  BY <1>2, <1>4, <1>6, <1>8 DEF Lined

(* Before there is a sink, what the reader routes goes to the FIFO. *)
LEMMA LinedHeldBack ==
  ASSUME NEW kind \in Numbered, Lined(kind), TypeOK, op \in Msg, presink' = Append(presink, op),
         op' = Null, cur = Null, chan = <<>>, queued = <<>>,
         UNCHANGED <<chan, queued, cur>>, UNCHANGED <<got, sent>>
  PROVE  Lined(kind)'
<1>1. presink \in Seq(Msg) /\ Part(kind, Null) = {}
  BY DEF TypeOK, RouteOK, Part, Null, Numbered
<1>2. Numbers(kind, chan) = {} /\ Numbers(kind, Waiting(kind)) = {} /\ Part(kind, cur) = {}
      /\ Waiting(kind)' = Waiting(kind)
  BY <1>1, NumbersNone DEF Waiting
<1>3. Line(Numbers(kind, presink), {}, {}, {}, Part(kind, op), got[kind] + 1 .. sent[kind])
  BY <1>2 DEF Lined
<1>4. Line(Numbers(kind, presink) \cup Part(kind, op), {}, {}, {}, {}, got[kind] + 1 .. sent[kind])
  BY <1>3, LineMoves
<1>5. Below(Numbers(kind, presink), Part(kind, op))
  BY <1>3 DEF Line
<1>6. Numbers(kind, presink') = Numbers(kind, presink) \cup Part(kind, op) /\ InOrder(kind, presink')
  BY <1>1, <1>5, NumbersAppend DEF Lined
<1>7. QED
  BY <1>1, <1>2, <1>4, <1>6 DEF Lined

(* The loop receives the first of the channel. *)
LEMMA LinedReceived ==
  ASSUME NEW kind \in Numbered, Lined(kind), TypeOK, cur = Null, chan # <<>>, cur' = Head(chan),
         chan' = Tail(chan), UNCHANGED <<presink, queued, op>>, UNCHANGED <<got, sent>>
  PROVE  Lined(kind)'
<1>1. chan \in Seq(Msg) /\ Part(kind, cur) = {}
  BY DEF TypeOK, RouteOK, Part, Null, Numbered
<1>2. /\ Numbers(kind, chan) = Part(kind, cur') \cup Numbers(kind, chan')
      /\ InOrder(kind, chan') /\ Below(Part(kind, cur'), Numbers(kind, chan'))
  BY <1>1, NumbersTail DEF Lined
<1>3. Line(Numbers(kind, presink), {}, Part(kind, cur') \cup Numbers(kind, chan'),
           Numbers(kind, Waiting(kind)), Part(kind, op), got[kind] + 1 .. sent[kind])
  BY <1>1, <1>2 DEF Lined
<1>4. Line(Numbers(kind, presink), Part(kind, cur'), Numbers(kind, chan'),
           Numbers(kind, Waiting(kind)), Part(kind, op), got[kind] + 1 .. sent[kind])
  BY <1>2, <1>3, LineMoves
<1>5. Waiting(kind)' = Waiting(kind)
  BY DEF Waiting
<1>6. QED
  BY <1>2, <1>4, <1>5 DEF Lined

(* What a dispatch leaves as the last number. *)
LEMMA AfterIs ==
  ASSUME NEW kind \in Numbered, NEW s, Len(s) \in Nat, InOrder(kind, s),
         \A i \in 1 .. Len(s) : s[i].nr \in Nat
  PROVE  /\ Numbers(kind, s) = {} => After(s)[kind] = got[kind]
         /\ Numbers(kind, s) # {} => /\ After(s)[kind] \in Numbers(kind, s)
                                     /\ \A a \in Numbers(kind, s) : a <= After(s)[kind]
<1>1. CASE At(kind, s) = {}
  BY <1>1 DEF After, Numbers
<1>2. CASE At(kind, s) # {}
  <2>1. /\ Last(kind, s) \in At(kind, s) /\ \A j \in At(kind, s) : j <= Last(kind, s)
    BY <1>2, LastOf
  <2>2. After(s)[kind] = s[Last(kind, s)].nr
    BY <1>2 DEF After
  <2>3. PICK l \in At(kind, s) : l = Last(kind, s)
    BY <2>1
  <2>4. \A j \in At(kind, s) : j \in 1 .. Len(s) /\ s[j].nr \in Nat
    BY DEF At
  <2>5. ASSUME NEW j \in At(kind, s) PROVE s[j].nr <= s[l].nr
    <3>1. j \in Nat /\ l \in Nat /\ j <= l /\ s[j].nr \in Nat /\ s[l].nr \in Nat
      BY <2>1, <2>3, <2>4
    <3>2. CASE j < l
      <4>1. s[j].nr < s[l].nr
        BY <3>2 DEF InOrder
      <4>2. QED
        BY <3>1, <4>1
    <3>3. CASE j = l
      BY <3>1, <3>3
    <3>4. QED
      BY <3>1, <3>2, <3>3
  <2>6. QED
    BY <2>2, <2>3, <2>5 DEF Numbers
<1>3. QED
  BY <1>1, <1>2

(* The loop dispatches what it holds, alone in the line's first place. *)
LEMMA LinedDispatched ==
  ASSUME NEW kind \in Numbered, Lined(kind), TypeOK, got[kind] <= sent[kind],
         NEW s, (s = presink /\ cur = Null) \/ (s = <<cur>> /\ presink = <<>> /\ cur # Null),
         got' = After(s), presink' = <<>>, cur' = Null, UNCHANGED <<chan, queued, op, sent>>
  PROVE  Lined(kind)' /\ got'[kind] <= sent'[kind]
<1>0. got[kind] \in Nat /\ sent[kind] \in Nat
  BY BoundsAreNat DEF TypeOK, CountsOK
<1>1. Part(kind, Null) = {} /\ Numbers(kind, <<>>) = {} /\ InOrder(kind, <<>>)
  BY NumbersNone DEF Part, Null, Numbered
<1>2. Numbers(kind, presink) \cup Part(kind, cur) = Numbers(kind, s) /\ InOrder(kind, s)
  <2>1. CASE s = presink /\ cur = Null
    BY <1>1, <2>1 DEF Lined
  <2>2. CASE s = <<cur>> /\ presink = <<>> /\ cur # Null
    BY <1>1, <2>2, NumbersOne
  <2>3. QED
    BY <2>1, <2>2
<1>3. Len(s) \in Nat /\ \A i \in 1 .. Len(s) : s[i].nr \in Nat
  <2>1. presink \in Seq(Msg) /\ cur \in Msg \cup {Null}
    BY DEF TypeOK, RouteOK
  <2>2. CASE s = presink
    BY <2>1, <2>2, MsgFacts
  <2>3. CASE s = <<cur>> /\ cur # Null
    BY <2>1, <2>3, MsgFacts
  <2>4. QED
    BY <2>2, <2>3
<1>4. Waiting(kind)' = Waiting(kind)
  BY DEF Waiting
<1>5. Line(Numbers(kind, presink), Part(kind, cur), Numbers(kind, chan), Numbers(kind, Waiting(kind)),
           Part(kind, op), got[kind] + 1 .. sent[kind])
  BY DEF Lined
<1>6. CASE Numbers(kind, s) = {}
  <2>1. got'[kind] = got[kind]
    BY <1>2, <1>3, <1>6, AfterIs
  <2>2. Numbers(kind, presink) = {} /\ Part(kind, cur) = {}
    BY <1>2, <1>6
  <2>3. QED
    BY <1>0, <1>1, <1>4, <1>5, <2>1, <2>2 DEF Lined
<1>7. CASE Numbers(kind, s) # {}
  <2>1. PICK m \in Numbers(kind, s) : m = got'[kind] /\ \A a \in Numbers(kind, s) : a <= m
    BY <1>2, <1>3, <1>7, AfterIs
  <2>2. Line({}, {}, Numbers(kind, chan), Numbers(kind, Waiting(kind)), Part(kind, op),
             m + 1 .. sent[kind])
        /\ m <= sent[kind]
    BY <1>0, <1>2, <1>5, <2>1, LineFirst
  <2>3. QED
    BY <1>1, <1>4, <2>1, <2>2 DEF Lined
<1>8. QED
  BY <1>6, <1>7

(* Nvim sends one more. *)
LEMMA LinedAnswered ==
  ASSUME NEW kind \in Numbered, Lined(kind), TypeOK, got[kind] <= sent[kind], op = Null,
         op' = [kind |-> kind, nr |-> sent[kind] + 1], sent' = [sent EXCEPT ![kind] = @ + 1],
         UNCHANGED <<presink, chan, queued, cur, got>>
  PROVE  Lined(kind)' /\ got'[kind] <= sent'[kind]
<1>0. got[kind] \in Nat /\ sent[kind] \in Nat /\ sent'[kind] = sent[kind] + 1
  BY BoundsAreNat DEF TypeOK, CountsOK
<1>1. Part(kind, op) = {} /\ Part(kind, op') = {sent[kind] + 1}
  BY DEF Part, Null, Numbered
<1>2. Line(Numbers(kind, presink), Part(kind, cur), Numbers(kind, chan), Numbers(kind, Waiting(kind)),
           {}, got[kind] + 1 .. sent[kind])
  BY <1>1 DEF Lined
<1>3. Line(Numbers(kind, presink), Part(kind, cur), Numbers(kind, chan), Numbers(kind, Waiting(kind)),
           {sent[kind] + 1}, got[kind] + 1 .. sent[kind] + 1)
  BY <1>0, <1>2, LineLast
<1>4. Waiting(kind)' = Waiting(kind)
  BY DEF Waiting
<1>5. Lined(kind)'
  BY <1>0, <1>1, <1>3, <1>4 DEF Lined
<1>6. got'[kind] <= sent'[kind]
  BY <1>0
<1>7. QED
  BY <1>5, <1>6

Streams(kind) == Lined(kind) /\ got[kind] <= sent[kind]

(* Each step takes the numbered messages one place on, or leaves them: but  *)
(* for a request the channel refuses.                                       *)
LEMMA NextStreams ==
  ASSUME TypeOK, LockOwned, HandsOK, SlotsOK, NEW kind \in {"queued", "request"}, Streams(kind),
         [Next]_vars, ~(kind = "request" /\ SendRequest /\ ~HasRoom)
  PROVE  Streams(kind)'
<1>0. /\ Lined(kind) /\ got[kind] <= sent[kind] /\ RouteOK /\ kind \in Numbered /\ kind # "none"
      /\ Null.kind = "none" /\ Null.kind # kind
      /\ at["reader"] \in Busy => op \in Msg
      /\ \A m : m.kind # kind => Part(kind, m) = {}
  BY MsgFacts DEF Streams, TypeOK, RouteOK, HandsOK, Numbered, Part
<1>1. ASSUME UNCHANGED <<presink, chan, queued, got, sent>>,
             cur' = cur, op' = op \/ (op.kind # kind /\ op'.kind # kind)
      PROVE  Streams(kind)'
  BY <1>0, <1>1, LinedStays DEF Streams
<1>2. ASSUME UNCHANGED <<presink, queued, cur, got, sent>>, op' = op \/ (op.kind # kind /\ op'.kind # kind),
             NEW m \in Msg, m.kind # kind, Enters(m)
      PROVE  Streams(kind)'
  <2>1. Waiting(kind)' = Waiting(kind) /\ Part(kind, op)' = Part(kind, op)
    BY <1>0, <1>2 DEF Waiting
  <2>2. Part(kind, cur)' = Part(kind, cur)
    BY <1>2
  <2>3. Lined(kind)'
    BY <1>0, <1>2, <2>1, <2>2, LinedPasses
  <2>4. QED
    BY <1>0, <1>2, <2>3 DEF Streams
<1>3. ASSUME NEW t \in Threads, Acquire(t) PROVE Streams(kind)'
  BY <1>1, <1>3 DEF Acquire, route, slots, history
<1>4. ASSUME NEW t \in Threads, RetryBeat(t) \/ RetryRows(t) PROVE Streams(kind)'
  <2>1. UNCHANGED <<presink, queued, cur, op, got, sent>>
    BY <1>4 DEF RetryBeat, RetryRows, history
  <2>2. chan' = chan \/ (beatSlot \in Msg /\ beatSlot.kind # kind /\ Enters(beatSlot))
                     \/ (rowsSlot \in Msg /\ rowsSlot.kind # kind /\ Enters(rowsSlot))
    <3>1. CASE RetryBeat(t)
      BY <1>0, <3>1 DEF RetryBeat, Enters, SlotsOK, RouteOK
    <3>2. CASE RetryRows(t)
      BY <1>0, <3>2 DEF RetryRows, Enters, SlotsOK, RouteOK
    <3>3. QED
      BY <1>4, <3>1, <3>2
  <2>3. CASE chan' = chan
    BY <1>1, <2>1, <2>3
  <2>4. CASE chan' # chan
    BY <1>2, <2>1, <2>2, <2>4
  <2>5. QED
    BY <2>3, <2>4
<1>5. ASSUME NEW t, RetryQueued(t) PROVE Streams(kind)'
  <2>1. /\ queued # <<>> /\ Enters(Head(queued)) /\ queued' = Tail(queued)
        /\ UNCHANGED <<presink, cur, op, got, sent>>
    BY <1>5 DEF RetryQueued, Enters, history
  <2>2. CASE kind = "queued"
    BY <1>0, <2>1, <2>2, LinedRetried DEF Streams
  <2>3. CASE kind = "request"
    <3>1. Head(queued) \in Msg /\ Head(queued).kind = "queued"
      BY <1>0, <2>1, TailSeq DEF RouteOK, SlotsOK
    <3>2. Waiting(kind)' = Waiting(kind) /\ Part(kind, op)' = Part(kind, op)
      BY <2>1, <2>3 DEF Waiting
    <3>3. Part(kind, cur)' = Part(kind, cur) /\ Head(queued).kind # kind
      BY <2>1, <2>3, <3>1
    <3>4. Lined(kind)'
      BY <1>0, <2>1, <3>1, <3>2, <3>3, LinedPasses
    <3>5. QED
      BY <1>0, <2>1, <3>4 DEF Streams
  <2>4. QED
    BY <2>2, <2>3
<1>6. ASSUME Retried PROVE Streams(kind)'
  <2>1. UNCHANGED <<chan, queued, cur, got, sent>> /\ op \in Msg
    BY <1>0, <1>6 DEF Retried, HandOver, slots, history, Busy, Held
  <2>2. CASE attached
    BY <1>1, <1>6, <2>1, <2>2 DEF Retried, HandOver
  <2>3. CASE ~attached /\ op.kind = "token"
    <3>1. presink' = presink /\ op' = Null
      BY <1>6, <2>3 DEF Retried, HandOver, Idle
    <3>2. QED
      BY <1>0, <1>1, <2>1, <2>3, <3>1
  <2>4. CASE ~attached /\ op.kind # "token"
    <3>1. presink' = Append(presink, op) /\ op' = Null
      BY <1>6, <2>4 DEF Retried, HandOver, Idle
    <3>2. cur = Null /\ chan = <<>> /\ queued = <<>>
      BY <2>4 DEF HandsOK
    <3>3. Lined(kind)'
      BY <1>0, <2>1, <3>1, <3>2, LinedHeldBack
    <3>4. QED
      BY <1>0, <2>1, <3>3 DEF Streams
  <2>5. QED
    BY <2>2, <2>3, <2>4
<1>7. ASSUME SendToken \/ SendInvoke \/ SendHeld PROVE Streams(kind)'
  <2>1. op \in Msg /\ op.kind # kind /\ op' \in {op, Null} /\ (chan' = chan \/ Enters(op))
    BY <1>0, <1>7 DEF SendToken, SendInvoke, SendHeld, Sends, Sent, Idle, Enters, Busy
  <2>2. UNCHANGED <<presink, queued, cur, got, sent>>
    BY <1>7 DEF SendToken, SendInvoke, SendHeld, route, slots, history
  <2>3. op' = op \/ (op.kind # kind /\ op'.kind # kind)
    BY <1>0, <2>1
  <2>4. CASE chan' = chan
    BY <1>1, <2>2, <2>3, <2>4
  <2>5. CASE Enters(op)
    BY <1>2, <2>1, <2>2, <2>3, <2>5
  <2>6. QED
    BY <2>1, <2>4, <2>5
<1>8. ASSUME SendQueued PROVE Streams(kind)'
  <2>1. /\ op \in Msg /\ op.kind = "queued" /\ op' = Null
        /\ UNCHANGED <<presink, cur, got, sent>>
    BY <1>0, <1>8 DEF SendQueued, Sends, Sent, Idle, Busy, history
  <2>2. CASE HasRoom /\ queued = <<>>
    <3>1. Enters(op) /\ queued' = queued
      BY <1>8, <2>2 DEF SendQueued, Sent, Enters
    <3>2. Waiting(kind) = <<>> /\ Waiting(kind)' = <<>>
      BY <2>2, <3>1 DEF Waiting
    <3>3. Lined(kind)'
      BY <1>0, <2>1, <3>1, <3>2, LinedSent
    <3>4. QED
      BY <1>0, <2>1, <3>3 DEF Streams
  <2>3. CASE ~(HasRoom /\ queued = <<>>)
    <3>1. queued' = Append(queued, op) /\ chan' = chan
      BY <1>8, <2>3 DEF SendQueued
    <3>2. CASE kind = "queued"
      <4>1. Lined("queued")'
        BY <1>0, <2>1, <3>1, <3>2, LinedParked
      <4>2. QED
        BY <1>0, <2>1, <3>2, <4>1 DEF Streams
    <3>3. CASE kind = "request"
      <4>1. Waiting(kind)' = Waiting(kind)
        BY <3>3 DEF Waiting
      <4>2. Part(kind, op)' = Part(kind, op) /\ Part(kind, cur)' = Part(kind, cur)
        BY <1>0, <2>1, <3>3
      <4>3. Lined(kind)'
        BY <1>0, <2>1, <3>1, <4>1, <4>2 DEF Lined
      <4>4. QED
        BY <1>0, <2>1, <4>3 DEF Streams
    <3>4. QED
      BY <3>2, <3>3
  <2>4. QED
    BY <2>2, <2>3
<1>9. ASSUME SendRequest PROVE Streams(kind)'
  <2>1. /\ op \in Msg /\ op.kind = "request" /\ op' = Null
        /\ UNCHANGED <<presink, queued, cur, got, sent>>
    BY <1>0, <1>9 DEF SendRequest, Sends, Sent, Idle, Busy, history, route, slots
  <2>2. CASE kind = "queued"
    <3>1. chan' = chan \/ Enters(op)
      BY <1>9 DEF SendRequest, Sent, Enters
    <3>2. QED
      BY <1>0, <1>1, <1>2, <2>1, <2>2, <3>1
  <2>3. CASE kind = "request"
    <3>1. HasRoom /\ Enters(op)
      BY <1>9, <2>3 DEF SendRequest, Sent, Enters
    <3>2. Waiting(kind) = <<>> /\ Waiting(kind)' = <<>>
      BY <2>3 DEF Waiting
    <3>3. Lined(kind)'
      BY <1>0, <2>1, <3>1, <3>2, LinedSent
    <3>4. QED
      BY <1>0, <2>1, <3>3 DEF Streams
  <2>4. QED
    BY <2>2, <2>3
<1>10. ASSUME \/ Disarm \/ Raise \/ Lower \/ StreamEnds \/ ReadPending \/ DrainPending \/ Residue
              \/ RetriedParked \/ Key \/ Attach
       PROVE  Streams(kind)'
  <2>1. UNCHANGED <<presink, chan, queued, cur, got, sent>>
    BY <1>10 DEF Disarm, Raise, Lower, StreamEnds, ReadPending, DrainPending, Residue,
                 RetriedParked, Key,
                 Attach, route, slots, history
  <2>2. op' = op \/ (op.kind # kind /\ op'.kind # kind)
    <3>1. CASE Disarm \/ Lower
      BY <1>0, <3>1 DEF Disarm, Lower, Idle, HandsOK
    <3>2. CASE ~(Disarm \/ Lower)
      BY <1>10, <3>2 DEF Raise, StreamEnds, ReadPending, DrainPending, Residue, RetriedParked, Key,
                         Attach
    <3>3. QED
      BY <3>1, <3>2
  <2>3. QED
    BY <1>1, <2>1, <2>2
<1>11. ASSUME RouteStop \/ PostStop PROVE Streams(kind)'
  <2>1. UNCHANGED <<queued, cur, op, got, sent>>
    BY <1>11 DEF RouteStop, PostStop, route, slots, history
  <2>2. PICK m \in Msg : m = [kind |-> "stop", nr |-> 0]
    <3>1. [kind |-> "stop", nr |-> 0] \in Msg
      BY BoundsAreNat DEF Msg, Kinds
    <3>2. QED
      BY <3>1, Zenon
  <2>3. m.kind # kind
    BY <2>2
  <2>4. \/ UNCHANGED <<presink, chan>>
        \/ presink' = presink /\ Enters(m)
        \/ presink' = Append(presink, m) /\ chan' = chan
    BY <1>11, <2>2 DEF RouteStop, PostStop, route, Enters
  <2>5. CASE UNCHANGED <<presink, chan>>
    BY <1>1, <2>1, <2>5
  <2>6. CASE presink' = presink /\ Enters(m)
    BY <1>2, <2>1, <2>3, <2>6
  <2>7. CASE presink' = Append(presink, m) /\ chan' = chan
    <3>1. /\ Numbers(kind, presink') = Numbers(kind, presink) \cup {}
          /\ InOrder(kind, presink')
      <4>1. presink \in Seq(Msg) /\ Part(kind, m) = {} /\ InOrder(kind, presink)
            /\ Below(Numbers(kind, presink), {})
        BY <1>0, <2>3 DEF RouteOK, Lined, Below
      <4>2. InOrder(kind, presink')
        BY <2>7, <4>1, NumbersAppend
      <4>3. Numbers(kind, presink') = Numbers(kind, presink) \cup Part(kind, m)
        BY <2>7, <4>1, NumbersAppend
      <4>4. QED
        BY <4>1, <4>2, <4>3
    <3>2. Waiting(kind)' = Waiting(kind)
      BY <2>1 DEF Waiting
    <3>3. Lined(kind)'
      BY <1>0, <2>1, <2>7, <3>1, <3>2 DEF Lined
    <3>4. QED
      BY <1>0, <2>1, <3>3 DEF Streams
  <2>8. QED
    BY <2>4, <2>5, <2>6, <2>7
<1>12. ASSUME Nvim, \A k \in Numbered : ~Answer(k) PROVE Streams(kind)'
  <2>1. UNCHANGED <<presink, chan, queued, cur, got, sent>> /\ at["reader"] = "idle"
    BY <1>12 DEF Nvim, Fold, Invoke, Beat, LaterBeat, StreamEnds, route, slots, history
  <2>2. op = Null
    BY <2>1 DEF HandsOK, Busy, Held
  <2>3. op' = op \/ op'.kind \in {"token", "invoke", "beat"}
    BY <1>12 DEF Nvim, Fold, Invoke, Beat, LaterBeat, StreamEnds, Begin
  <2>4. QED
    BY <1>0, <1>1, <2>1, <2>2, <2>3
<1>13. ASSUME NEW k \in Numbered, Answer(k) PROVE Streams(kind)'
  <2>1. /\ UNCHANGED <<presink, chan, queued, cur, got>> /\ at["reader"] = "idle"
        /\ sent' = [sent EXCEPT ![k] = @ + 1] /\ op' = [kind |-> k, nr |-> sent[k] + 1]
    BY <1>13 DEF Answer, Begin, route, slots
  <2>2. op = Null
    BY <2>1 DEF HandsOK, Busy, Held
  <2>3. CASE k = kind
    <3>1. Lined(kind)' /\ got'[kind] <= sent'[kind]
      BY <1>0, <2>1, <2>2, <2>3, LinedAnswered
    <3>2. QED
      BY <3>1 DEF Streams
  <2>4. CASE k # kind
    <3>1. sent'[kind] = sent[kind]
      BY <1>0, <2>1, <2>4 DEF TypeOK, CountsOK
    <3>2. Part(kind, op)' = Part(kind, op) /\ Part(kind, cur)' = Part(kind, cur)
      BY <1>0, <2>1, <2>2, <2>4
    <3>3. Lined(kind)'
      BY <1>0, <2>1, <3>1, <3>2, LinedStays
    <3>4. QED
      BY <1>0, <2>1, <3>1, <3>3 DEF Streams
  <2>5. QED
    BY <2>3, <2>4
<1>14. ASSUME Cutover PROVE Streams(kind)'
  <2>1. /\ presink' = <<>> /\ got' = After(presink) /\ UNCHANGED <<chan, queued, op, sent, cur>>
        /\ cur = Null
    BY <1>14 DEF Cutover, slots, HandsOK
  <2>2. PICK s : s = presink
    OBVIOUS
  <2>3. /\ s = presink /\ cur = Null
        /\ got' = After(s) /\ presink' = <<>> /\ cur' = Null
        /\ UNCHANGED <<chan, queued, op, sent>>
    BY <2>1, <2>2
  <2>4. Lined(kind)' /\ got'[kind] <= sent'[kind]
    BY <1>0, <2>3, LinedDispatched
  <2>5. QED
    BY <2>4 DEF Streams
<1>15. ASSUME Receive PROVE Streams(kind)'
  <2>1. /\ chan # <<>> /\ cur' = Head(chan) /\ chan' = Tail(chan)
        /\ UNCHANGED <<presink, queued, op, got, sent>> /\ cur = Null
    BY <1>15 DEF Receive, route, slots, history, HandsOK
  <2>2. Lined(kind)'
    BY <1>0, <2>1, LinedReceived
  <2>3. QED
    BY <1>0, <2>1, <2>2 DEF Streams
<1>16. ASSUME Admit PROVE Streams(kind)'
  <2>1. /\ got' = After(<<cur>>) /\ cur' = Null /\ UNCHANGED <<presink, chan, queued, op, sent>>
        /\ at["loop"] = "received"
    BY <1>16 DEF Admit, route, slots
  <2>2. presink = <<>> /\ cur # Null
    BY <2>1 DEF HandsOK
  <2>3. Lined(kind)' /\ got'[kind] <= sent'[kind]
    BY <1>0, <2>1, <2>2, LinedDispatched
  <2>4. QED
    BY <2>3 DEF Streams
<1>17. CASE UNCHANGED vars
  BY <1>1, <1>17 DEF vars, route, slots, history
<1>18. "reader" \in Threads /\ "loop" \in Threads
  BY DEF Threads
<1>19. Nvim => (\E k \in Numbered : Answer(k)) \/ (\A k \in Numbered : ~Answer(k))
  OBVIOUS
<1>20. QED
  BY <1>3, <1>4, <1>5, <1>6, <1>7, <1>8, <1>9, <1>10, <1>11, <1>12, <1>13, <1>14, <1>15, <1>16, <1>17,
     <1>18, <1>19, Zenon DEF Next, Routes, Runtime, Retry

Ended == at["reader"] \in {"stopping", "posting", "over"}
OrderOK == Streams("queued") /\ (~Ended => Streams("request"))

(* The streams follow on, the requests until their connection ends. *)
LEMMA NextOrderOK ==
  ASSUME TypeOK, LockOwned, HandsOK, SlotsOK, OrderOK, [Next]_vars
  PROVE  OrderOK'
<1>1. Streams("queued")'
  BY NextStreams DEF OrderOK
<1>2. ASSUME ~Ended' PROVE ~Ended /\ ~(SendRequest /\ ~HasRoom)
  <2>0. /\ \A w \in ReaderAt : Goto("reader", w) => at'["reader"] = w /\ at'["loop"] = at["loop"]
        /\ \A w \in LoopAt : Goto("loop", w) => at'["loop"] = w /\ at'["reader"] = at["reader"]
    BY GotoGoes, Zenon DEF TypeOK, ReaderGoes, LoopGoes
  <2>1. ~(SendRequest /\ ~HasRoom)
    BY <1>2, <2>0, PlacesNamed DEF SendRequest, Ended
  <2>2. ASSUME Ended, NEW t \in Threads, Retry(t) PROVE at'["reader"] = at["reader"]
    <3>1. t = "loop"
      BY <2>2 DEF Retry, Acquire, RetryBeat, RetryRows, RetryQueued, Ended, Threads, HandsOK, Busy, Held
    <3>2. UNCHANGED at \/ \E w \in Held : Goto("loop", w)
      BY <2>2, <3>1, PlacesNamed DEF Retry, Acquire, RetryBeat, RetryRows, RetryQueued, AfterBeat
    <3>3. QED
      BY <2>0, <3>2, PlacesNamed
  <2>3. ASSUME Ended, \/ Attach \/ ReadPending \/ DrainPending \/ Cutover \/ Receive \/ Admit \/ Residue
                      \/ Key \/ RetriedParked
        PROVE  at'["reader"] = at["reader"]
    <3>1. \E w \in {"attached", "drain", "cutover", "wait", "received", "residue", "lock"} :
            Goto("loop", w)
      BY <2>3 DEF Attach, ReadPending, DrainPending, Cutover, Receive, Admit, Residue, Key,
                  RetriedParked
    <3>2. QED
      BY <2>0, <3>1, PlacesNamed
  <2>4. ASSUME Ended, RouteStop \/ PostStop PROVE Ended'
    <3>1. \E w \in {"posting", "over"} : Goto("reader", w)
      BY <2>4 DEF RouteStop, PostStop
    <3>2. QED
      BY <2>0, <3>1, PlacesNamed DEF Ended
  <2>5. ASSUME Ended
        PROVE  ~(\/ Retried \/ SendToken \/ Disarm \/ Raise \/ SendInvoke \/ Lower \/ SendHeld
                 \/ SendQueued \/ SendRequest \/ Nvim)
    BY <2>5 DEF Ended, Retried, SendToken, Disarm, Raise, SendInvoke, Lower, SendHeld, SendQueued,
                SendRequest, Sends, Nvim, Fold, Invoke, Beat, LaterBeat, StreamEnds, Answer
  <2>6. CASE UNCHANGED vars
    BY <1>2, <2>1, <2>6 DEF vars, Ended
  <2>7. at'["reader"] = at["reader"] => (Ended' <=> Ended)
    BY DEF Ended
  <2>8. "reader" \in Threads /\ "loop" \in Threads
    BY DEF Threads
  <2>9. QED
    BY <1>2, <2>1, <2>2, <2>3, <2>4, <2>5, <2>6, <2>7, <2>8, Zenon DEF Next, Routes, Runtime
<1>3. ~Ended' => Streams("request")'
  BY <1>2, NextStreams DEF OrderOK
<1>4. QED
  BY <1>1, <1>3 DEF OrderOK

(* What holds throughout: the types, and each of the parts above. *)
PumpInv ==
  /\ TypeOK /\ LockOwned /\ HandsOK /\ SlotsOK
  /\ BufferOK /\ Paired /\ WakeupOwed
  /\ OrderOK

LEMMA InitPumpInv ==
  ASSUME Init
  PROVE  PumpInv
<1> USE DEF Init
<1>1. TypeOK
  <2>1. DamageOK
    <3>1. 0 \in 0 .. MaxMsgs /\ 0 - 0 = 0 /\ 0 \in 0 .. 0 /\ <<>> \in Seq(0 .. 0)
      BY BoundsAreNat
    <3>2. QED
      BY <3>1 DEF DamageOK, Staged
  <2>2. RouteOK
    <3>1. <<>> \in Seq(Msg) /\ Len(<<>>) <= ChanCap
      BY CapHoldsTheSlots
    <3>2. QED
      BY <3>1, Zenon DEF RouteOK
  <2>3. ThreadsOK
    BY DEF ThreadsOK, Threads, ReaderAt, LoopAt
  <2>4. CountsOK
    BY BoundsAreNat DEF CountsOK
  <2>5. QED
    BY <2>1, <2>2, <2>3, <2>4 DEF TypeOK
<1>2. at["reader"] = "idle" /\ at["loop"] = "start" /\ op.kind = "none" /\ cur.kind = "none"
      /\ Len(chan) = 0 /\ Len(barriers) = 0 /\ Len(queued) = 0
  BY DEF Null
<1>3. LockOwned
  BY <1>2 DEF LockOwned, Held
<1>4. HandsOK
  BY <1>2 DEF HandsOK, Busy, Held
<1>5. SlotsOK
  BY <1>2 DEF SlotsOK, Threads
<1>6. BufferOK
  BY <1>2 DEF BufferOK
<1>7. Paired
  <2>1. Invokes = {}
    BY <1>2 DEF Invokes, Past, Raised
  <2>2. PICK ix : ix = [k \in 1 .. 0 |-> 0]
    OBVIOUS
  <2>3. 1 .. 0 = {}
    OBVIOUS
  <2>4. ix \in [1 .. Len(barriers) -> Invokes] /\ Pairs(ix)
    BY <1>2, <2>1, <2>2, <2>3 DEF Pairs
  <2>5. QED
    BY <2>4 DEF Paired
<1>8. WakeupOwed
  BY <1>2 DEF WakeupOwed
<1>9. ASSUME NEW kind \in Numbered PROVE Streams(kind)
  <2>1. Numbers(kind, <<>>) = {} /\ InOrder(kind, <<>>) /\ Part(kind, Null) = {}
    BY NumbersNone DEF Part, Null, Numbered
  <2>2. got[kind] + 1 .. sent[kind] = {} /\ got[kind] <= sent[kind]
    OBVIOUS
  <2>3. Waiting(kind) = <<>>
    BY DEF Waiting
  <2>4. QED
    BY <2>1, <2>2, <2>3 DEF Streams, Lined, Line, Below
<1>10. OrderOK
  BY <1>9 DEF OrderOK, Numbered
<1>11. QED
  BY <1>1, <1>3, <1>4, <1>5, <1>6, <1>7, <1>8, <1>10 DEF PumpInv

LEMMA NextPumpInv ==
  ASSUME PumpInv, [Next]_vars
  PROVE  PumpInv'
<1>1. TypeOK /\ LockOwned /\ HandsOK /\ SlotsOK /\ BufferOK /\ Paired /\ WakeupOwed /\ OrderOK
  BY DEF PumpInv
<1>2. ThreadsOK'
  <2>1. ThreadsOK
    BY <1>1 DEF TypeOK
  <2>2. CASE UNCHANGED at
    BY <2>1, <2>2 DEF ThreadsOK
  <2>3. QED
    BY <2>1, <2>2, NextThreads DEF ReaderGoes, LoopGoes
<1>3. TypeOK'
  BY <1>1, <1>2, NextDamageOK, NextRouteOK, NextCountsOK DEF TypeOK
<1>4. QED
  BY <1>1, <1>3, NextLockOwned, NextHandsOK, NextSlotsOK, NextBufferOK, NextPaired, NextWakeupOwed,
     NextOrderOK DEF PumpInv

(* The strengthening holds of every behaviour. *)
THEOREM PumpInvHolds == Spec => []PumpInv
<1>1. Init => PumpInv
  BY InitPumpInv
<1>2. PumpInv /\ [Next]_vars => PumpInv'
  BY NextPumpInv
<1>3. QED
  BY <1>1, <1>2, PTL DEF Spec

-----------------------------------------------------------------------------
(* The results.                                                            *)

(* The pump never leaves its types: no barrier past the flush, no channel   *)
(* over its size, no number past what nvim sent.                            *)
THEOREM PumpTypeOK == Spec => []TypeOK
<1>1. PumpInv => TypeOK
  BY DEF PumpInv
<1>2. QED
  BY <1>1, PumpInvHolds, PTL

(* No wakeup is lost: a loop asleep over an empty channel has every flushed *)
(* batch on the screen, whichever tokens the channel refused and however    *)
(* drains, barriers and refusals fell together.                             *)
THEOREM NothingIsStranded == Spec => []NothingStranded
<1>1. ASSUME PumpInv, at["loop"] = "wait", chan = <<>>, at["reader"] \in {"idle", "over"}
      PROVE  drawn = wireEnd
  <2>1. wireEnd = drawn + flush /\ flush \in Nat /\ drawn \in Nat
    BY <1>1, BoundsAreNat DEF PumpInv, BufferOK, TypeOK, DamageOK, Staged
  <2>2. ~WillDrain /\ ~TokenComing
    BY <1>1 DEF WillDrain, TokenComing, Held
  <2>3. ~(flush > 0)
    BY <1>1, <2>2 DEF PumpInv, WakeupOwed
  <2>4. QED
    BY <2>1, <2>3
<1>2. PumpInv => NothingStranded
  BY <1>1 DEF NothingStranded
<1>3. QED
  BY <1>2, PumpInvHolds, PTL

(* The numbered messages come through whole and in order: nothing waiting   *)
(* in the never-drop queue is lost, doubled or overtaken, nor a request     *)
(* while its connection lives.                                              *)
THEOREM NothingLostOrReordered == Spec => []NothingIsLostOrReordered
<1>1. PumpInv => NothingIsLostOrReordered
  BY FollowsOnIs DEF PumpInv, OrderOK, Ended, Streams, NothingIsLostOrReordered
<1>2. QED
  BY <1>1, PumpInvHolds, PTL

(* An invocation is dispatched over exactly the screen nvim had flushed     *)
(* before it sent it.                                                       *)
THEOREM InvocationsSeeTheirScreens == Spec => InvocationSeesItsScreen
<1>1. ASSUME PumpInv, Admit, cur.kind = "invoke" PROVE drawn' = cur.nr
  <2>1. TypeOK /\ BufferOK /\ Paired /\ ThreadsOK
    BY <1>1 DEF PumpInv, TypeOK
  <2>2. PassBarrier /\ cur' = Null /\ chan' = chan /\ op' = op /\ Goto("loop", "residue")
    BY <1>1 DEF Admit
  <2>3. Raised' <=> Raised
    BY <2>1, <2>2, LoopKeepsRaised, PlacesNamed
  <2>4. QED
    BY <1>1, <2>1, <2>2, <2>3, PairsAdmitted
<1>2. PumpInv /\ [Next]_vars => [Admit /\ cur.kind = "invoke" => drawn' = cur.nr]_vars
  BY <1>1
<1>3. QED
  BY <1>2, PumpInvHolds, PTL DEF Spec, InvocationSeesItsScreen
===============================================================================
