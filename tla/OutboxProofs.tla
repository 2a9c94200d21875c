---------------------------- MODULE OutboxProofs ----------------------------
(***************************************************************************)
(* Proofs about the write side.  Outbox, for every set of callers, number  *)
(* of sends, message length and pipe size; and Stall, the watch over its   *)
(* two counters, for every threshold, every gap between passes and any     *)
(* number of messages.                                                     *)
(***************************************************************************)
EXTENDS Outbox, Stall, FiniteSetTheorems, TLAPS

(* The initial state is well typed. *)
LEMMA InitTypeOK == Init => TypeOK
<1> SUFFICES ASSUME Init PROVE TypeOK
  OBVIOUS
<1>1. after \in [begun -> SUBSET Message]
  BY DEF Init
<1>2. queue \in Seq(Message) /\ wire \in Seq(Chunk)
  BY DEF Init
<1>3. broken \in BOOLEAN
  BY Zenon DEF Init
<1>4. /\ pc \in [Callers -> {"idle", "claimed", "refused", "inline", "handoff"}]
      /\ sent \in [Callers -> 0 .. MaxSends]
      /\ msg \in [Callers -> Message \cup {<<>>}]
      /\ \A c \in Callers : pc[c] # "idle" => msg[c] \in Message
  BY BoundsAreNat DEF Init
<1>5. /\ holder \in Callers \cup {Writer, Nobody}
      /\ handedOff \in Nat /\ wrote \in Nat /\ out \in Nat
      /\ wpc \in {"recv", "locking", "writing", "closing", "ended"}
      /\ wmsg \in Message \cup {<<>>}
      /\ wpc \in {"locking", "writing"} => wmsg \in Message
      /\ begun \subseteq Message /\ done \subseteq Message
  BY DEF Init
<1>6. read \in 0 .. Len(wire)
  BY DEF Init
<1>7. QED
  BY <1>1, <1>2, <1>3, <1>4, <1>5, <1>6 DEF TypeOK

(* Appending a chunk to the wire, or a message to the channel. *)
LEMMA WireAppend ==
  ASSUME TypeOK, NEW x \in Chunk, wire' = Append(wire, x)
  PROVE  /\ wire' \in Seq(Chunk)
         /\ Len(wire') = Len(wire) + 1
         /\ wire'[Len(wire) + 1] = x
         /\ \A i \in 1 .. Len(wire) : wire'[i] = wire[i]
BY DEF TypeOK

(* Queueing a message puts it behind the channel and nothing else. *)
LEMMA QueueAppend ==
  ASSUME TypeOK, NEW m \in Message, queue' = Append(queue, m)
  PROVE  /\ queue' \in Seq(Message)
         /\ Len(queue') = Len(queue) + 1
         /\ queue'[Len(queue) + 1] = m
         /\ \A i \in 1 .. Len(queue) : queue'[i] = queue[i]
BY DEF TypeOK

(* Taking the message at the head of the channel. *)
LEMMA QueueTail ==
  ASSUME TypeOK, queue # <<>>, queue' = Tail(queue)
  PROVE  /\ queue' \in Seq(Message) /\ queue[1] \in Message
         /\ Head(queue) = queue[1]
         /\ Len(queue) >= 1 /\ Len(queue') = Len(queue) - 1
         /\ \A i \in 1 .. Len(queue') : queue'[i] = queue[i + 1]
BY DEF TypeOK

(* The senders on their way to the channel are finitely many, so a count of *)
(* zero means there is none, and one arriving or leaving moves it by one.   *)
LEMMA InFlightFinite ==
  /\ IsFiniteSet(InFlight) /\ Cardinality(InFlight) \in Nat
  /\ \A c \in InFlight : Cardinality(InFlight) >= 1
<1>1. IsFiniteSet(InFlight) /\ Cardinality(InFlight) \in Nat
  BY CallersFinite, FS_Subset, FS_CardinalityType DEF InFlight
<1>2. \A c \in InFlight : InFlight # {} /\ Cardinality(InFlight) # 0
  BY <1>1, FS_EmptySet
<1>3. QED
  BY <1>1, <1>2

(* Whoever releases a hand-off holds one that is counted. *)
LEMMA CountedWhileOwed ==
  ASSUME TypeOK, HandOffAccounted
  PROVE  /\ Held => handedOff >= 1
         /\ \A c \in Callers : pc[c] = "handoff" => handedOff >= 1
         /\ handedOff = 0 => queue = <<>> /\ ~Held /\ InFlight = {}
<1>1. Len(queue) \in Nat /\ (Len(queue) = 0 => queue = <<>>)
  BY DEF TypeOK
<1>2. Cardinality(InFlight) = 0 => InFlight = {}
  BY InFlightFinite, FS_EmptySet
<1>3. handedOff = Len(queue) + Cardinality(InFlight) + (IF Held THEN 1 ELSE 0)
  BY DEF HandOffAccounted
<1>4. \A c \in Callers : pc[c] = "handoff" => c \in InFlight
  BY DEF InFlight
<1>5. QED
  BY <1>1, <1>2, <1>3, <1>4, InFlightFinite

(* Every step keeps every variable in its type; a hand-off is only ever     *)
(* released while it is counted, which is HandOffAccounted.                 *)
LEMMA NextTypeOK ==
  ASSUME TypeOK, HandOffAccounted, [Next]_vars
  PROVE  TypeOK'
<1> USE DEF TypeOK, callerVars, writerVars, pipeVars, history
<1>1. ASSUME NEW c \in Callers, NEW m \in Message, Claim(c, m)
      PROVE  TypeOK'
  BY <1>1, BoundsAreNat DEF Claim, Begin, Message
<1>2. ASSUME NEW c \in Callers, NEW m \in Message, Refuse(c, m)
      PROVE  TypeOK'
  BY <1>2, BoundsAreNat DEF Refuse, Begin, Message
<1>3. ASSUME NEW c \in Callers, GoInline(c)
      PROVE  TypeOK'
  BY <1>3 DEF GoInline
<1>4. ASSUME NEW c \in Callers, WriteInline(c)
      PROVE  TypeOK'
  <2>1. <<msg[c], 1>> \in Chunk /\ msg[c] \in Message
    BY <1>4 DEF WriteInline, Chunk
  <2>2. CASE broken
    BY <1>4, <2>1, <2>2 DEF WriteInline, Return
  <2>3. CASE ~broken
    <3>1. wire' = Append(wire, <<msg[c], 1>>)
      BY <1>4, <2>3 DEF WriteInline
    <3>2. wire' \in Seq(Chunk) /\ read' \in 0 .. Len(wire')
      BY <1>4, <2>1, <3>1, WireAppend DEF WriteInline
    <3>3. QED
      BY <1>4, <2>1, <3>2 DEF WriteInline, Return
  <2>4. QED
    BY <2>2, <2>3
<1>5. ASSUME NEW c \in Callers, HandOff(c)
      PROVE  TypeOK'
  BY <1>5 DEF HandOff
<1>6. ASSUME NEW c \in Callers, CountRefused(c)
      PROVE  TypeOK'
  BY <1>6 DEF CountRefused
<1>7. ASSUME NEW c \in Callers, Enqueue(c)
      PROVE  TypeOK'
  <2>1. msg[c] \in Message
    BY <1>7 DEF Enqueue
  <2>2. CASE ReceiverAlive
    BY <1>7, <2>1, <2>2, QueueAppend DEF Enqueue, Return
  <2>3. CASE ~ReceiverAlive
    BY <1>7, <2>1, <2>3, CountedWhileOwed DEF Enqueue, Return
  <2>4. QED
    BY <2>2, <2>3
<1>8. ASSUME Receive PROVE TypeOK'
  BY <1>8, QueueTail DEF Receive
<1>9. ASSUME LockWriter PROVE TypeOK'
  BY <1>9 DEF LockWriter
<1>10. ASSUME WriteChunk PROVE TypeOK'
  BY <1>10 DEF WriteChunk, Chunk
<1>11. ASSUME FinishWrite PROVE TypeOK'
  BY <1>11, CountedWhileOwed DEF FinishWrite, Held
<1>12. ASSUME FailWrite PROVE TypeOK'
  BY <1>12, CountedWhileOwed DEF FailWrite, Held
<1>13. ASSUME EndWriter PROVE TypeOK'
  BY <1>13 DEF EndWriter
<1>14. ASSUME PeerReads PROVE TypeOK'
  BY <1>14 DEF PeerReads
<1>15. ASSUME PeerGone PROVE TypeOK'
  BY <1>15 DEF PeerGone
<1>16. CASE UNCHANGED vars
  BY <1>16 DEF vars
<1>17. QED
  BY <1>1, <1>2, <1>3, <1>4, <1>5, <1>6, <1>7, <1>8, <1>9, <1>10, <1>11, <1>12,
     <1>13, <1>14, <1>15, <1>16
     DEF Next, Caller, Sending, WriterThread, Peer

-----------------------------------------------------------------------------
(* The count of handed-off messages.                                       *)

(* A step that adds a sender to the count adds one, one that removes it     *)
(* removes one.                                                             *)
LEMMA InFlightMoves ==
  ASSUME TypeOK, NEW c \in Callers, NEW s \in {"idle", "handoff"},
         pc' = [pc EXCEPT ![c] = s]
  PROVE  /\ s = "handoff" /\ pc[c] # "handoff" =>
              Cardinality(InFlight') = Cardinality(InFlight) + 1
         /\ s = "idle" /\ pc[c] = "handoff" =>
              Cardinality(InFlight') = Cardinality(InFlight) - 1
<1>1. ASSUME s = "handoff", pc[c] # "handoff"
      PROVE  InFlight' = InFlight \cup {c} /\ c \notin InFlight
  BY <1>1 DEF InFlight, TypeOK
<1>2. ASSUME s = "idle", pc[c] = "handoff"
      PROVE  InFlight' = InFlight \ {c} /\ c \in InFlight
  BY <1>2 DEF InFlight, TypeOK
<1>3. QED
  BY <1>1, <1>2, InFlightFinite, FS_AddElement, FS_RemoveElement

(* Steps that leave every caller outside or inside the hand-off. *)
LEMMA InFlightStays ==
  ASSUME TypeOK, NEW c \in Callers, NEW s \in {"claimed", "refused", "inline", "idle"},
         pc' = [pc EXCEPT ![c] = s], pc[c] # "handoff"
  PROVE  InFlight' = InFlight
BY DEF InFlight, TypeOK

(* The counter moves with the senders on their way, the channel and the    *)
(* message in hand.                                                         *)
LEMMA NextHandOffAccounted ==
  ASSUME TypeOK, HandOffAccounted, [Next]_vars
  PROVE  HandOffAccounted'
<1> USE DEF HandOffAccounted, callerVars, writerVars, pipeVars, history
<1>0. Len(queue) \in Nat /\ Cardinality(InFlight) \in Nat
  BY InFlightFinite DEF TypeOK
<1>1. ASSUME NEW c \in Callers, NEW m \in Message, Claim(c, m)
      PROVE  HandOffAccounted'
  BY <1>1, InFlightStays DEF Claim, Begin, Held
<1>2. ASSUME NEW c \in Callers, NEW m \in Message, Refuse(c, m)
      PROVE  HandOffAccounted'
  BY <1>2, InFlightStays DEF Refuse, Begin, Held
<1>3. ASSUME NEW c \in Callers, GoInline(c)
      PROVE  HandOffAccounted'
  BY <1>3, InFlightStays DEF GoInline, Held
<1>4. ASSUME NEW c \in Callers, WriteInline(c)
      PROVE  HandOffAccounted'
  BY <1>4, InFlightStays DEF WriteInline, Return, Held
<1>5. ASSUME NEW c \in Callers, HandOff(c)
      PROVE  HandOffAccounted'
  <2>1. Cardinality(InFlight') = Cardinality(InFlight) + 1
    BY <1>5, InFlightMoves DEF HandOff
  <2>2. QED
    BY <1>5, <1>0, <2>1 DEF HandOff, Held
<1>6. ASSUME NEW c \in Callers, CountRefused(c)
      PROVE  HandOffAccounted'
  <2>1. Cardinality(InFlight') = Cardinality(InFlight) + 1
    BY <1>6, InFlightMoves DEF CountRefused
  <2>2. QED
    BY <1>6, <1>0, <2>1 DEF CountRefused, Held
<1>7. ASSUME NEW c \in Callers, Enqueue(c)
      PROVE  HandOffAccounted'
  <2>1. msg[c] \in Message
    BY <1>7 DEF Enqueue, TypeOK
  <2>2. Cardinality(InFlight') = Cardinality(InFlight) - 1
    BY <1>7, InFlightMoves DEF Enqueue, Return
  <2>3. CASE ReceiverAlive
    BY <1>7, <1>0, <2>1, <2>2, <2>3, QueueAppend DEF Enqueue, Held
  <2>4. CASE ~ReceiverAlive
    BY <1>7, <1>0, <2>2, <2>4 DEF Enqueue, Held
  <2>5. QED
    BY <2>3, <2>4
<1>8. ASSUME Receive PROVE HandOffAccounted'
  BY <1>8, <1>0, QueueTail DEF Receive, Held, InFlight
<1>9. ASSUME LockWriter PROVE HandOffAccounted'
  BY <1>9 DEF LockWriter, Held, InFlight
<1>10. ASSUME WriteChunk PROVE HandOffAccounted'
  BY <1>10 DEF WriteChunk, Held, InFlight
<1>11. ASSUME FinishWrite PROVE HandOffAccounted'
  BY <1>11, <1>0 DEF FinishWrite, Held, InFlight
<1>12. ASSUME FailWrite PROVE HandOffAccounted'
  BY <1>12, <1>0 DEF FailWrite, Held, InFlight
<1>13. ASSUME EndWriter PROVE HandOffAccounted'
  BY <1>13 DEF EndWriter, Held, InFlight
<1>14. ASSUME PeerReads PROVE HandOffAccounted'
  BY <1>14 DEF PeerReads, Held, InFlight
<1>15. ASSUME PeerGone PROVE HandOffAccounted'
  BY <1>15 DEF PeerGone, Held, InFlight
<1>16. CASE UNCHANGED vars
  BY <1>16 DEF vars, Held, InFlight
<1>17. QED
  BY <1>1, <1>2, <1>3, <1>4, <1>5, <1>6, <1>7, <1>8, <1>9, <1>10, <1>11, <1>12,
     <1>13, <1>14, <1>15, <1>16
     DEF Next, Caller, Sending, WriterThread, Peer

-----------------------------------------------------------------------------
(* The lock.                                                               *)

(* Whoever the lock says holds it is inside a section that takes it. *)
LEMMA NextLockOwned ==
  ASSUME TypeOK, LockOwned, [Next]_vars
  PROVE  LockOwned'
<1> USE ThreadsDistinct DEF LockOwned, TypeOK, callerVars, writerVars, pipeVars, history
<1>1. ASSUME NEW c \in Callers, NEW m \in Message, Claim(c, m) \/ Refuse(c, m)
      PROVE  LockOwned'
  BY <1>1 DEF Claim, Refuse, Begin
<1>2. ASSUME NEW c \in Callers, GoInline(c) \/ WriteInline(c)
      PROVE  LockOwned'
  BY <1>2 DEF GoInline, WriteInline, Return
<1>3. ASSUME NEW c \in Callers, HandOff(c) \/ CountRefused(c) \/ Enqueue(c)
      PROVE  LockOwned'
  BY <1>3 DEF HandOff, CountRefused, Enqueue, Return
<1>4. ASSUME WriterThread PROVE LockOwned'
  BY <1>4 DEF WriterThread, Receive, LockWriter, WriteChunk, FinishWrite, FailWrite, EndWriter
<1>5. ASSUME Peer PROVE LockOwned'
  BY <1>5 DEF Peer, PeerReads, PeerGone
<1>6. CASE UNCHANGED vars
  BY <1>6 DEF vars
<1>7. QED
  BY <1>1, <1>2, <1>3, <1>4, <1>5, <1>6 DEF Next, Caller, Sending

-----------------------------------------------------------------------------
(* Where messages come from.                                               *)

(* A send always begins a message of its own, so the history of an earlier *)
(* one is never overwritten.                                               *)
LEMMA BeginFresh ==
  ASSUME TypeOK, HistoryOK, NEW c \in Callers, NEW m \in Message, Begin(c, m)
  PROVE  m \notin begun
<1>1. m.by = c /\ m.nr = sent[c] + 1 /\ sent[c] \in Nat
  BY BoundsAreNat DEF Begin, TypeOK
<1>2. m \in begun => m.nr <= sent[m.by]
  BY DEF HistoryOK
<1>3. QED
  BY <1>1, <1>2

(* What the history says of a message stays true of it: begun before done, *)
(* and ordered after what was done before it began.                         *)
LEMMA NextHistoryOK ==
  ASSUME TypeOK, HistoryOK, [Next]_vars
  PROVE  HistoryOK'
<1> USE DEF HistoryOK, TypeOK, Held, callerVars, writerVars, pipeVars, history
<1>1. ASSUME NEW c \in Callers, NEW m \in Message, Claim(c, m) \/ Refuse(c, m)
      PROVE  HistoryOK'
  <2>1. m \notin begun /\ Begin(c, m)
    BY <1>1, BeginFresh DEF Claim, Refuse
  <2>2. /\ done' = done /\ begun' = begun \cup {m}
        /\ after'[m] = done /\ \A x \in begun : after'[x] = after[x]
    BY <2>1 DEF Begin
  <2>3. /\ sent' = [sent EXCEPT ![c] = @ + 1] /\ m.by = c /\ m.nr = sent[c] + 1
        /\ msg' = [msg EXCEPT ![c] = m]
    BY <2>1 DEF Begin
  <2>4. \A x \in begun' : x.nr <= sent'[x.by]
    <3>1. \A x \in Message : x.by \in Callers /\ sent[x.by] \in Nat /\ x.nr \in Nat
      BY BoundsAreNat DEF Message
    <3>2. QED
      BY <2>2, <2>3, <3>1
  <2>5. \A x \in begun' : after'[x] \subseteq done'
    BY <2>2
  <2>6. \A d \in Callers : pc'[d] # "idle" => msg'[d] \in begun' /\ msg'[d].by = d
    BY <1>1, <2>2, <2>3 DEF Claim, Refuse
  <2>7. queue' = queue /\ wire' = wire /\ wpc' = wpc /\ wmsg' = wmsg
    BY <2>1 DEF Begin
  <2>8. QED
    BY <2>2, <2>4, <2>5, <2>6, <2>7
<1>2. ASSUME NEW c \in Callers, GoInline(c) \/ HandOff(c) \/ CountRefused(c)
      PROVE  HistoryOK'
  BY <1>2 DEF GoInline, HandOff, CountRefused
<1>3. ASSUME NEW c \in Callers, WriteInline(c)
      PROVE  HistoryOK'
  <2>1. msg[c] \in begun /\ <<msg[c], 1>> \in Chunk
    BY <1>3 DEF WriteInline, Chunk
  <2>2. \A i \in 1 .. Len(wire') : wire'[i][1] \in begun
    <3>1. CASE wire' = wire
      BY <3>1
    <3>2. CASE wire' = Append(wire, <<msg[c], 1>>)
      BY <2>1, <3>2, WireAppend
    <3>3. QED
      BY <1>3, <3>1, <3>2 DEF WriteInline
  <2>3. QED
    BY <1>3, <2>1, <2>2 DEF WriteInline, Return
<1>4. ASSUME NEW c \in Callers, Enqueue(c)
      PROVE  HistoryOK'
  <2>1. msg[c] \in begun /\ msg[c] \in Message
    BY <1>4 DEF Enqueue
  <2>2. \A i \in 1 .. Len(queue') : queue'[i] \in begun
    <3>1. CASE queue' = queue
      BY <3>1
    <3>2. CASE queue' = Append(queue, msg[c])
      BY <2>1, <3>2, QueueAppend
    <3>3. QED
      BY <1>4, <3>1, <3>2 DEF Enqueue
  <2>3. QED
    BY <1>4, <2>1, <2>2 DEF Enqueue, Return
<1>5. ASSUME Receive PROVE HistoryOK'
  BY <1>5, QueueTail DEF Receive
<1>6. ASSUME WriteChunk PROVE HistoryOK'
  <2>1. wmsg \in begun /\ <<wmsg, out + 1>> \in Chunk
    BY <1>6 DEF WriteChunk, Chunk
  <2>2. \A i \in 1 .. Len(wire') : wire'[i][1] \in begun
    BY <1>6, <2>1, WireAppend DEF WriteChunk
  <2>3. QED
    BY <1>6, <2>1, <2>2 DEF WriteChunk
<1>7. ASSUME LockWriter \/ FinishWrite \/ FailWrite \/ EndWriter PROVE HistoryOK'
  BY <1>7 DEF LockWriter, FinishWrite, FailWrite, EndWriter
<1>8. ASSUME Peer PROVE HistoryOK'
  BY <1>8 DEF Peer, PeerReads, PeerGone
<1>9. CASE UNCHANGED vars
  BY <1>9 DEF vars
<1>10. QED
  BY <1>1, <1>2, <1>3, <1>4, <1>5, <1>6, <1>7, <1>8, <1>9
     DEF Next, Caller, Sending, WriterThread

-----------------------------------------------------------------------------
(* The write under way, and the room the inline path was promised.         *)

(* What is complete on the wire stays complete. *)
LEMMA CompleteStays ==
  ASSUME TypeOK, NEW x \in Chunk, wire' = wire \/ wire' = Append(wire, x)
  PROVE  \A m : Complete(m) => Complete(m)'
<1>1. CASE wire' = wire
  BY <1>1 DEF Complete
<1>2. CASE wire' = Append(wire, x)
  <2>1. Len(wire) \in Nat
    BY DEF TypeOK
  <2>2. QED
    BY <1>2, <2>1, WireAppend DEF Complete
<1>3. QED
  BY <1>1, <1>2

(* The chunks of the write under way are on the wire and no more than its  *)
(* message has; inline writes are of one.                                   *)
LEMMA NextWriteUnderWay ==
  ASSUME TypeOK, LockOwned, WriteUnderWay, [Next]_vars
  PROVE  WriteUnderWay'
<1> USE DEF WriteUnderWay, TypeOK, callerVars, writerVars, pipeVars, history
<1>1. ASSUME NEW c \in Callers, NEW m \in Message, Claim(c, m) \/ Refuse(c, m)
      PROVE  WriteUnderWay'
  BY <1>1 DEF Claim, Refuse, Begin
<1>2. ASSUME NEW c \in Callers, GoInline(c)
      PROVE  WriteUnderWay'
  BY <1>2 DEF GoInline, InlineAnswers
<1>3. ASSUME NEW c \in Callers, WriteInline(c)
      PROVE  WriteUnderWay'
  <2>1. wpc # "writing"
    BY <1>3, ThreadsDistinct DEF WriteInline, LockOwned
  <2>2. QED
    BY <1>3, <2>1 DEF WriteInline, Return
<1>4. ASSUME NEW c \in Callers, HandOff(c) \/ CountRefused(c) \/ Enqueue(c)
      PROVE  WriteUnderWay'
  BY <1>4 DEF HandOff, CountRefused, Enqueue, Return
<1>5. ASSUME WriteChunk PROVE WriteUnderWay'
  <2>1. <<wmsg, out + 1>> \in Chunk /\ Len(wire) \in Nat
    BY <1>5 DEF WriteChunk, Chunk
  <2>2. wire'[Len(wire) + 1] = <<wmsg, out + 1>> /\ Len(wire') = Len(wire) + 1
    BY <1>5, <2>1, WireAppend DEF WriteChunk
  <2>3. wmsg.len \in Nat
    BY <1>5, LengthsArePositive DEF WriteChunk, Message
  <2>4. out' <= wmsg.len
    BY <1>5, <2>3 DEF WriteChunk
  <2>5. \E i \in 1 .. Len(wire') : wire'[i] = <<wmsg, out + 1>>
    <3>1. Len(wire) + 1 \in 1 .. Len(wire')
      BY <2>1, <2>2
    <3>2. QED
      BY ONLY <2>2, <3>1, Zenon
  <2>6. pc' = pc /\ msg' = msg /\ wpc' = "writing" /\ wmsg' = wmsg /\ out' = out + 1
    BY <1>5 DEF WriteChunk
  <2>7. QED
    BY <2>4, <2>5, <2>6
<1>6. ASSUME LockWriter PROVE WriteUnderWay'
  <2>1. wmsg.len \in Nat
    BY <1>6, LengthsArePositive DEF LockWriter, Message
  <2>2. QED
    BY <1>6, <2>1 DEF LockWriter
<1>7. ASSUME Receive \/ FinishWrite \/ FailWrite \/ EndWriter PROVE WriteUnderWay'
  BY <1>7 DEF Receive, FinishWrite, FailWrite, EndWriter
<1>8. ASSUME Peer PROVE WriteUnderWay'
  BY <1>8 DEF Peer, PeerReads, PeerGone
<1>9. CASE UNCHANGED vars
  BY <1>9 DEF vars
<1>10. QED
  BY <1>1, <1>2, <1>3, <1>4, <1>5, <1>6, <1>7, <1>8, <1>9
     DEF Next, Caller, Sending, WriterThread

(* Only the lock's holder writes, so the room the poll answered for stays   *)
(* until the write it was asked for: nvim can only add to it.               *)
LEMMA NextInlineNeverParks ==
  ASSUME TypeOK, LockOwned, InlineNeverParks, [Next]_vars
  PROVE  InlineNeverParks'
<1> USE DEF InlineNeverParks, TypeOK, callerVars, writerVars, pipeVars, history
<1>1. ASSUME NEW c \in Callers, NEW m \in Message, Claim(c, m) \/ Refuse(c, m)
      PROVE  InlineNeverParks'
  BY <1>1 DEF Claim, Refuse, Begin, HasRoom
<1>2. ASSUME NEW c \in Callers, GoInline(c)
      PROVE  InlineNeverParks'
  BY <1>2 DEF GoInline, InlineAnswers, HasRoom
<1>3. ASSUME NEW c \in Callers, WriteInline(c)
      PROVE  InlineNeverParks'
  BY <1>3 DEF WriteInline, Return, LockOwned, HasRoom
<1>4. ASSUME NEW c \in Callers, HandOff(c) \/ CountRefused(c) \/ Enqueue(c)
      PROVE  InlineNeverParks'
  BY <1>4 DEF HandOff, CountRefused, Enqueue, Return, HasRoom
<1>5. ASSUME WriteChunk PROVE InlineNeverParks'
  BY <1>5, ThreadsDistinct DEF WriteChunk, LockOwned
<1>6. ASSUME Receive \/ LockWriter \/ FinishWrite \/ FailWrite \/ EndWriter
      PROVE  InlineNeverParks'
  BY <1>6 DEF Receive, LockWriter, FinishWrite, FailWrite, EndWriter, HasRoom
<1>7. ASSUME PeerReads PROVE InlineNeverParks'
  BY <1>7, BoundsAreNat DEF PeerReads, HasRoom
<1>8. ASSUME PeerGone PROVE InlineNeverParks'
  BY <1>8 DEF PeerGone
<1>9. CASE UNCHANGED vars
  BY <1>9 DEF vars, HasRoom
<1>10. QED
  BY <1>1, <1>2, <1>3, <1>4, <1>5, <1>6, <1>7, <1>8, <1>9
     DEF Next, Caller, Sending, WriterThread, Peer

-----------------------------------------------------------------------------
(* The order.                                                              *)

(* The writer thread's messages are all begun; an inline write completes    *)
(* its own.                                                                 *)
LEMMA InlineCompletes ==
  ASSUME TypeOK, WriteUnderWay, NEW c \in Callers, WriteInline(c), ~broken
  PROVE  Complete(msg[c])' /\ \A m : Complete(m) => Complete(m)'
<1>1. <<msg[c], 1>> \in Chunk /\ wire' = Append(wire, <<msg[c], 1>>) /\ msg[c].len = 1
  BY DEF WriteInline, TypeOK, Chunk, WriteUnderWay
<1>2. wire'[Len(wire) + 1] = <<msg[c], 1>> /\ Len(wire') = Len(wire) + 1 /\ Len(wire) \in Nat
  BY <1>1, WireAppend DEF TypeOK
<1>3. msg' = msg /\ Len(wire) + 1 \in 1 .. Len(wire')
  BY <1>2 DEF WriteInline, Return
<1>4. wire'[Len(wire) + 1] = <<msg'[c], (msg[c].len)'>>
  BY <1>1, <1>2, <1>3
<1>5. Complete(msg[c])'
  BY <1>3, <1>4, Zenon DEF Complete
<1>6. QED
  BY <1>1, <1>5, CompleteStays

(* While the pipe stands, a message that was accepted is on the wire, in    *)
(* hand, or in the channel.                                                 *)
LEMMA NextAcceptedNotLost ==
  ASSUME TypeOK, WriteUnderWay, AcceptedNotLost, [Next]_vars
  PROVE  AcceptedNotLost'
<1> USE DEF AcceptedNotLost, callerVars, writerVars, pipeVars, history
<1>1. ASSUME NEW c \in Callers, NEW m \in Message, Claim(c, m) \/ Refuse(c, m)
      PROVE  AcceptedNotLost'
  BY <1>1 DEF Claim, Refuse, Begin, Complete, Held
<1>2. ASSUME NEW c \in Callers, GoInline(c) \/ HandOff(c) \/ CountRefused(c)
      PROVE  AcceptedNotLost'
  BY <1>2 DEF GoInline, HandOff, CountRefused, Complete, Held
<1>3. ASSUME NEW c \in Callers, WriteInline(c), ~broken'
      PROVE  AcceptedNotLost'
  <2>1. ~broken /\ done' = done \cup {msg[c]}
    BY <1>3 DEF WriteInline, Return
  <2>2. Complete(msg[c])' /\ \A m : Complete(m) => Complete(m)'
    BY <1>3, <2>1, InlineCompletes
  <2>3. queue' = queue /\ wmsg' = wmsg /\ wpc' = wpc /\ msg' = msg
    BY <1>3 DEF WriteInline, Return
  <2>4. QED
    BY <2>1, <2>2, <2>3 DEF Held
<1>4. ASSUME NEW c \in Callers, Enqueue(c), ~broken'
      PROVE  AcceptedNotLost'
  <2>1. ~broken /\ ReceiverAlive
    BY <1>4 DEF Enqueue, WriteUnderWay, ReceiverAlive, TypeOK
  <2>2. done' = done \cup {msg[c]} /\ queue' = Append(queue, msg[c]) /\ msg[c] \in Message
    BY <1>4, <2>1 DEF Enqueue, Return, TypeOK
  <2>3. /\ Len(queue) \in Nat /\ Len(queue') = Len(queue) + 1
        /\ queue'[Len(queue) + 1] = msg[c]
        /\ \A i \in 1 .. Len(queue) : queue'[i] = queue[i]
    BY <2>2, QueueAppend DEF TypeOK
  <2>4. wire' = wire /\ wmsg' = wmsg /\ wpc' = wpc
    BY <1>4 DEF Enqueue
  <2>5. \A m : Complete(m) => Complete(m)'
    BY <2>4 DEF Complete
  <2>6. \A m : (\E i \in 1 .. Len(queue) : queue[i] = m)
                  => \E i \in 1 .. Len(queue') : queue'[i] = m
    BY <2>3
  <2>7. \E i \in 1 .. Len(queue') : queue'[i] = msg[c]
    BY <2>3
  <2>8. QED
    BY <2>1, <2>2, <2>4, <2>5, <2>6, <2>7 DEF Held
<1>5. ASSUME Receive PROVE AcceptedNotLost'
  <2>1. /\ Len(queue) >= 1 /\ Len(queue) \in Nat /\ Len(queue') = Len(queue) - 1
        /\ \A i \in 1 .. Len(queue') : queue'[i] = queue[i + 1]
        /\ wmsg' = queue[1] /\ ~Held /\ Held'
    BY <1>5, QueueTail DEF Receive, Held, TypeOK
  <2>2. done' = done /\ broken' = broken /\ \A m : Complete(m) => Complete(m)'
    BY <1>5 DEF Receive, Complete
  <2>3. ASSUME NEW i \in 1 .. Len(queue), i # 1
        PROVE  \E j \in 1 .. Len(queue') : queue'[j] = queue[i]
    <3>1. i - 1 \in 1 .. Len(queue') /\ queue'[i - 1] = queue[i]
      BY <2>1, <2>3
    <3>2. QED
      BY <3>1
  <2>4. \A m : (\E i \in 1 .. Len(queue) : queue[i] = m)
                  => wmsg' = m \/ \E i \in 1 .. Len(queue') : queue'[i] = m
    BY <2>1, <2>3
  <2>5. QED
    BY <2>1, <2>2, <2>4
<1>6. ASSUME WriteChunk PROVE AcceptedNotLost'
  <2>1. <<wmsg, out + 1>> \in Chunk
    BY <1>6 DEF WriteChunk, Chunk, TypeOK
  <2>2. \A m : Complete(m) => Complete(m)'
    BY <1>6, <2>1, CompleteStays DEF WriteChunk
  <2>3. QED
    BY <1>6, <2>2 DEF WriteChunk, Held
<1>7. ASSUME FinishWrite PROVE AcceptedNotLost'
  <2>1. wmsg.len > 0
    BY <1>7, LengthsArePositive DEF FinishWrite, TypeOK, Message
  <2>2. Complete(wmsg)
    BY <1>7, <2>1 DEF FinishWrite, WriteUnderWay, Complete
  <2>3. QED
    BY <1>7, <2>2 DEF FinishWrite, Held, Complete
<1>8. ASSUME LockWriter \/ FailWrite \/ EndWriter PROVE AcceptedNotLost'
  BY <1>8 DEF LockWriter, FailWrite, EndWriter, WriteUnderWay, Held, Complete
<1>9. ASSUME Peer PROVE AcceptedNotLost'
  BY <1>9 DEF Peer, PeerReads, PeerGone, Held, Complete
<1>10. CASE UNCHANGED vars
  BY <1>10 DEF vars, Held, Complete
<1>11. QED
  BY <1>1, <1>2, <1>3, <1>4, <1>5, <1>6, <1>7, <1>8, <1>9, <1>10
     DEF Next, Caller, Sending, WriterThread

(* A send that begins leaves the order of every earlier message alone. *)
LEMMA BeginKeepsAfter ==
  ASSUME TypeOK, HistoryOK, NEW c \in Callers, NEW m \in Message, Begin(c, m)
  PROVE  /\ \A x \in begun : after'[x] = after[x]
         /\ wire' = wire /\ queue' = queue /\ wpc' = wpc /\ wmsg' = wmsg
         /\ broken' = broken /\ \A x : Complete(x) => Complete(x)'
<1>1. m \notin begun
  BY BeginFresh
<1>2. QED
  BY <1>1 DEF Begin, TypeOK, writerVars, pipeVars, Complete

(* Steps that touch neither the wire, the channel nor the message in hand. *)
LEMMA OrderUntouched ==
  ASSUME OrderKept, UNCHANGED <<msg, queue, wmsg, after, wire>>, broken => broken',
         Held' = Held, \A c \in Callers : pc'[c] = "inline" => pc[c] = "inline"
  PROVE  OrderKept'
<1>1. \A e : Complete(e) = Complete(e)'
  BY DEF Complete
<1>2. QED
  BY <1>1 DEF OrderKept

(* What a message waits behind stays ahead of it, wherever the message is. *)
LEMMA NextOrderKept ==
  ASSUME TypeOK, LockOwned, HandOffAccounted, HistoryOK, WriteUnderWay,
         AcceptedNotLost, OrderKept, [Next]_vars
  PROVE  OrderKept'
<1> USE DEF OrderKept, callerVars, writerVars, pipeVars, history
<1>1. ASSUME NEW c \in Callers, NEW m \in Message, Claim(c, m) \/ Refuse(c, m)
      PROVE  OrderKept'
  <2>1. Begin(c, m)
    BY <1>1 DEF Claim, Refuse
  <2>2. \A d \in Callers : pc'[d] = "inline" =>
           pc[d] = "inline" /\ msg'[d] = msg[d] /\ msg[d] \in begun
    BY <1>1, ZenonT(60) DEF Claim, Refuse, Begin, TypeOK, HistoryOK
  <2>3. /\ \A i \in 1 .. Len(queue) : queue[i] \in begun
        /\ Held => wmsg \in begun
    BY DEF HistoryOK
  <2>4. QED
    BY <2>1, <2>2, <2>3, BeginKeepsAfter DEF Held
<1>2. ASSUME NEW c \in Callers, GoInline(c), ~broken
      PROVE  OrderKept'
  <2>1. queue = <<>> /\ ~Held
    BY <1>2, CountedWhileOwed DEF GoInline
  <2>2. \A e \in done : Complete(e)
    BY <1>2, <2>1 DEF AcceptedNotLost
  <2>3. after[msg[c]] \subseteq done
    BY <1>2 DEF GoInline, HistoryOK, TypeOK
  <2>4. \A e : Complete(e) => Complete(e)'
    BY <1>2 DEF GoInline, Complete
  <2>5. /\ UNCHANGED <<msg, queue, wpc, wmsg, after>>
        /\ \A d \in Callers : pc'[d] = "inline" => pc[d] = "inline" \/ d = c
    BY <1>2 DEF GoInline, TypeOK
  <2>6. QED
    BY <1>2, <2>1, <2>2, <2>3, <2>4, <2>5 DEF Held
<1>3. ASSUME NEW c \in Callers, WriteInline(c), ~broken
      PROVE  OrderKept'
  <2>1. \A e : Complete(e) => Complete(e)'
    BY <1>3, InlineCompletes
  <2>2. /\ UNCHANGED <<msg, queue, wpc, wmsg, after>>
        /\ \A d \in Callers : pc'[d] = "inline" => pc[d] = "inline"
    BY <1>3 DEF WriteInline, Return, TypeOK
  <2>3. QED
    BY <1>3, <2>1, <2>2 DEF Held
<1>4. ASSUME NEW c \in Callers, HandOff(c) \/ CountRefused(c)
      PROVE  OrderKept'
  <2>1. \A d \in Callers : pc'[d] = "inline" => pc[d] = "inline"
    BY <1>4 DEF HandOff, CountRefused, TypeOK
  <2>2. UNCHANGED <<msg, queue, wpc, wmsg, after, wire, broken>>
    BY <1>4 DEF HandOff, CountRefused
  <2>3. QED
    BY <2>1, <2>2, OrderUntouched DEF Held
<1>5. ASSUME NEW c \in Callers, Enqueue(c), ~broken
      PROVE  OrderKept'
  <2>1. ReceiverAlive
    BY <1>5 DEF WriteUnderWay, ReceiverAlive
  <2>2. /\ UNCHANGED <<msg, wpc, wmsg, after, wire>>
        /\ \A d \in Callers : pc'[d] = "inline" => pc[d] = "inline"
        /\ queue' = Append(queue, msg[c]) /\ msg[c] \in Message /\ msg[c] \in begun
    BY <1>5, <2>1 DEF Enqueue, Return, TypeOK, HistoryOK
  <2>3. /\ Len(queue) \in Nat /\ Len(queue') = Len(queue) + 1
        /\ queue'[Len(queue) + 1] = msg[c]
        /\ \A i \in 1 .. Len(queue) : queue'[i] = queue[i]
    BY <2>2, QueueAppend DEF TypeOK
  <2>4. \A e : Complete(e) => Complete(e)'
    BY <2>2 DEF Complete
  <2>5. \A e \in after[msg[c]] :
           Complete(e) \/ (Held /\ wmsg = e) \/ \E j \in 1 .. Len(queue) : queue[j] = e
    BY <1>5, <2>2 DEF HistoryOK, AcceptedNotLost
  <2>6. ASSUME NEW i \in 1 .. Len(queue'), NEW e \in after'[queue'[i]]
        PROVE  Complete(e)' \/ (Held' /\ wmsg' = e) \/ \E j \in 1 .. i - 1 : queue'[j] = e
    <3>1. CASE i = Len(queue) + 1
      BY <2>2, <2>3, <2>4, <2>5, <3>1 DEF Held
    <3>2. CASE i # Len(queue) + 1
      <4>1. i \in 1 .. Len(queue) /\ queue'[i] = queue[i]
        BY <2>3, <3>2
      <4>2. Complete(e) \/ (Held /\ wmsg = e) \/ \E j \in 1 .. i - 1 : queue[j] = e
        BY <1>5, <2>2, <4>1
      <4>3. QED
        BY <2>2, <2>3, <2>4, <4>1, <4>2 DEF Held
    <3>3. QED
      BY <3>1, <3>2
  <2>7. QED
    BY <1>5, <2>2, <2>4, <2>6 DEF Held
<1>6. ASSUME Receive, ~broken
      PROVE  OrderKept'
  <2>1. /\ Len(queue) >= 1 /\ Len(queue) \in Nat /\ Len(queue') = Len(queue) - 1
        /\ \A i \in 1 .. Len(queue') : queue'[i] = queue[i + 1]
        /\ wmsg' = queue[1] /\ ~Held /\ Held'
    BY <1>6, QueueTail DEF Receive, Held, TypeOK
  <2>2. UNCHANGED <<pc, msg, after>> /\ \A e : Complete(e) => Complete(e)'
    BY <1>6 DEF Receive, Complete
  <2>3. \A e \in after'[wmsg'] : Complete(e)'
    BY <1>6, <2>1, <2>2
  <2>4. ASSUME NEW i \in 1 .. Len(queue'), NEW e \in after'[queue'[i]]
        PROVE  Complete(e)' \/ wmsg' = e \/ \E j \in 1 .. i - 1 : queue'[j] = e
    <3>1. i + 1 \in 1 .. Len(queue) /\ queue'[i] = queue[i + 1]
      BY <2>1
    <3>2. Complete(e) \/ \E j \in 1 .. i : queue[j] = e
      BY <1>6, <2>1, <2>2, <3>1
    <3>3. ASSUME NEW j \in 1 .. i, queue[j] = e, j # 1
          PROVE  j - 1 \in 1 .. i - 1 /\ queue'[j - 1] = e
      BY <2>1, <3>3
    <3>4. QED
      BY <2>1, <2>2, <3>2, <3>3
  <2>5. QED
    BY <1>6, <2>1, <2>2, <2>3, <2>4
<1>7. ASSUME WriteChunk PROVE OrderKept'
  <2>1. <<wmsg, out + 1>> \in Chunk
    BY <1>7 DEF WriteChunk, Chunk, TypeOK
  <2>2. \A e : Complete(e) => Complete(e)'
    BY <1>7, <2>1, CompleteStays DEF WriteChunk
  <2>3. QED
    BY <1>7, <2>2 DEF WriteChunk, Held
<1>8. ASSUME FinishWrite PROVE OrderKept'
  <2>1. wmsg.len > 0
    BY <1>8, LengthsArePositive DEF FinishWrite, TypeOK, Message
  <2>2. Complete(wmsg)
    BY <1>8, <2>1 DEF FinishWrite, WriteUnderWay, Complete
  <2>3. /\ UNCHANGED <<pc, msg, queue, wmsg, after, broken>> /\ ~Held'
        /\ \A e : Complete(e) => Complete(e)'
    BY <1>8 DEF FinishWrite, Held, Complete
  <2>4. QED
    BY <2>2, <2>3
<1>9. ASSUME LockWriter PROVE OrderKept'
  BY <1>9, OrderUntouched DEF LockWriter, Held
<1>10. ASSUME Peer PROVE OrderKept'
  BY <1>10, OrderUntouched DEF Peer, PeerReads, PeerGone, Held
<1>11. CASE UNCHANGED vars
  BY <1>11, OrderUntouched DEF vars, Held
<1>12. ASSUME broken, Next PROVE OrderKept'
  <2>1. broken'
    BY <1>12 DEF Next, Caller, Sending, WriterThread, Peer, Claim, Refuse, Begin, GoInline,
       WriteInline, HandOff, CountRefused, Enqueue, Receive, LockWriter, WriteChunk,
       FinishWrite, FailWrite, EndWriter, PeerReads, PeerGone
  <2>2. QED
    BY <2>1
<1>13. ASSUME FailWrite \/ EndWriter PROVE broken
  BY <1>13 DEF FailWrite, EndWriter, WriteUnderWay
<1>14. QED
  BY <1>1, <1>2, <1>3, <1>4, <1>5, <1>6, <1>7, <1>8, <1>9, <1>10, <1>11, <1>12, <1>13
     DEF Next, Caller, Sending, WriterThread

(* Only the two writes touch the wire, and each puts its message behind     *)
(* everything the message may not overtake.                                 *)
LEMMA NextNothingOvertaken ==
  ASSUME TypeOK, HistoryOK, OrderKept, NothingOvertaken, [Next]_vars
  PROVE  NothingOvertaken'
<1> USE DEF NothingOvertaken, callerVars, writerVars, pipeVars, history
<1>0. Len(wire) \in Nat
  BY DEF TypeOK
<1>1. ASSUME NEW m, NEW k, <<m, k>> \in Chunk, wire' = Append(wire, <<m, k>>),
             after' = after, \A e \in after[m] : Complete(e)
      PROVE  NothingOvertaken'
  <2>1. /\ Len(wire') = Len(wire) + 1 /\ wire'[Len(wire) + 1] = <<m, k>>
        /\ \A i \in 1 .. Len(wire) : wire'[i] = wire[i]
    BY <1>1, WireAppend
  <2>2. ASSUME NEW i \in 1 .. Len(wire'), NEW e \in after'[wire'[i][1]]
        PROVE  \E j \in 1 .. i - 1 : wire'[j] = <<e, e.len>>
    <3>1. CASE i = Len(wire) + 1
      <4>1. wire'[i][1] = m
        BY <2>1, <3>1
      <4>2. Complete(e)
        BY <1>1, <2>2, <4>1
      <4>3. QED
        BY <1>0, <2>1, <3>1, <4>2 DEF Complete
    <3>2. CASE i # Len(wire) + 1
      <4>1. i \in 1 .. Len(wire) /\ wire'[i] = wire[i]
        BY <1>0, <2>1, <3>2
      <4>2. PICK j \in 1 .. i - 1 : wire[j] = <<e, e.len>>
        BY <1>1, <2>2, <4>1
      <4>3. QED
        BY <1>0, <2>1, <4>1, <4>2
    <3>3. QED
      BY <3>1, <3>2
  <2>3. QED
    BY <2>2
<1>2. ASSUME NEW c \in Callers, NEW m \in Message, Claim(c, m) \/ Refuse(c, m)
      PROVE  NothingOvertaken'
  <2>1. Begin(c, m)
    BY <1>2 DEF Claim, Refuse
  <2>2. wire' = wire /\ \A i \in 1 .. Len(wire) : after'[wire[i][1]] = after[wire[i][1]]
    BY <2>1, BeginKeepsAfter DEF HistoryOK
  <2>3. QED
    BY <2>2, ZenonT(60)
<1>3. ASSUME NEW c \in Callers, WriteInline(c)
      PROVE  NothingOvertaken'
  <2>1. <<msg[c], 1>> \in Chunk /\ after' = after
    BY <1>3 DEF WriteInline, Return, TypeOK, Chunk
  <2>2. CASE broken
    BY <1>3, <2>1, <2>2 DEF WriteInline
  <2>3. CASE ~broken
    <3>1. wire' = Append(wire, <<msg[c], 1>>) /\ \A e \in after[msg[c]] : Complete(e)
      BY <1>3, <2>3 DEF WriteInline, OrderKept
    <3>2. QED
      BY <1>1, <2>1, <3>1
  <2>4. QED
    BY <2>2, <2>3
<1>4. ASSUME WriteChunk PROVE NothingOvertaken'
  <2>1. <<wmsg, out + 1>> \in Chunk /\ after' = after
    BY <1>4 DEF WriteChunk, TypeOK, Chunk
  <2>2. wire' = Append(wire, <<wmsg, out + 1>>) /\ \A e \in after[wmsg] : Complete(e)
    BY <1>4 DEF WriteChunk, OrderKept, Held
  <2>3. QED
    BY <1>1, <2>1, <2>2
<1>5. CASE UNCHANGED <<wire, after>>
  <2>1. wire' = wire /\ \A i \in 1 .. Len(wire) : after'[wire[i][1]] = after[wire[i][1]]
    BY <1>5
  <2>2. QED
    BY <2>1
<1>6. QED
  BY <1>2, <1>3, <1>4, <1>5
     DEF Next, vars, Caller, Sending, WriterThread, Peer, GoInline, HandOff, CountRefused,
         Enqueue, Return, Receive, LockWriter, FinishWrite, FailWrite, EndWriter,
         PeerReads, PeerGone

-----------------------------------------------------------------------------
(* The theorems.                                                           *)

(* The inductive invariant holds initially. *)
LEMMA InitIInv == Init => IInv
<1> SUFFICES ASSUME Init PROVE IInv
  OBVIOUS
<1>1. TypeOK
  BY InitTypeOK
<1>2. HandOffAccounted
  <2>1. InFlight = {} /\ Len(queue) = 0 /\ ~Held /\ handedOff = 0
    BY DEF Init, InFlight, Held
  <2>2. QED
    BY <2>1, FS_EmptySet DEF HandOffAccounted
<1>3. LockOwned /\ HistoryOK /\ WriteUnderWay
  BY ThreadsDistinct DEF Init, LockOwned, HistoryOK, WriteUnderWay, Held
<1>4. InlineNeverParks /\ AcceptedNotLost /\ OrderKept /\ NothingOvertaken
  BY DEF Init, InlineNeverParks, AcceptedNotLost, OrderKept, NothingOvertaken, Held
<1>5. QED
  BY <1>1, <1>2, <1>3, <1>4 DEF IInv

(* Every step keeps it. *)
LEMMA NextIInv == IInv /\ [Next]_vars => IInv'
BY NextTypeOK, NextHandOffAccounted, NextLockOwned, NextHistoryOK, NextWriteUnderWay,
   NextInlineNeverParks, NextAcceptedNotLost, NextOrderKept, NextNothingOvertaken
   DEF IInv

(* The inductive invariant holds of the write side, for any number of       *)
(* callers and messages.                                                    *)
THEOREM InductiveInvariant == Spec => []IInv
BY InitIInv, NextIInv, PTL DEF Spec

(* outbox.rs keeps every variable in its type: handed_off, an unsigned      *)
(* counter, never goes below zero.                                          *)
THEOREM TypeCorrect == Spec => []TypeOK
<1>1. IInv => TypeOK
  BY DEF IInv
<1>2. QED
  BY <1>1, InductiveInvariant, PTL

(* "Nothing may be overtaken" (outbox.rs module doc): messages reach nvim   *)
(* in the order their sends were made, across threads and across both paths. *)
THEOREM OrderIsKept == Spec => []NothingOvertaken
<1>1. IInv => NothingOvertaken
  BY DEF IInv
<1>2. QED
  BY <1>1, InductiveInvariant, PTL

(* "The caller may not block": a caller that goes inline always has the     *)
(* room, or its write fails at once.                                        *)
THEOREM CallerNeverParks == Spec => []InlineNeverParks
<1>1. IInv => InlineNeverParks
  BY DEF IInv
<1>2. QED
  BY <1>1, InductiveInvariant, PTL

(* handed_off counts exactly the messages that have not left, and while the *)
(* pipe stands an accepted message is written or still owed.                *)
THEOREM OwedIsCounted == Spec => [](HandOffAccounted /\ AcceptedNotLost)
<1>1. IInv => HandOffAccounted /\ AcceptedNotLost
  BY DEF IInv
<1>2. QED
  BY <1>1, InductiveInvariant, PTL

-----------------------------------------------------------------------------
(* Frames come out whole.  The shape of the wire is not inductive: a frame *)
(* begins behind a whole one because only the lock's holder writes, and is *)
(* not written twice because a message has one home: its caller, the       *)
(* channel, the writer thread's hands, the wire.                           *)

OnWire(m) == \E i \in 1 .. Len(wire) : wire[i][1] = m

(* The writer thread's message is on the wire in part or whole. *)
UnderWay == wpc = "writing" /\ out > 0

CallersOwn ==
  \A c \in Callers : pc[c] # "idle" =>
    /\ ~OnWire(msg[c])
    /\ ~(Held /\ wmsg = msg[c])
    /\ \A i \in 1 .. Len(queue) : queue[i] # msg[c]

ChannelOwns ==
  \A i \in 1 .. Len(queue) :
    /\ ~OnWire(queue[i])
    /\ ~(Held /\ wmsg = queue[i])
    /\ \A j \in 1 .. i - 1 : queue[j] # queue[i]

ThreadOwns == Held /\ ~UnderWay => ~OnWire(wmsg)

OneHome == CallersOwn /\ ChannelOwns /\ ThreadOwns

(* The wire ends in the chunk the writer thread put there last, or in the   *)
(* last chunk of a message; once it is broken nothing follows.              *)
LastWhole ==
  /\ UnderWay => Len(wire) > 0 /\ wire[Len(wire)] = <<wmsg, out>>
  /\ ~broken /\ Len(wire) > 0 /\ ~UnderWay =>
       wire[Len(wire)][2] = wire[Len(wire)][1].len

FramesInv == IInv /\ OneHome /\ LastWhole /\ FramesWhole

-----------------------------------------------------------------------------
(* The wire and its messages.                                              *)

(* A chunk appended puts its message on the wire and no other. *)
LEMMA AppendOnWire ==
  ASSUME TypeOK, NEW m \in Message, NEW k \in Nat, wire' = Append(wire, <<m, k>>)
  PROVE  \A x : OnWire(x)' => OnWire(x) \/ x = m
<1>1. <<m, k>> \in Chunk /\ Len(wire) \in Nat
  BY DEF Chunk, TypeOK
<1>2. /\ Len(wire') = Len(wire) + 1
      /\ wire'[Len(wire) + 1] = <<m, k>>
      /\ \A i \in 1 .. Len(wire) : wire'[i] = wire[i]
  BY <1>1, WireAppend
<1>3. SUFFICES ASSUME NEW x, NEW i \in 1 .. Len(wire'), wire'[i][1] = x
               PROVE  OnWire(x) \/ x = m
  BY DEF OnWire
<1>4. CASE i \in 1 .. Len(wire)
  BY <1>2, <1>3, <1>4 DEF OnWire
<1>5. CASE i = Len(wire) + 1
  BY <1>2, <1>3, <1>5
<1>6. QED
  BY <1>1, <1>2, <1>4, <1>5

(* A first chunk behind a whole message, or a next chunk behind the one     *)
(* before it, leaves the frames whole.                                      *)
LEMMA AppendFrame ==
  ASSUME TypeOK, FramesWhole, NEW m \in Message, NEW k \in Nat \ {0},
         wire' = Append(wire, <<m, k>>),
         k = 1 => /\ ~OnWire(m)
                  /\ Len(wire) > 0 => wire[Len(wire)][2] = wire[Len(wire)][1].len,
         k > 1 => Len(wire) > 0 /\ wire[Len(wire)] = <<m, k - 1>>
  PROVE  FramesWhole'
<1>1. <<m, k>> \in Chunk /\ Len(wire) \in Nat
  BY DEF Chunk, TypeOK
<1>2. /\ Len(wire') = Len(wire) + 1
      /\ wire'[Len(wire) + 1] = <<m, k>>
      /\ \A i \in 1 .. Len(wire) : wire'[i] = wire[i]
  BY <1>1, WireAppend
<1>3. SUFFICES ASSUME NEW i \in 1 .. Len(wire')
               PROVE  /\ wire'[i][2] > 1 =>
                           i > 1 /\ wire'[i - 1] = <<wire'[i][1], wire'[i][2] - 1>>
                      /\ wire'[i][2] = 1 =>
                           /\ i > 1 => wire'[i - 1][2] = wire'[i - 1][1].len
                           /\ \A j \in 1 .. i - 1 : wire'[j] # wire'[i]
  BY DEF FramesWhole
<1>4. CASE i \in 1 .. Len(wire)
  <2>1. \A j \in 1 .. i : wire'[j] = wire[j]
    BY <1>1, <1>2, <1>4
  <2>2. i > 1 => i - 1 \in 1 .. i
    BY <1>4
  <2>3. wire'[i] = wire[i] /\ (i > 1 => wire'[i - 1] = wire[i - 1])
    BY <1>4, <2>1, <2>2
  <2>4. \A j \in 1 .. i - 1 : wire'[j] = wire[j]
    BY <1>4, <2>1
  <2>5. QED
    BY <1>4, <2>3, <2>4 DEF FramesWhole
<1>5. CASE i = Len(wire) + 1
  <2>1. wire'[i][1] = m /\ wire'[i][2] = k /\ i - 1 = Len(wire)
    BY <1>1, <1>2, <1>5
  <2>2. Len(wire) > 0 => wire'[i - 1] = wire[Len(wire)]
    BY <1>1, <1>2, <2>1
  <2>3. i > 1 <=> Len(wire) > 0
    BY <1>1, <2>1
  <2>4. k = 1 => \A j \in 1 .. i - 1 : wire'[j] # wire'[i]
    BY <1>2, <2>1 DEF OnWire
  <2>5. k > 1 => i > 1 /\ wire'[i - 1] = <<m, k - 1>>
    BY <2>2, <2>3
  <2>6. k = 1 /\ i > 1 => wire'[i - 1][2] = wire'[i - 1][1].len
    BY <2>2, <2>3
  <2>7. QED
    BY ONLY <2>1, <2>4, <2>5, <2>6, Zenon
<1>6. QED
  BY <1>1, <1>2, <1>4, <1>5, SMTT(30)

-----------------------------------------------------------------------------
(* The steps.                                                              *)

(* The writes end the wire in a whole message, or in the chunk under way;   *)
(* an inline write holds the lock, so none is under way.                    *)
LEMMA NextLastWhole ==
  ASSUME TypeOK, LockOwned, WriteUnderWay, LastWhole, [Next]_vars
  PROVE  LastWhole'
<1> USE DEF LastWhole, UnderWay, callerVars, writerVars, pipeVars, history
<1>1. ASSUME NEW c \in Callers, NEW m \in Message, Claim(c, m) \/ Refuse(c, m)
      PROVE  LastWhole'
  BY <1>1 DEF Claim, Refuse, Begin
<1>2. ASSUME NEW c \in Callers, GoInline(c) \/ HandOff(c) \/ CountRefused(c) \/ Enqueue(c)
      PROVE  LastWhole'
  BY <1>2 DEF GoInline, HandOff, CountRefused, Enqueue, Return
<1>3. ASSUME NEW c \in Callers, WriteInline(c)
      PROVE  LastWhole'
  <2>1. wpc # "writing" /\ wpc' = wpc /\ broken' = broken
    BY <1>3, ThreadsDistinct DEF WriteInline, LockOwned
  <2>2. CASE broken
    BY <2>1, <2>2
  <2>3. CASE ~broken
    <3>1. msg[c] \in Message /\ msg[c].len = 1 /\ wire' = Append(wire, <<msg[c], 1>>)
      BY <1>3, <2>3 DEF WriteInline, TypeOK, WriteUnderWay
    <3>2. <<msg[c], 1>> \in Chunk
      BY <3>1 DEF Chunk
    <3>3. wire'[Len(wire')] = <<msg[c], 1>>
      BY <3>1, <3>2, WireAppend
    <3>4. QED
      BY <2>1, <3>1, <3>3
  <2>4. QED
    BY <2>2, <2>3
<1>4. ASSUME WriteChunk PROVE LastWhole'
  <2>1. wmsg \in Message /\ out \in Nat /\ wire' = Append(wire, <<wmsg, out + 1>>)
    BY <1>4 DEF WriteChunk, TypeOK
  <2>2. <<wmsg, out + 1>> \in Chunk /\ Len(wire) \in Nat
    BY <2>1 DEF Chunk, TypeOK
  <2>3. Len(wire') > 0 /\ wire'[Len(wire')] = <<wmsg, out + 1>>
    BY <2>1, <2>2, WireAppend
  <2>4. UnderWay' /\ wmsg' = wmsg /\ out' = out + 1
    BY <1>4, <2>1 DEF WriteChunk
  <2>5. QED
    BY <2>3, <2>4
<1>5. ASSUME Receive \/ LockWriter \/ EndWriter PROVE LastWhole'
  BY <1>5 DEF Receive, LockWriter, EndWriter
<1>6. ASSUME FinishWrite \/ FailWrite PROVE LastWhole'
  <2>1. wire' = wire /\ broken' = broken /\ ~UnderWay'
    BY <1>6 DEF FinishWrite, FailWrite
  <2>2. CASE broken
    BY <2>1, <2>2
  <2>3. CASE ~broken
    <3>1. out = wmsg.len /\ out \in Nat /\ wpc = "writing" /\ wmsg \in Message
      BY <1>6, <2>3 DEF FinishWrite, FailWrite, TypeOK
    <3>2. out > 0
      BY <3>1, LengthsArePositive DEF Message
    <3>3. QED
      BY <2>1, <3>1, <3>2
  <2>4. QED
    BY <2>2, <2>3
<1>7. ASSUME Peer PROVE LastWhole'
  BY <1>7 DEF Peer, PeerReads, PeerGone
<1>8. CASE UNCHANGED vars
  BY <1>8 DEF vars
<1>9. QED
  BY <1>1, <1>2, <1>3, <1>4, <1>5, <1>6, <1>7, <1>8 DEF Next, Caller, Sending, WriterThread

(* A chunk goes behind a whole message, or behind the chunk before it.      *)
LEMMA NextFramesWhole ==
  ASSUME TypeOK, LockOwned, WriteUnderWay, OneHome, LastWhole, FramesWhole, [Next]_vars
  PROVE  FramesWhole'
<1>1. ASSUME wire' = wire PROVE FramesWhole'
  BY <1>1 DEF FramesWhole
<1>2. ASSUME NEW c \in Callers, WriteInline(c), ~broken
      PROVE  FramesWhole'
  <2>1. msg[c] \in Message /\ wire' = Append(wire, <<msg[c], 1>>)
    BY <1>2 DEF WriteInline, TypeOK
  <2>2. ~UnderWay
    BY <1>2, ThreadsDistinct DEF WriteInline, LockOwned, UnderWay
  <2>3. ~OnWire(msg[c])
    BY <1>2 DEF WriteInline, OneHome, CallersOwn
  <2>4. Len(wire) > 0 => wire[Len(wire)][2] = wire[Len(wire)][1].len
    BY <1>2, <2>2 DEF LastWhole
  <2>5. QED
    BY <2>1, <2>3, <2>4, AppendFrame
<1>3. ASSUME WriteChunk PROVE FramesWhole'
  <2>1. wmsg \in Message /\ out \in Nat /\ wire' = Append(wire, <<wmsg, out + 1>>)
    BY <1>3 DEF WriteChunk, TypeOK
  <2>2. wpc = "writing" /\ ~broken
    BY <1>3 DEF WriteChunk
  <2>3. out = 0 => /\ ~OnWire(wmsg)
                   /\ Len(wire) > 0 => wire[Len(wire)][2] = wire[Len(wire)][1].len
    BY <2>1, <2>2 DEF OneHome, ThreadOwns, UnderWay, Held, LastWhole
  <2>4. out > 0 => Len(wire) > 0 /\ wire[Len(wire)] = <<wmsg, out + 1 - 1>>
    BY <2>1, <2>2 DEF UnderWay, LastWhole
  <2>5. out + 1 \in Nat \ {0} /\ (out + 1 = 1 <=> out = 0) /\ (out + 1 > 1 <=> out > 0)
    BY <2>1
  <2>6. QED
    BY <2>1, <2>3, <2>4, <2>5, AppendFrame
<1>4. ASSUME NEW c \in Callers, WriteInline(c), broken
      PROVE  wire' = wire
  BY <1>4 DEF WriteInline
<1>5. ASSUME NEW c \in Callers,
             \/ GoInline(c) \/ HandOff(c) \/ CountRefused(c) \/ Enqueue(c)
             \/ \E m \in Message : Claim(c, m) \/ Refuse(c, m)
      PROVE  wire' = wire
  BY <1>5 DEF GoInline, HandOff, CountRefused, Enqueue, Claim, Refuse, Begin, pipeVars
<1>6. ASSUME Receive \/ LockWriter \/ FinishWrite \/ FailWrite \/ EndWriter \/ Peer
      PROVE  wire' = wire
  BY <1>6 DEF Receive, LockWriter, FinishWrite, FailWrite, EndWriter, Peer, PeerReads,
              PeerGone, pipeVars
<1>7. CASE UNCHANGED vars
  BY <1>1, <1>7 DEF vars, pipeVars
<1>8. QED
  BY <1>1, <1>2, <1>3, <1>4, <1>5, <1>6, <1>7 DEF Next, Caller, Sending, WriterThread

(* A message just begun is nowhere yet. *)
LEMMA BegunNowhere ==
  ASSUME TypeOK, HistoryOK, NEW c \in Callers, NEW m \in Message, Begin(c, m)
  PROVE  /\ ~OnWire(m)
         /\ ~(Held /\ wmsg = m)
         /\ \A i \in 1 .. Len(queue) : queue[i] # m
<1>1. m \notin begun
  BY BeginFresh
<1>2. QED
  BY <1>1 DEF HistoryOK, OnWire

(* Who is inside send holds a message nobody else has: only its own send    *)
(* moves it, and that returns.                                              *)
LEMMA NextCallersOwn ==
  ASSUME TypeOK, HistoryOK, OneHome, [Next]_vars
  PROVE  CallersOwn'
<1> USE DEF callerVars, writerVars, pipeVars, history
<1>1. ASSUME NEW c \in Callers, NEW m \in Message, Claim(c, m) \/ Refuse(c, m)
      PROVE  CallersOwn'
  <2>1. Begin(c, m) /\ pc' = [pc EXCEPT ![c] = pc'[c]]
    BY <1>1 DEF Claim, Refuse, TypeOK
  <2>2. /\ msg' = [msg EXCEPT ![c] = m] /\ wire' = wire /\ queue' = queue
        /\ Held' = Held /\ wmsg' = wmsg
    BY <2>1 DEF Begin, Held
  <2>3. \A d \in Callers \ {c} : pc'[d] = pc[d] /\ msg'[d] = msg[d]
    BY <2>1, <2>2 DEF TypeOK
  <2>4. msg'[c] = m
    BY <2>2 DEF TypeOK
  <2>5. QED
    BY <2>1, <2>2, <2>3, <2>4, BegunNowhere DEF OneHome, CallersOwn, OnWire
<1>2. ASSUME NEW c \in Callers, GoInline(c) \/ HandOff(c) \/ CountRefused(c)
      PROVE  CallersOwn'
  <2>1. /\ msg' = msg /\ wire' = wire /\ queue' = queue /\ Held' = Held /\ wmsg' = wmsg
        /\ pc[c] # "idle"
    BY <1>2 DEF GoInline, HandOff, CountRefused, Held
  <2>2. \A d \in Callers : pc'[d] # "idle" => pc[d] # "idle"
    BY <1>2 DEF GoInline, HandOff, CountRefused, TypeOK
  <2>3. QED
    BY <2>1, <2>2 DEF OneHome, CallersOwn, OnWire
<1>3. ASSUME NEW c \in Callers, WriteInline(c) \/ Enqueue(c)
      PROVE  CallersOwn'
  <2>1. pc'[c] = "idle" /\ pc[c] # "idle" /\ msg[c] \in Message
    BY <1>3 DEF WriteInline, Enqueue, Return, TypeOK
  <2>2. msg' = msg /\ Held' = Held /\ wmsg' = wmsg
    BY <1>3 DEF WriteInline, Enqueue, Return, Held
  <2>3. SUFFICES ASSUME NEW d \in Callers, pc'[d] # "idle"
                 PROVE  /\ ~OnWire(msg[d])'
                        /\ ~(Held /\ wmsg = msg[d])
                        /\ \A i \in 1 .. Len(queue') : queue'[i] # msg[d]
    BY <2>2 DEF CallersOwn, OnWire
  <2>4. d # c /\ pc[d] # "idle"
    BY <1>3, <2>1, <2>3 DEF WriteInline, Enqueue, Return, TypeOK
  <2>5. msg[d] # msg[c]
    BY <2>1, <2>4 DEF HistoryOK
  <2>6. /\ ~OnWire(msg[d]) /\ ~(Held /\ wmsg = msg[d])
        /\ \A i \in 1 .. Len(queue) : queue[i] # msg[d]
    BY <2>4 DEF OneHome, CallersOwn
  <2>7. ~OnWire(msg[d])'
    <3>1. CASE wire' = wire
      BY <2>2, <2>6, <3>1 DEF OnWire
    <3>2. CASE wire' = Append(wire, <<msg[c], 1>>)
      BY <2>1, <2>2, <2>5, <2>6, <3>2, AppendOnWire
    <3>3. QED
      BY <1>3, <3>1, <3>2 DEF WriteInline, Enqueue
  <2>8. \A i \in 1 .. Len(queue') : queue'[i] # msg[d]
    <3>1. CASE queue' = queue
      BY <2>6, <3>1
    <3>2. CASE queue' = Append(queue, msg[c])
      BY <2>1, <2>5, <2>6, <3>2, QueueAppend DEF TypeOK
    <3>3. QED
      BY <1>3, <3>1, <3>2 DEF WriteInline, Enqueue
  <2>9. QED
    BY <2>6, <2>7, <2>8
<1>4. ASSUME Receive PROVE CallersOwn'
  <2>1. /\ pc' = pc /\ msg' = msg /\ wire' = wire /\ queue # <<>> /\ queue' = Tail(queue)
        /\ wmsg' = Head(queue)
    BY <1>4 DEF Receive
  <2>2. /\ wmsg' = queue[1] /\ Len(queue) >= 1 /\ Len(queue') = Len(queue) - 1
        /\ \A i \in 1 .. Len(queue') : queue'[i] = queue[i + 1]
    BY <2>1, QueueTail
  <2>3. /\ Len(queue) \in Nat /\ 1 \in 1 .. Len(queue)
        /\ \A i \in 1 .. Len(queue') : i + 1 \in 1 .. Len(queue)
    BY <2>2 DEF TypeOK
  <2>4. QED
    BY <2>1, <2>2, <2>3 DEF OneHome, CallersOwn, OnWire
<1>5. ASSUME WriteChunk PROVE CallersOwn'
  <2>1. wmsg \in Message /\ out + 1 \in Nat /\ wire' = Append(wire, <<wmsg, out + 1>>)
    BY <1>5 DEF WriteChunk, TypeOK
  <2>2. pc' = pc /\ msg' = msg /\ queue' = queue /\ wmsg' = wmsg /\ Held /\ Held'
    BY <1>5 DEF WriteChunk, Held
  <2>3. \A x : OnWire(x)' => OnWire(x) \/ x = wmsg
    BY <2>1, AppendOnWire
  <2>4. QED
    BY <2>2, <2>3 DEF OneHome, CallersOwn, OnWire
<1>6. ASSUME LockWriter \/ FinishWrite \/ FailWrite \/ EndWriter \/ Peer
      PROVE  CallersOwn'
  <2>1. /\ pc' = pc /\ msg' = msg /\ queue' = queue /\ wire' = wire /\ wmsg' = wmsg
        /\ Held' => Held
    BY <1>6 DEF LockWriter, FinishWrite, FailWrite, EndWriter, Peer, PeerReads, PeerGone, Held
  <2>2. QED
    BY <2>1 DEF OneHome, CallersOwn, OnWire
<1>7. CASE UNCHANGED vars
  BY <1>7 DEF vars, OneHome, CallersOwn, OnWire, Held
<1>8. QED
  BY <1>1, <1>2, <1>3, <1>4, <1>5, <1>6, <1>7 DEF Next, Caller, Sending, WriterThread

(* A queued message is in the channel once, and nowhere else: it comes from *)
(* its caller, and leaves for the writer thread's hands.                    *)
LEMMA NextChannelOwns ==
  ASSUME TypeOK, HistoryOK, OneHome, [Next]_vars
  PROVE  ChannelOwns'
<1> USE DEF callerVars, writerVars, pipeVars, history
<1>1. ASSUME queue' = queue, wmsg' = wmsg, wire' = wire, Held' => Held
      PROVE  ChannelOwns'
  BY <1>1 DEF OneHome, ChannelOwns, OnWire
<1>2. ASSUME NEW c \in Callers, Enqueue(c)
      PROVE  ChannelOwns'
  <2>1. CASE queue' = queue
    BY <1>1, <1>2, <2>1 DEF Enqueue, Held
  <2>2. CASE queue' = Append(queue, msg[c])
    <3>1. msg[c] \in Message /\ Len(queue) \in Nat
      BY <1>2 DEF Enqueue, TypeOK
    <3>2. /\ Len(queue') = Len(queue) + 1 /\ queue'[Len(queue) + 1] = msg[c]
          /\ \A i \in 1 .. Len(queue) : queue'[i] = queue[i]
      BY <2>2, <3>1, QueueAppend
    <3>3. wire' = wire /\ wmsg' = wmsg /\ Held' = Held
      BY <1>2 DEF Enqueue, Held
    <3>4. /\ ~OnWire(msg[c]) /\ ~(Held /\ wmsg = msg[c])
          /\ \A j \in 1 .. Len(queue) : queue[j] # msg[c]
      BY <1>2 DEF Enqueue, OneHome, CallersOwn
    <3>5. SUFFICES ASSUME NEW i \in 1 .. Len(queue')
                   PROVE  /\ ~OnWire(queue'[i]) /\ ~(Held /\ wmsg = queue'[i])
                          /\ \A j \in 1 .. i - 1 : queue'[j] # queue'[i]
      BY <3>3 DEF ChannelOwns, OnWire
    <3>6. CASE i \in 1 .. Len(queue)
      <4>1. \A j \in 1 .. i - 1 : queue'[j] = queue[j]
        BY <3>1, <3>2, <3>6
      <4>2. QED
        BY <3>2, <3>6, <4>1 DEF OneHome, ChannelOwns
    <3>7. CASE i = Len(queue) + 1
      <4>1. \A j \in 1 .. i - 1 : queue'[j] = queue[j] /\ queue[j] # msg[c]
        BY <3>1, <3>2, <3>4, <3>7
      <4>2. QED
        BY <3>2, <3>4, <3>7, <4>1
    <3>8. QED
      BY <3>1, <3>2, <3>6, <3>7
  <2>3. QED
    BY <1>2, <2>1, <2>2 DEF Enqueue
<1>3. ASSUME NEW c \in Callers, WriteInline(c)
      PROVE  ChannelOwns'
  <2>1. /\ msg[c] \in Message /\ queue' = queue /\ wmsg' = wmsg /\ Held' = Held
        /\ \A i \in 1 .. Len(queue) : queue[i] # msg[c]
    BY <1>3 DEF WriteInline, Held, TypeOK, OneHome, CallersOwn
  <2>2. CASE wire' = wire
    BY <1>1, <2>1, <2>2
  <2>3. CASE wire' = Append(wire, <<msg[c], 1>>)
    <3>1. \A x : OnWire(x)' => OnWire(x) \/ x = msg[c]
      BY <2>1, <2>3, AppendOnWire
    <3>2. QED
      BY <2>1, <3>1 DEF OneHome, ChannelOwns, OnWire
  <2>4. QED
    BY <1>3, <2>2, <2>3 DEF WriteInline
<1>4. ASSUME Receive PROVE ChannelOwns'
  <2>1. wire' = wire /\ queue # <<>> /\ queue' = Tail(queue) /\ wmsg' = Head(queue)
    BY <1>4 DEF Receive
  <2>2. /\ wmsg' = queue[1] /\ Len(queue) >= 1 /\ Len(queue') = Len(queue) - 1
        /\ \A i \in 1 .. Len(queue') : queue'[i] = queue[i + 1]
    BY <2>1, QueueTail
  <2>3. SUFFICES ASSUME NEW i \in 1 .. Len(queue')
                 PROVE  /\ ~OnWire(queue'[i]) /\ wmsg' # queue'[i]
                        /\ \A j \in 1 .. i - 1 : queue'[j] # queue'[i]
    BY <2>1 DEF ChannelOwns, OnWire
  <2>4. /\ Len(queue) \in Nat /\ i + 1 \in 1 .. Len(queue) /\ 1 \in 1 .. (i + 1) - 1
        /\ \A j \in 1 .. i - 1 : j + 1 \in 1 .. (i + 1) - 1 /\ j \in 1 .. Len(queue')
    BY <2>2 DEF TypeOK
  <2>5. ~OnWire(queue[i + 1]) /\ \A j \in 1 .. (i + 1) - 1 : queue[j] # queue[i + 1]
    BY <2>4 DEF OneHome, ChannelOwns
  <2>6. queue'[i] = queue[i + 1] /\ \A j \in 1 .. i - 1 : queue'[j] = queue[j + 1]
    BY <2>2, <2>4
  <2>7. wmsg' # queue'[i]
    BY <2>2, <2>4, <2>5, <2>6
  <2>8. \A j \in 1 .. i - 1 : queue'[j] # queue'[i]
    BY <2>4, <2>5, <2>6
  <2>9. QED
    BY <2>5, <2>6, <2>7, <2>8
<1>5. ASSUME WriteChunk PROVE ChannelOwns'
  <2>1. wmsg \in Message /\ out + 1 \in Nat /\ wire' = Append(wire, <<wmsg, out + 1>>)
    BY <1>5 DEF WriteChunk, TypeOK
  <2>2. queue' = queue /\ wmsg' = wmsg /\ Held /\ Held'
    BY <1>5 DEF WriteChunk, Held
  <2>3. \A x : OnWire(x)' => OnWire(x) \/ x = wmsg
    BY <2>1, AppendOnWire
  <2>4. QED
    BY <2>2, <2>3 DEF OneHome, ChannelOwns, OnWire
<1>6. ASSUME NEW c \in Callers,
             \/ GoInline(c) \/ HandOff(c) \/ CountRefused(c)
             \/ \E m \in Message : Claim(c, m) \/ Refuse(c, m)
      PROVE  ChannelOwns'
  BY <1>1, <1>6 DEF GoInline, HandOff, CountRefused, Claim, Refuse, Begin, Held
<1>7. ASSUME LockWriter \/ FinishWrite \/ FailWrite \/ EndWriter \/ Peer
      PROVE  ChannelOwns'
  BY <1>1, <1>7 DEF LockWriter, FinishWrite, FailWrite, EndWriter, Peer, PeerReads, PeerGone,
                    Held
<1>8. CASE UNCHANGED vars
  BY <1>1, <1>8 DEF vars, Held
<1>9. QED
  BY <1>2, <1>3, <1>4, <1>5, <1>6, <1>7, <1>8 DEF Next, Caller, Sending, WriterThread

(* Until its first chunk, the message in the writer thread's hands is       *)
(* nowhere on the wire: it comes from the channel.                          *)
LEMMA NextThreadOwns ==
  ASSUME TypeOK, OneHome, [Next]_vars
  PROVE  ThreadOwns'
<1> USE DEF callerVars, writerVars, pipeVars, history
<1>1. ASSUME wmsg' = wmsg, wire' = wire, Held' /\ ~UnderWay' => Held /\ ~UnderWay
      PROVE  ThreadOwns'
  BY <1>1 DEF OneHome, ThreadOwns, OnWire
<1>2. ASSUME NEW c \in Callers, WriteInline(c)
      PROVE  ThreadOwns'
  <2>1. /\ msg[c] \in Message /\ wmsg' = wmsg /\ Held' = Held /\ UnderWay' = UnderWay
        /\ ~(Held /\ wmsg = msg[c])
    BY <1>2 DEF WriteInline, Held, UnderWay, TypeOK, OneHome, CallersOwn
  <2>2. CASE wire' = wire
    BY <1>1, <2>1, <2>2
  <2>3. CASE wire' = Append(wire, <<msg[c], 1>>)
    <3>1. \A x : OnWire(x)' => OnWire(x) \/ x = msg[c]
      BY <2>1, <2>3, AppendOnWire
    <3>2. QED
      BY <2>1, <3>1 DEF OneHome, ThreadOwns, OnWire
  <2>4. QED
    BY <1>2, <2>2, <2>3 DEF WriteInline
<1>3. ASSUME Receive PROVE ThreadOwns'
  <2>1. wire' = wire /\ queue # <<>> /\ queue' = Tail(queue) /\ wmsg' = Head(queue)
    BY <1>3 DEF Receive
  <2>2. wmsg' = queue[1] /\ Len(queue) >= 1
    BY <2>1, QueueTail
  <2>3. Len(queue) \in Nat /\ 1 \in 1 .. Len(queue)
    BY <2>2 DEF TypeOK
  <2>4. QED
    BY <2>1, <2>2, <2>3 DEF OneHome, ChannelOwns, ThreadOwns, OnWire
<1>4. ASSUME WriteChunk PROVE ThreadOwns'
  BY <1>4 DEF WriteChunk, ThreadOwns, UnderWay, TypeOK
<1>5. ASSUME LockWriter \/ FinishWrite \/ FailWrite \/ EndWriter \/ Peer
      PROVE  ThreadOwns'
  BY <1>1, <1>5 DEF LockWriter, FinishWrite, FailWrite, EndWriter, Peer, PeerReads, PeerGone,
                    Held, UnderWay
<1>6. ASSUME NEW c \in Callers,
             \/ GoInline(c) \/ HandOff(c) \/ CountRefused(c) \/ Enqueue(c)
             \/ \E m \in Message : Claim(c, m) \/ Refuse(c, m)
      PROVE  ThreadOwns'
  BY <1>1, <1>6 DEF GoInline, HandOff, CountRefused, Enqueue, Claim, Refuse, Begin, Held, UnderWay
<1>7. CASE UNCHANGED vars
  BY <1>1, <1>7 DEF vars, Held, UnderWay
<1>8. QED
  BY <1>2, <1>3, <1>4, <1>5, <1>6, <1>7 DEF Next, Caller, Sending, WriterThread

-----------------------------------------------------------------------------
(* The theorem.                                                            *)

(* Nothing is on the wire, in the channel or in hand at first. *)
LEMMA InitFramesInv == Init => FramesInv
<1> SUFFICES ASSUME Init PROVE FramesInv
  OBVIOUS
<1>1. IInv
  BY InitIInv
<1>2. /\ Len(wire) = 0 /\ Len(queue) = 0 /\ ~Held /\ ~UnderWay
      /\ \A c \in Callers : pc[c] = "idle"
  BY DEF Init, Held, UnderWay
<1>3. OneHome /\ LastWhole /\ FramesWhole
  BY <1>2 DEF OneHome, CallersOwn, ChannelOwns, ThreadOwns, LastWhole, FramesWhole
<1>4. QED
  BY <1>1, <1>3 DEF FramesInv

(* Every step keeps it. *)
LEMMA NextFramesInv == FramesInv /\ [Next]_vars => FramesInv'
<1> SUFFICES ASSUME FramesInv, [Next]_vars PROVE FramesInv'
  OBVIOUS
<1>1. /\ IInv /\ OneHome /\ LastWhole /\ FramesWhole
      /\ TypeOK /\ LockOwned /\ HistoryOK /\ WriteUnderWay
  BY DEF FramesInv, IInv
<1>2. OneHome'
  BY <1>1, NextCallersOwn, NextChannelOwns, NextThreadOwns DEF OneHome
<1>3. QED
  BY <1>1, <1>2, NextIInv, NextLastWhole, NextFramesWhole DEF FramesInv

(* Frames come out whole and once, for any number of callers, messages and  *)
(* chunks: both paths of outbox.rs hold the writer lock over their          *)
(* write_all, and no message takes both.                                    *)
THEOREM FramesStayWhole == Spec => []FramesWhole
<1>1. FramesInv => FramesWhole
  BY DEF FramesInv
<1>2. QED
  BY <1>1, InitFramesInv, NextFramesInv, PTL DEF Spec

-----------------------------------------------------------------------------
(* The write side implements OrderedWire.  A step of the abstract wire is  *)
(* the one that puts a message's last chunk out, or that decides a send's  *)
(* answer; the others stutter.                                             *)

(* The wire's ends are numbered from the first, without a gap. *)
EndsNumbered ==
  \A k \in 1 .. Cardinality(Ends) : \E i \in Ends : RankOf(i) = k

(* What has been answered is no longer its caller's, what was queued has    *)
(* been answered, and the chunk under way is the newest of its message.     *)
Answered ==
  /\ \A c \in Callers : pc[c] # "idle" => msg[c] \notin done
  /\ \A i \in 1 .. Len(queue) : queue[i] \in done
  /\ Held => wmsg \in done
  /\ UnderWay => \A i \in 1 .. Len(wire) : wire[i][1] = wmsg => wire[i][2] <= out

RefinementInv == FramesInv /\ EndsNumbered /\ Answered

(* The ends are finitely many, each has one rank, and a rank is one end's. *)
LEMMA EndsFinite ==
  ASSUME Len(wire) \in Nat
  PROVE  /\ IsFiniteSet(Ends) /\ Cardinality(Ends) \in Nat
         /\ \A i \in Ends : RankOf(i) \in 1 .. Cardinality(Ends)
         /\ \A i, j \in Ends : i < j => RankOf(i) < RankOf(j)
<1>1. IsFiniteSet(Ends) /\ Cardinality(Ends) \in Nat
  <2>1. IsFiniteSet(1 .. Len(wire))
    BY FS_Interval
  <2>2. QED
    BY <2>1, FS_Subset, FS_CardinalityType DEF Ends
<1>2. ASSUME NEW i \in Ends
      PROVE  /\ IsFiniteSet({j \in Ends : j <= i})
             /\ RankOf(i) \in 1 .. Cardinality(Ends)
  <2> DEFINE upto == {j \in Ends : j <= i}
  <2>1. upto \subseteq Ends /\ i \in upto
    BY DEF Ends
  <2>2. IsFiniteSet(upto) /\ Cardinality(upto) <= Cardinality(Ends) /\ Cardinality(upto) \in Nat
    BY <1>1, <2>1, FS_Subset, FS_CardinalityType
  <2>3. Cardinality(upto) # 0
    BY <2>1, <2>2, FS_EmptySet
  <2>4. QED
    BY <1>1, <2>2, <2>3 DEF RankOf
<1>3. ASSUME NEW i \in Ends, NEW j \in Ends, i < j
      PROVE  RankOf(i) < RankOf(j)
  <2>1. {l \in Ends : l <= i} \subseteq {l \in Ends : l <= j}
    BY <1>3 DEF Ends
  <2>2. j \in {l \in Ends : l <= j} /\ j \notin {l \in Ends : l <= i}
    BY <1>3 DEF Ends
  <2>3. IsFiniteSet({l \in Ends : l <= j}) /\ {l \in Ends : l <= i} # {l \in Ends : l <= j}
    BY <1>2, <2>2
  <2>4. /\ RankOf(i) <= RankOf(j) /\ RankOf(i) # RankOf(j)
        /\ RankOf(i) \in Nat /\ RankOf(j) \in Nat
    BY <2>1, <2>3, FS_Subset, FS_CardinalityType DEF RankOf
  <2>5. QED
    BY <2>4
<1>4. QED
  BY <1>1, <1>2, <1>3

(* So the k-th end is the one whose rank is k, and Written has exactly the  *)
(* messages that are complete.                                              *)
LEMMA EndOfRank ==
  ASSUME Len(wire) \in Nat, EndsNumbered
  PROVE  /\ \A k \in 1 .. Cardinality(Ends) : EndNr(k) \in Ends /\ RankOf(EndNr(k)) = k
         /\ \A i \in Ends : EndNr(RankOf(i)) = i
<1>1. ASSUME NEW k \in 1 .. Cardinality(Ends)
      PROVE  EndNr(k) \in Ends /\ RankOf(EndNr(k)) = k
  <2>1. PICK i \in Ends : RankOf(i) = k
    BY DEF EndsNumbered
  <2>2. i \in {j \in Ends : RankOf(j) = k}
    BY <2>1
  <2>3. EndNr(k) \in {j \in Ends : RankOf(j) = k}
    BY <2>2 DEF EndNr
  <2>4. QED
    BY <2>3
<1>2. ASSUME NEW i \in Ends
      PROVE  EndNr(RankOf(i)) = i
  <2>1. RankOf(i) \in 1 .. Cardinality(Ends)
    BY EndsFinite
  <2>2. EndNr(RankOf(i)) \in Ends /\ RankOf(EndNr(RankOf(i))) = RankOf(i)
    BY <1>1, <2>1
  <2>3. ASSUME NEW j \in Ends, RankOf(j) = RankOf(i), j # i
        PROVE  FALSE
    <3>1. i < j \/ j < i
      BY <2>3 DEF Ends
    <3>2. RankOf(i) < RankOf(j) \/ RankOf(j) < RankOf(i)
      BY <3>1, EndsFinite
    <3>3. QED
      BY <2>3, <3>2, <2>1
  <2>4. QED
    BY <2>2, <2>3
<1>3. QED
  BY <1>1, <1>2

LEMMA WrittenIsComplete ==
  ASSUME TypeOK, EndsNumbered
  PROVE  \A m : m \in Ordered!Written <=> Complete(m)
<1>1. Len(wire) \in Nat
  BY DEF TypeOK
<1>2. /\ Len(Written) = Cardinality(Ends)
      /\ \A k \in 1 .. Cardinality(Ends) : Written[k] = wire[EndNr(k)][1]
  BY <1>1, EndsFinite DEF Written
<1>3. Ordered!Written = {Written[k] : k \in 1 .. Len(Written)}
  BY DEF Ordered!Written
<1>4. ASSUME NEW m, m \in Ordered!Written
      PROVE  Complete(m)
  <2>1. PICK k \in 1 .. Cardinality(Ends) : m = wire[EndNr(k)][1]
    BY <1>2, <1>3, <1>4
  <2>2. EndNr(k) \in Ends
    BY <1>1, EndOfRank
  <2>3. PICK i \in Ends : m = wire[i][1]
    BY <2>1, <2>2
  <2>4. i \in 1 .. Len(wire) /\ wire[i] \in Chunk /\ wire[i][2] = wire[i][1].len
    BY <2>3 DEF Ends, TypeOK
  <2>5. wire[i] = <<m, m.len>>
    BY <2>3, <2>4 DEF Chunk
  <2>6. QED
    BY <2>4, <2>5 DEF Complete
<1>5. ASSUME NEW m, Complete(m)
      PROVE  m \in Ordered!Written
  <2>1. PICK i \in 1 .. Len(wire) : wire[i] = <<m, m.len>>
    BY <1>5 DEF Complete
  <2>2. i \in Ends /\ wire[i][1] = m
    BY <2>1 DEF Ends
  <2>3. RankOf(i) \in 1 .. Cardinality(Ends) /\ EndNr(RankOf(i)) = i
    BY <1>1, <2>2, EndsFinite, EndOfRank
  <2>4. Written[RankOf(i)] = m
    BY <1>2, <2>2, <2>3
  <2>5. QED
    BY <1>2, <1>3, <2>3, <2>4
<1>6. QED
  BY <1>4, <1>5

(* A chunk that ends no message adds none; one that ends a message adds it  *)
(* last.                                                                    *)
LEMMA WrittenGrows ==
  ASSUME TypeOK, EndsNumbered, NEW m \in Message, NEW k \in Nat,
         wire' = Append(wire, <<m, k>>)
  PROVE  /\ EndsNumbered'
         /\ k # m.len => Written' = Written
         /\ k = m.len => Written' = Append(Written, m)
<1>0. Len(wire) \in Nat /\ <<m, k>> \in Chunk
  BY DEF TypeOK, Chunk
<1>01. PICK n \in Nat : n = Len(wire) + 1
  BY <1>0
<1>1. /\ Len(wire') = n /\ wire'[n] = <<m, k>> /\ n \in Nat
      /\ \A i \in 1 .. Len(wire) : wire'[i] = wire[i] /\ i # n
  BY <1>0, <1>01, WireAppend
<1>2. \A i \in 1 .. n : i \in 1 .. Len(wire) \/ i = n
  BY <1>0, <1>01
<1>3. \A i \in Ends : i \in 1 .. Len(wire) /\ i < n
  BY <1>0, <1>01 DEF Ends
<1>4. IsFiniteSet(Ends) /\ Cardinality(Ends) \in Nat
      /\ \A i \in Ends : RankOf(i) \in 1 .. Cardinality(Ends)
  BY <1>0, EndsFinite
<1>5. \A j \in 1 .. Cardinality(Ends) : EndNr(j) \in Ends
  BY <1>0, EndOfRank
<1>6. CASE k # m.len
  <2>1. Ends' = Ends
    BY <1>1, <1>2, <1>6 DEF Ends
  <2>2. \A i : RankOf(i)' = RankOf(i)
    BY <2>1 DEF RankOf
  <2>3. \A j : EndNr(j)' = EndNr(j)
    BY <2>1, <2>2 DEF EndNr
  <2>4. EndsNumbered'
    BY <2>1, <2>2 DEF EndsNumbered
  <2>5. \A j \in 1 .. Cardinality(Ends) : wire'[EndNr(j)] = wire[EndNr(j)]
    BY <1>1, <1>3, <1>5
  <2>6. Written' = Written
    BY <2>1, <2>3, <2>5 DEF Written
  <2>7. QED
    BY <1>6, <2>4, <2>6
<1>02. PICK last \in Nat : last = Cardinality(Ends) + 1
  BY <1>4
<1>7. CASE k = m.len
  <2>1. Ends' = Ends \cup {n} /\ n \notin Ends
    BY <1>1, <1>2, <1>7 DEF Ends
  <2>2. Cardinality(Ends') = Cardinality(Ends) + 1
    BY <1>4, <2>1, FS_AddElement
  <2>3. ASSUME NEW i \in Ends PROVE RankOf(i)' = RankOf(i)
    <3>1. {j \in Ends' : j <= i} = {j \in Ends : j <= i}
      BY <1>1, <1>3, <2>1
    <3>2. QED
      BY <3>1 DEF RankOf
  <2>4. RankOf(n)' = last
    <3>1. {j \in Ends' : j <= n} = Ends'
      BY <1>1, <1>3, <2>1
    <3>2. QED
      BY <1>02, <2>2, <3>1 DEF RankOf
  <2>5. ASSUME NEW j \in 1 .. Cardinality(Ends)
        PROVE  EndNr(j)' = EndNr(j)
    <3>1. {i \in Ends' : RankOf(i)' = j} = {i \in Ends : RankOf(i) = j}
      BY <1>4, <1>02, <2>1, <2>3, <2>4
    <3>2. QED
      BY <3>1 DEF EndNr
  <2>6. EndNr(last)' = n
    <3>1. {i \in Ends' : RankOf(i)' = last} = {n}
      <4>1. \A i \in Ends : RankOf(i) # last
        BY <1>4, <1>02
      <4>2. QED
        BY <2>1, <2>3, <2>4, <4>1
    <3>2. QED
      BY <2>2, <3>1 DEF EndNr
  <2>7. EndsNumbered'
    <3>1. SUFFICES ASSUME NEW j \in 1 .. Cardinality(Ends')
                   PROVE  \E i \in Ends' : RankOf(i)' = j
      BY DEF EndsNumbered
    <3>2. CASE j = last
      BY <2>1, <2>4, <3>2
    <3>3. CASE j # last
      <4>1. j \in 1 .. Cardinality(Ends)
        BY <1>4, <1>02, <2>2, <3>3
      <4>2. PICK i \in Ends : RankOf(i) = j
        BY <4>1 DEF EndsNumbered
      <4>3. QED
        BY <2>1, <2>3, <4>2
    <3>4. QED
      BY <3>2, <3>3
  <2>8. \A j \in 1 .. Cardinality(Ends) : wire'[EndNr(j)] = wire[EndNr(j)]
    BY <1>1, <1>3, <1>5
  <2>9. Written' = Append(Written, m)
    <3> DEFINE before == [j \in 1 .. Cardinality(Ends) |-> wire[EndNr(j)][1]]
               behind == [j \in 1 .. Cardinality(Ends') |-> wire'[EndNr(j)'][1]]
    <3>1. behind = [j \in 1 .. last |->
                   IF j \in 1 .. Cardinality(Ends) THEN before[j] ELSE m]
      <4>1. \A j \in 1 .. last :
               wire'[EndNr(j)'][1] = IF j \in 1 .. Cardinality(Ends) THEN before[j] ELSE m
        <5>1. \A j \in 1 .. last :
                 j \in 1 .. Cardinality(Ends) \/ j = last
          BY <1>4, <1>02
        <5>2. wire'[EndNr(last)'][1] = m
          BY <1>1, <2>6
        <5>3. last \notin 1 .. Cardinality(Ends)
          BY <1>4, <1>02
        <5>4. \A j \in 1 .. Cardinality(Ends) : wire'[EndNr(j)'][1] = before[j]
          BY <2>5, <2>8
        <5>5. QED
          BY <5>1, <5>2, <5>3, <5>4
      <4>2. QED
        BY <1>02, <2>2, <4>1
    <3>2. Append(before, m) = [j \in 1 .. last |->
                   IF j \in 1 .. Cardinality(Ends) THEN before[j] ELSE m]
      BY <1>4, <1>02
    <3>3. QED
      BY <3>1, <3>2 DEF Written
  <2>10. QED
    BY <1>7, <2>7, <2>9
<1>8. QED
  BY <1>6, <1>7

(* What is answered is its caller's no longer; it is queued and taken in    *)
(* hand only then, and its chunks come out in their order.                  *)
LEMMA NextAnswered ==
  ASSUME TypeOK, LockOwned, HistoryOK, OneHome, Answered, [Next]_vars
  PROVE  Answered'
<1> USE DEF callerVars, writerVars, pipeVars, history
<1>1. ASSUME NEW c \in Callers, NEW m \in Message, Claim(c, m) \/ Refuse(c, m)
      PROVE  Answered'
  <2>1. m \notin begun /\ Begin(c, m)
    BY <1>1, BeginFresh DEF Claim, Refuse
  <2>2. /\ msg' = [msg EXCEPT ![c] = m] /\ m \notin done
        /\ UNCHANGED <<queue, done, wpc, wmsg, out, wire>>
    BY <2>1 DEF Begin, HistoryOK
  <2>3. \A d \in Callers : pc'[d] # "idle" => pc[d] # "idle" \/ d = c
    BY <1>1 DEF Claim, Refuse, TypeOK
  <2>4. \A d \in Callers : msg'[d] = IF d = c THEN m ELSE msg[d]
    BY <2>2 DEF TypeOK
  <2>5. QED
    BY <2>2, <2>3, <2>4 DEF Answered, Held, UnderWay
<1>2. ASSUME NEW c \in Callers, GoInline(c) \/ HandOff(c) \/ CountRefused(c)
      PROVE  Answered'
  <2>1. /\ \A d \in Callers : pc'[d] # "idle" => pc[d] # "idle"
        /\ UNCHANGED <<msg, queue, done, wpc, wmsg, out, wire>>
    BY <1>2 DEF GoInline, HandOff, CountRefused, TypeOK
  <2>2. QED
    BY <2>1 DEF Answered, Held, UnderWay
<1>3. ASSUME NEW c \in Callers, WriteInline(c) \/ Enqueue(c)
      PROVE  Answered'
  <2>1. /\ UNCHANGED <<msg, wpc, wmsg, out>>
        /\ \A d \in Callers : pc'[d] # "idle" => pc[d] # "idle" /\ d # c
        /\ pc[c] # "idle" /\ msg[c] \in Message
        /\ done' \in {done, done \cup {msg[c]}}
    BY <1>3 DEF WriteInline, Enqueue, Return, TypeOK
  <2>2. \A d \in Callers : pc'[d] # "idle" => msg[d] # msg[c]
    BY <2>1 DEF HistoryOK
  <2>3. \A i \in 1 .. Len(queue') : queue'[i] \in done'
    <3>1. CASE queue' = queue
      BY <2>1, <3>1 DEF Answered
    <3>2. CASE queue' = Append(queue, msg[c]) /\ msg[c] \in done'
      <4>1. \A i \in 1 .. Len(queue') :
               (i \in 1 .. Len(queue) /\ queue'[i] = queue[i]) \/ queue'[i] = msg[c]
        BY <2>1, <3>2, QueueAppend DEF TypeOK
      <4>2. QED
        BY <2>1, <3>2, <4>1 DEF Answered
    <3>3. QED
      BY <1>3, <3>1, <3>2 DEF WriteInline, Enqueue, Return
  <2>4. UnderWay => \A i \in 1 .. Len(wire') : wire'[i][1] = wmsg => wire'[i][2] <= out
    <3>1. CASE wire' = wire
      BY <3>1 DEF Answered
    <3>2. CASE wire' = Append(wire, <<msg[c], 1>>)
      <4>1. UnderWay => msg[c] # wmsg
        BY <2>1 DEF OneHome, CallersOwn, Held, UnderWay
      <4>2. <<msg[c], 1>> \in Chunk
        BY <2>1 DEF Chunk
      <4>3. \A i \in 1 .. Len(wire') :
               (i \in 1 .. Len(wire) /\ wire'[i] = wire[i]) \/ wire'[i] = <<msg[c], 1>>
        BY <3>2, <4>2, WireAppend DEF TypeOK
      <4>4. QED
        BY <4>1, <4>3 DEF Answered
    <3>3. QED
      BY <1>3, <3>1, <3>2 DEF WriteInline, Enqueue
  <2>5. QED
    BY <2>1, <2>2, <2>3, <2>4 DEF Answered, Held, UnderWay
<1>4. ASSUME Receive PROVE Answered'
  <2>1. UNCHANGED <<pc, msg, done>> /\ ~UnderWay' /\ queue # <<>> /\ queue' = Tail(queue)
    BY <1>4 DEF Receive, UnderWay
  <2>2. /\ wmsg' = queue[1] /\ Len(queue) \in Nat /\ Len(queue) >= 1
        /\ Len(queue') = Len(queue) - 1
        /\ \A i \in 1 .. Len(queue') : queue'[i] = queue[i + 1]
    BY <1>4, <2>1, QueueTail DEF Receive, TypeOK
  <2>3. \A i \in 1 .. Len(queue') : i + 1 \in 1 .. Len(queue)
    BY <2>2
  <2>4. QED
    BY <2>1, <2>2, <2>3 DEF Answered
<1>5. ASSUME LockWriter PROVE Answered'
  BY <1>5 DEF LockWriter, Answered, Held, UnderWay
<1>6. ASSUME WriteChunk PROVE Answered'
  <2>1. /\ wmsg \in Message /\ out \in Nat /\ wire' = Append(wire, <<wmsg, out + 1>>)
        /\ UNCHANGED <<pc, msg, queue, done, wpc, wmsg>> /\ out' = out + 1 /\ Held
    BY <1>6 DEF WriteChunk, TypeOK, Held
  <2>2. <<wmsg, out + 1>> \in Chunk
    BY <2>1 DEF Chunk
  <2>3. \A i \in 1 .. Len(wire') :
           (i \in 1 .. Len(wire) /\ wire'[i] = wire[i]) \/ wire'[i] = <<wmsg, out + 1>>
    BY <2>1, <2>2, WireAppend DEF TypeOK
  <2>4. \A i \in 1 .. Len(wire) : wire[i][1] = wmsg => wire[i][2] <= out /\ wire[i][2] \in Nat
    <3>1. \A i \in 1 .. Len(wire) : wire[i][2] \in Nat
      BY DEF TypeOK, Chunk
    <3>2. CASE UnderWay
      BY <3>1, <3>2 DEF Answered
    <3>3. CASE ~UnderWay
      BY <2>1, <3>3 DEF OneHome, ThreadOwns, OnWire
    <3>4. QED
      BY <3>2, <3>3
  <2>5. \A i \in 1 .. Len(wire') : wire'[i][1] = wmsg => wire'[i][2] <= out + 1
    BY <2>1, <2>3, <2>4
  <2>6. QED
    BY <2>1, <2>5 DEF Answered, Held
<1>7. ASSUME FinishWrite \/ FailWrite \/ EndWriter PROVE Answered'
  BY <1>7 DEF FinishWrite, FailWrite, EndWriter, Answered, Held, UnderWay
<1>8. ASSUME Peer PROVE Answered'
  BY <1>8 DEF Peer, PeerReads, PeerGone, Answered, Held, UnderWay
<1>9. CASE UNCHANGED vars
  BY <1>9 DEF vars, Answered, Held, UnderWay
<1>10. QED
  BY <1>1, <1>2, <1>3, <1>4, <1>5, <1>6, <1>7, <1>8, <1>9
     DEF Next, Caller, Sending, WriterThread

(* A message a send holds has not failed; a send that returns decides its   *)
(* own message and leaves every other answer alone.                         *)
LEMMA ReturnDecides ==
  ASSUME TypeOK, HistoryOK, Answered, NEW c \in Callers, pc[c] # "idle",
         NEW ok \in BOOLEAN, Return(c, ok)
  PROVE  /\ msg[c] \in begun \ (done \cup Failed)
         /\ ok => Failed' = Failed
         /\ ~ok => Failed' = Failed \cup {msg[c]}
<1>1. /\ msg' = msg /\ begun' = begun /\ msg[c].by = c
      /\ msg[c] \in begun /\ msg[c] \notin done
      /\ done' = IF ok THEN done \cup {msg[c]} ELSE done
      /\ \A d \in Callers : pc'[d] = IF d = c THEN "idle" ELSE pc[d]
  BY DEF Return, TypeOK, HistoryOK, Answered
<1>2. \A m \in begun : m.by \in Callers
  BY DEF TypeOK, Message
<1>3. msg[c] \notin Failed
  BY <1>1 DEF Failed
<1>4. \A m \in begun : m # msg[c] => (m \in Failed' <=> m \in Failed)
  <2>1. SUFFICES ASSUME NEW m \in begun, m # msg[c]
                 PROVE  m \in Failed' <=> m \in Failed
    OBVIOUS
  <2>2. m \in done' <=> m \in done
    BY <1>1, <2>1
  <2>3. (pc'[m.by] = "idle" \/ msg[m.by] # m) <=> (pc[m.by] = "idle" \/ msg[m.by] # m)
    BY <1>1, <1>2, <2>1
  <2>4. QED
    BY <1>1, <2>2, <2>3 DEF Failed
<1>5. Failed \subseteq begun /\ Failed' \subseteq begun
  BY <1>1 DEF Failed
<1>6. ok => msg[c] \notin Failed'
  BY <1>1 DEF Failed
<1>7. ~ok => msg[c] \in Failed'
  BY <1>1 DEF Failed
<1>8. QED
  BY <1>1, <1>3, <1>4, <1>5, <1>6, <1>7

(* The steps inside a send, and everyone else's, decide no answer. *)
LEMMA FailedStays ==
  ASSUME UNCHANGED <<msg, begun, done>>, TypeOK,
         \A c \in Callers : pc'[c] = "idle" <=> pc[c] = "idle"
  PROVE  Failed' = Failed
<1>1. \A m \in begun : m.by \in Callers
  BY DEF TypeOK, Message
<1>2. QED
  BY <1>1 DEF Failed

(* A send that begins leaves what has failed failed, and has not. *)
LEMMA BeginDecidesNothing ==
  ASSUME TypeOK, HistoryOK, NEW c \in Callers, NEW m \in Message, Claim(c, m) \/ Refuse(c, m)
  PROVE  Failed' = Failed
<1>1. m \notin begun /\ Begin(c, m) /\ pc[c] = "idle"
  BY BeginFresh DEF Claim, Refuse, Begin
<1>2. /\ begun' = begun \cup {m} /\ done' = done /\ m.by = c
      /\ \A d \in Callers : msg'[d] = IF d = c THEN m ELSE msg[d]
  BY <1>1 DEF Begin, TypeOK
<1>3. pc'[c] # "idle" /\ \A d \in Callers : d # c => pc'[d] = pc[d]
  BY DEF Claim, Refuse, TypeOK
<1>4. \A x \in begun : x.by \in Callers
  BY DEF TypeOK, Message
<1>5. \A x \in begun : (pc'[x.by] = "idle" \/ msg'[x.by] # x)
                         <=> (pc[x.by] = "idle" \/ msg[x.by] # x)
  BY <1>1, <1>2, <1>3, <1>4
<1>6. m \notin Failed'
  BY <1>2, <1>3 DEF Failed
<1>7. QED
  BY <1>2, <1>5, <1>6 DEF Failed

(* Everything a message that is being written waits behind is out whole. *)
LEMMA MayBeWritten ==
  ASSUME RefinementInv, ~broken, NEW m \in Message,
         \/ Held /\ wmsg = m
         \/ \E c \in Callers : pc[c] = "inline" /\ msg[c] = m
  PROVE  m \in begun /\ after[m] \subseteq Ordered!Written
<1>1. TypeOK /\ HistoryOK /\ OrderKept /\ EndsNumbered
  BY DEF RefinementInv, FramesInv, IInv
<1>2. m \in begun
  BY <1>1 DEF HistoryOK
<1>3. \A e \in after[m] : Complete(e)
  BY <1>1 DEF OrderKept
<1>4. QED
  BY <1>1, <1>2, <1>3, WrittenIsComplete

(* A message is complete only once its last chunk is out. *)
LEMMA LastChunkCompletes ==
  ASSUME RefinementInv, wpc = "writing", out < wmsg.len
  PROVE  wmsg \notin Ordered!Written /\ wmsg \in done
<1>1. TypeOK /\ EndsNumbered /\ Answered /\ OneHome /\ Held
  BY DEF RefinementInv, FramesInv, IInv, Held
<1>2. SUFFICES ASSUME Complete(wmsg) PROVE FALSE
  BY <1>1, WrittenIsComplete DEF Answered
<1>3. PICK i \in 1 .. Len(wire) : wire[i] = <<wmsg, wmsg.len>>
  BY <1>2 DEF Complete
<1>4. wire[i][1] = wmsg /\ wire[i][2] = wmsg.len
  BY <1>3
<1>5. UnderWay
  BY <1>1, <1>4 DEF OneHome, ThreadOwns, OnWire
<1>6. wmsg.len <= out /\ out \in Nat
  BY <1>1, <1>4, <1>5 DEF Answered, TypeOK
<1>7. wmsg.len \in Nat
  BY <1>1, LengthsArePositive DEF TypeOK, Message, Held
<1>8. QED
  BY <1>6, <1>7

LEMMA WrittenStays ==
  ASSUME wire' = wire
  PROVE  Written' = Written /\ (EndsNumbered => EndsNumbered')
<1>1. Ends' = Ends
  BY DEF Ends
<1>2. \A i : RankOf(i)' = RankOf(i)
  BY <1>1 DEF RankOf
<1>3. \A k : EndNr(k)' = EndNr(k)
  BY <1>1, <1>2 DEF EndNr
<1>4. QED
  BY <1>1, <1>2, <1>3 DEF Written, EndsNumbered

(* A step that appends a chunk numbers its end, if it is one. *)
LEMMA NextEndsNumbered ==
  ASSUME TypeOK, EndsNumbered, [Next]_vars
  PROVE  EndsNumbered'
<1>1. ASSUME NEW c \in Callers, WriteInline(c) PROVE EndsNumbered'
  <2>1. CASE wire' = wire
    BY <2>1, WrittenStays
  <2>2. CASE wire' = Append(wire, <<msg[c], 1>>)
    <3>1. msg[c] \in Message
      BY <1>1 DEF WriteInline, TypeOK
    <3>2. QED
      BY <2>2, <3>1, WrittenGrows
  <2>3. QED
    BY <1>1, <2>1, <2>2 DEF WriteInline
<1>2. ASSUME WriteChunk PROVE EndsNumbered'
  <2>1. wmsg \in Message /\ out + 1 \in Nat /\ wire' = Append(wire, <<wmsg, out + 1>>)
    BY <1>2 DEF WriteChunk, TypeOK
  <2>2. QED
    BY <2>1, WrittenGrows
<1>3. CASE wire' = wire
  BY <1>3, WrittenStays
<1>4. QED
  BY <1>1, <1>2, <1>3
     DEF Next, vars, pipeVars, Caller, Sending, WriterThread, Peer, Claim, Refuse, Begin,
         GoInline, HandOff, CountRefused, Enqueue, Receive, LockWriter, FinishWrite,
         FailWrite, EndWriter, PeerReads, PeerGone

(* Nothing has begun, and nothing is written. *)
LEMMA InitRefines == Init => RefinementInv /\ Ordered!Init
<1> SUFFICES ASSUME Init PROVE RefinementInv /\ Ordered!Init
  OBVIOUS
<1>1. FramesInv
  BY InitFramesInv
<1>2. wire = <<>> /\ queue = <<>> /\ begun = {} /\ done = {} /\ ~Held /\ ~UnderWay
      /\ \A c \in Callers : pc[c] = "idle"
  BY DEF Init, Held, UnderWay
<1>3. Ends = {}
  BY <1>2 DEF Ends
<1>4. Cardinality(Ends) = 0
  BY <1>3, FS_EmptySet
<1>5. EndsNumbered /\ Answered
  BY <1>2, <1>4 DEF EndsNumbered, Answered
<1>6. Written = <<>>
  BY <1>4 DEF Written
<1>7. Failed = {}
  BY <1>2 DEF Failed
<1>8. after = [m \in {} |-> {}]
  BY DEF Init
<1>9. QED
  BY <1>1, <1>2, <1>5, <1>6, <1>7, <1>8 DEF RefinementInv, Ordered!Init

(* Every step is a step of the ordered wire, or one it does not see. *)
LEMMA NextRefines == RefinementInv /\ [Next]_vars => [Ordered!Next]_(Ordered!vars)
<1> SUFFICES ASSUME RefinementInv, [Next]_vars
             PROVE  Ordered!Next \/ UNCHANGED <<begun, done, Failed, after, Written>>
  BY DEF Ordered!vars
<1> USE DEF callerVars, writerVars, pipeVars, history
<1>0. /\ TypeOK /\ HistoryOK /\ WriteUnderWay /\ OneHome /\ EndsNumbered /\ Answered
  BY DEF RefinementInv, FramesInv, IInv
<1>1. ASSUME NEW c \in Callers, NEW m \in Message, Claim(c, m) \/ Refuse(c, m)
      PROVE  Ordered!Begin(m)
  <2>1. m \notin begun /\ Begin(c, m)
    BY <1>0, <1>1, BeginFresh DEF Claim, Refuse
  <2>2. Failed' = Failed
    BY <1>0, <1>1, BeginDecidesNothing
  <2>3. Written' = Written
    BY <2>1, WrittenStays DEF Begin
  <2>4. QED
    BY <2>1, <2>2, <2>3 DEF Begin, Ordered!Begin
<1>2. ASSUME NEW c \in Callers, GoInline(c) \/ HandOff(c) \/ CountRefused(c)
      PROVE  UNCHANGED <<begun, done, Failed, after, Written>>
  <2>1. \A d \in Callers : pc'[d] = "idle" <=> pc[d] = "idle"
    BY <1>0, <1>2 DEF GoInline, HandOff, CountRefused, TypeOK
  <2>2. UNCHANGED <<msg, begun, done, after, wire>>
    BY <1>2 DEF GoInline, HandOff, CountRefused
  <2>3. QED
    BY <1>0, <2>1, <2>2, FailedStays, WrittenStays
<1>3. ASSUME NEW c \in Callers, WriteInline(c)
      PROVE  Ordered!Write(msg[c]) \/ Ordered!Fail(msg[c])
  <2>0. pc[c] = "inline" /\ Return(c, ~broken)
    BY <1>3 DEF WriteInline
  <2>1. pc[c] = "inline" /\ msg[c] \in Message /\ msg[c].len = 1
    BY <1>0, <2>0 DEF TypeOK, WriteUnderWay
  <2>2. ~OnWire(msg[c])
    BY <1>0, <2>1 DEF OneHome, CallersOwn
  <2>01. ~Complete(msg[c])
    BY <2>2 DEF Complete, OnWire
  <2>3. msg[c] \notin Ordered!Written
    BY <1>0, <2>01, WrittenIsComplete
  <2>4. CASE broken
    <3>1. wire' = wire /\ Return(c, FALSE)
      BY <1>3, <2>0, <2>4 DEF WriteInline, Return
    <3>2. Written' = Written /\ UNCHANGED <<begun, done, after>>
      BY <3>1, WrittenStays DEF Return
    <3>3. /\ msg[c] \in begun \ (done \cup Failed)
          /\ Failed' = Failed \cup {msg[c]}
      BY <1>0, <2>1, <3>1, ReturnDecides
    <3>4. QED
      BY <2>3, <3>2, <3>3 DEF Ordered!Fail
  <2>5. CASE ~broken
    <3>1. wire' = Append(wire, <<msg[c], 1>>) /\ Return(c, TRUE)
      BY <1>3, <2>0, <2>5 DEF WriteInline, Return
    <3>2. Written' = Append(Written, msg[c])
      BY <1>0, <2>1, <3>1, WrittenGrows
    <3>3. msg[c] \in begun \ (done \cup Failed) /\ Failed' = Failed
      BY <1>0, <2>1, <3>1, ReturnDecides
    <3>4. after[msg[c]] \subseteq Ordered!Written
      BY <2>1, <2>5, MayBeWritten
    <3>5. done' = done \cup {msg[c]} /\ UNCHANGED <<begun, after>>
      BY <3>1 DEF Return
    <3>6. QED
      BY <2>3, <3>2, <3>3, <3>4, <3>5 DEF Ordered!Write
  <2>6. QED
    BY <2>4, <2>5
<1>4. ASSUME NEW c \in Callers, Enqueue(c)
      PROVE  Ordered!Accept(msg[c]) \/ Ordered!Fail(msg[c])
  <2>1. /\ pc[c] = "handoff" /\ Return(c, ReceiverAlive) /\ wire' = wire
        /\ ReceiverAlive \in BOOLEAN
    BY <1>4 DEF Enqueue, ReceiverAlive
  <2>2. Written' = Written /\ UNCHANGED <<begun, after>>
    BY <2>1, WrittenStays DEF Return
  <2>3. /\ msg[c] \in begun \ (done \cup Failed)
        /\ ReceiverAlive => Failed' = Failed
        /\ ~ReceiverAlive => Failed' = Failed \cup {msg[c]}
    BY <1>0, <2>1, ReturnDecides
  <2>4. ~OnWire(msg[c])
    BY <1>0, <2>1 DEF OneHome, CallersOwn
  <2>01. ~Complete(msg[c])
    BY <2>4 DEF Complete, OnWire
  <2>5. msg[c] \notin Ordered!Written
    BY <1>0, <2>01, WrittenIsComplete
  <2>6. done' = IF ReceiverAlive THEN done \cup {msg[c]} ELSE done
    BY <2>1 DEF Return
  <2>7. QED
    BY <2>2, <2>3, <2>5, <2>6 DEF Ordered!Accept, Ordered!Fail
<1>5. ASSUME WriteChunk
      PROVE  Ordered!Write(wmsg) \/ UNCHANGED <<begun, done, Failed, after, Written>>
  <2>1. /\ wpc = "writing" /\ out < wmsg.len /\ ~broken /\ wmsg \in Message /\ out + 1 \in Nat
        /\ wire' = Append(wire, <<wmsg, out + 1>>)
        /\ UNCHANGED <<pc, msg, begun, done, after>>
    BY <1>0, <1>5 DEF WriteChunk, TypeOK
  <2>2. Failed' = Failed
    BY <1>0, <2>1, FailedStays
  <2>3. CASE out + 1 # wmsg.len
    BY <1>0, <2>1, <2>2, <2>3, WrittenGrows
  <2>4. CASE out + 1 = wmsg.len
    <3>1. Written' = Append(Written, wmsg)
      BY <1>0, <2>1, <2>4, WrittenGrows
    <3>2. wmsg \in begun /\ after[wmsg] \subseteq Ordered!Written
      BY <2>1, MayBeWritten DEF Held
    <3>3. wmsg \notin Ordered!Written /\ wmsg \in done
      BY <2>1, LastChunkCompletes
    <3>4. wmsg \notin Failed
      BY <3>3 DEF Failed
    <3>5. QED
      BY <2>1, <2>2, <3>1, <3>2, <3>3, <3>4 DEF Ordered!Write
  <2>5. QED
    BY <2>3, <2>4
<1>6. ASSUME \/ Receive \/ LockWriter \/ FinishWrite \/ FailWrite \/ EndWriter \/ Peer
             \/ UNCHANGED vars
      PROVE  UNCHANGED <<begun, done, Failed, after, Written>>
  <2>1. UNCHANGED <<pc, msg, begun, done, after, wire>>
    BY <1>6 DEF Receive, LockWriter, FinishWrite, FailWrite, EndWriter, Peer, PeerReads,
                PeerGone, vars
  <2>2. QED
    BY <1>0, <2>1, FailedStays, WrittenStays
<1>7. \A c \in Callers : pc[c] # "idle" => msg[c] \in Message
  BY <1>0 DEF TypeOK
<1>8. ASSUME NEW c \in Callers, WriteInline(c) \/ Enqueue(c)
      PROVE  Ordered!Next
  <2>1. msg[c] \in Message
    BY <1>7, <1>8 DEF WriteInline, Enqueue
  <2>2. QED
    BY <1>3, <1>4, <1>8, <2>1 DEF Ordered!Next
<1>9. ASSUME WriteChunk
      PROVE  Ordered!Next \/ UNCHANGED <<begun, done, Failed, after, Written>>
  <2>1. wmsg \in Message
    BY <1>0, <1>9 DEF WriteChunk, TypeOK
  <2>2. QED
    BY <1>5, <1>9, <2>1 DEF Ordered!Next
<1>10. ASSUME NEW c \in Callers, NEW m \in Message, Claim(c, m) \/ Refuse(c, m)
       PROVE  Ordered!Next
  BY <1>1, <1>10 DEF Ordered!Next
<1>11. QED
  BY <1>2, <1>6, <1>8, <1>9, <1>10 DEF Next, Caller, Sending, WriterThread

(* The strengthening is an invariant. *)
LEMMA NextRefinementInv == RefinementInv /\ [Next]_vars => RefinementInv'
<1> SUFFICES ASSUME RefinementInv, [Next]_vars PROVE RefinementInv'
  OBVIOUS
<1>1. /\ FramesInv /\ EndsNumbered /\ Answered
      /\ TypeOK /\ LockOwned /\ HistoryOK /\ OneHome
  BY DEF RefinementInv, FramesInv, IInv
<1>2. QED
  BY <1>1, NextFramesInv, NextEndsNumbered, NextAnswered DEF RefinementInv

(* outbox.rs, with its lock, its counter, its queue and its thread,         *)
(* implements the ordered wire: every message it puts out whole is one the  *)
(* abstract wire may write then, and every send it answers, one the         *)
(* abstract wire may answer so.                                             *)
THEOREM WriteSideImplementsOrderedWire == Spec => ImplementsOrderedWire
BY InitRefines, NextRefines, NextRefinementInv, PTL
   DEF Spec, ImplementsOrderedWire, Ordered!Spec

-----------------------------------------------------------------------------
(* The stall watch.                                                        *)

(* The clocks and counters are numbers, and a pass looks back.             *)
Numbers ==
  /\ now \in Nat /\ lastPass \in Nat /\ progress \in Nat
  /\ owed \in Nat /\ writes \in Nat /\ rOwed \in Nat /\ delivered \in Nat
  /\ since \in Nat \cup {None} /\ seen \in Nat \cup {None} /\ wake \in Nat \cup {None}
  /\ progress <= now /\ lastPass <= now /\ now - lastPass <= MaxGap
  /\ since # None => since <= lastPass
  /\ delivered <= writes

(* Nothing new has been delivered since the watch last looked.             *)
Quiet == since # None /\ writes = delivered

(* The window is never opened long before the writer last moved: a message *)
(* delivered but not yet released, or an empty backlog the watch did not   *)
(* see, ends within one gap of the pass that opened it.                    *)
WindowIsFresh ==
  Quiet =>
    /\ progress <= since + MaxGap
    /\ delivering => since = now
    /\ owed = 0 => since = lastPass
    /\ opc = "loaded" /\ rOwed > 0 /\ owed = 0 => since = now

(* A backlog found standing keeps its window open, and the watch awake for *)
(* the moment the window is a threshold old.                               *)
BacklogIsWatched ==
  seen # None =>
    /\ Quiet /\ since <= seen /\ seen <= now /\ owed > 0 /\ ~delivering
    /\ opc = "loaded" => rOwed > 0
    /\ ~stalled => IF opc = "folded" THEN now - since < Threshold
                   ELSE wake = since + Threshold /\ now <= wake

StallInv ==
  /\ opc \in {"asleep", "loaded", "folded"}
  /\ Numbers /\ (delivering => owed > 0) /\ WindowIsFresh /\ BacklogIsWatched

(* The initial state. *)
LEMMA StallInitInv == StallInit => StallInv
BY StallBoundsAreNat DEF StallInit, StallInv, Numbers, Quiet, WindowIsFresh, BacklogIsWatched, None

(* A pass of the watch keeps the window fresh and the backlog watched. *)
LEMMA FoldKeeps == ASSUME StallInv, Fold PROVE StallInv'
<1> USE ThresholdPositive, StallBoundsAreNat DEF StallInv, Numbers, None, outbox
<1> DEFINE moved == writes # delivered
           anchor == IF since = None THEN now ELSE since
<1>1. /\ opc = "loaded" /\ opc' = "folded" /\ delivered' = writes /\ lastPass' = now
      /\ since' = IF rOwed = 0 THEN None ELSE IF moved THEN now ELSE anchor
      /\ seen' = IF rOwed > 0 /\ owed > 0 /\ ~delivering /\ seen = None THEN now ELSE seen
      /\ UNCHANGED <<now, owed, writes, rOwed, wake, progress>>
  BY DEF Fold
<1>2. /\ stalled' <=> rOwed > 0 /\ ~moved /\ now - anchor >= Threshold
      /\ delivering' <=> delivering
  BY Zenon DEF Fold, outbox
<1>3. Numbers'
  BY <1>1
<1>4. WindowIsFresh'
  BY <1>1, <1>2 DEF WindowIsFresh, Quiet
<1>5. ASSUME seen' # None PROVE BacklogIsWatched'
  <2>1. owed > 0 /\ ~delivering /\ rOwed > 0
    BY <1>1, <1>5 DEF BacklogIsWatched
  <2>2. since' # None /\ since' <= seen' /\ seen' <= now
    <3>1. CASE seen = None
      BY <1>1, <2>1, <3>1
    <3>2. CASE seen # None
      BY <1>1, <2>1, <3>2 DEF BacklogIsWatched, Quiet
    <3>3. QED
      BY <3>1, <3>2
  <2>3. ~stalled' => now - since' < Threshold
    <3>1. CASE moved
      BY <1>1, <2>1, <3>1
    <3>2. CASE ~moved
      BY <1>1, <1>2, <2>1, <3>2
    <3>3. QED
      BY <3>1, <3>2
  <2>4. QED
    BY <1>1, <1>2, <2>1, <2>2, <2>3 DEF BacklogIsWatched, Quiet
<1>6. BacklogIsWatched'
  BY <1>5 DEF BacklogIsWatched
<1>7. QED
  BY <1>1, <1>2, <1>3, <1>4, <1>6

(* Every step keeps the invariant. *)
LEMMA StallNextInv == StallInv /\ [StallNext]_stallVars => StallInv'
<1> SUFFICES ASSUME StallInv, [StallNext]_stallVars PROVE StallInv'
  OBVIOUS
<1> USE ThresholdPositive, StallBoundsAreNat
    DEF StallInv, Numbers, Quiet, WindowIsFresh, BacklogIsWatched, None, outbox, watch
<1>1. CASE CountHandOff
  BY <1>1 DEF CountHandOff
<1>2. CASE CountDelivered
  BY <1>2 DEF CountDelivered
<1>3. CASE Release
  BY <1>3 DEF Release
<1>4. CASE LoadOwed
  BY <1>4 DEF LoadOwed
<1>5. CASE Fold
  BY <1>5, FoldKeeps
<1>6. CASE Sleep
  BY <1>6 DEF Sleep
<1>7. CASE TimePasses
  BY <1>7 DEF TimePasses
<1>8. CASE UNCHANGED stallVars
  BY <1>8 DEF stallVars
<1>9. QED
  BY <1>1, <1>2, <1>3, <1>4, <1>5, <1>6, <1>7, <1>8 DEF StallNext

LEMMA StallInvHolds == StallSpec => []StallInv
BY StallInitInv, StallNextInv, PTL DEF StallSpec

(* A writer called wedged has had something to write and delivered nothing *)
(* for a threshold less one gap (OutboxStallWatch::observe), however the   *)
(* two counters are torn.                                                  *)
THEOREM AStallIsReal == StallSpec => StallIsReal
<1>1. ASSUME StallInv, Fold, stalled'
      PROVE  now - progress >= Threshold - MaxGap
  <2>1. /\ writes = delivered
        /\ now - (IF since = None THEN now ELSE since) >= Threshold
    BY <1>1, Zenon DEF Fold
  <2>2. since # None /\ now - since >= Threshold
    BY <1>1, <2>1, ThresholdPositive DEF StallInv, Numbers
  <2>3. progress <= since + MaxGap
    BY <1>1, <2>1, <2>2 DEF StallInv, WindowIsFresh, Quiet
  <2>4. QED
    BY <1>1, <2>2, <2>3, ThresholdPositive, StallBoundsAreNat DEF StallInv, Numbers, None
<1>2. StallInv => (Fold /\ stalled' => now - progress >= Threshold - MaxGap)
  BY <1>1
<1>3. QED
  BY <1>2, StallInvHolds, PTL DEF StallIsReal

(* The loop is never asleep when a backlog it found standing has become a   *)
(* threshold old (poll_deadline), whatever the threshold and the gap.       *)
THEOREM ABacklogIsReported == StallSpec => []NeverSleepsThrough
<1>1. StallInv => NeverSleepsThrough
  BY ThresholdPositive DEF StallInv, Numbers, BacklogIsWatched, NeverSleepsThrough, None
<1>2. QED
  BY <1>1, StallInvHolds, PTL
=============================================================================
