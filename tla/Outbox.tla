------------------------------- MODULE Outbox -------------------------------
(***************************************************************************)
(* The write side of an engine connection (view-engine, outbox.rs, and the *)
(* writer thread handle.rs starts over it).  A message leaves either       *)
(* inline, on the thread that produced it, or through a background writer  *)
(* thread fed by an unbounded channel.  The inline path is taken only with *)
(* the writer lock held, nothing handed off, and a pipe that has promised  *)
(* the room.                                                               *)
(*                                                                         *)
(* The unit of the wire is one chunk of at most PIPE_BUF bytes, the size   *)
(* the inline path is limited to: a message of length 1 fits one, a longer *)
(* one is several, and its write can be parked between two of them.        *)
(*                                                                         *)
(* begun and after are history variables: a message's `after' is the set   *)
(* of messages whose send had already returned true when its own send      *)
(* began, which is what "produced before" means between threads.           *)
(***************************************************************************)
EXTENDS Naturals, Sequences, FiniteSets

CONSTANTS
  Callers,    \* threads that hold a clone of the handle and send
  MaxSends,   \* bound: messages each caller sends
  Lengths,    \* message lengths, in chunks
  PipeRoom,   \* chunks the pipe buffer holds
  HasPipe,    \* whether the writer is a pipe that can be polled (pipe: Some)
  Writer,     \* the writer thread, as a lock holder
  Nobody      \* the free lock

ASSUME CallersFinite == IsFiniteSet(Callers)
ASSUME ThreadsDistinct == Writer \notin Callers /\ Nobody \notin Callers /\ Writer # Nobody
ASSUME BoundsAreNat == MaxSends \in Nat /\ PipeRoom \in Nat \ {0}
ASSUME LengthsArePositive == Lengths \subseteq Nat \ {0}
ASSUME HasPipeBoolean == HasPipe \in BOOLEAN

VARIABLES
  pc,         \* where each caller is inside send
  sent,       \* how many messages each caller has begun
  msg,        \* the message each caller is sending, or sent last
  holder,     \* who holds Outbox::writer
  handedOff,  \* Outbox::handed_off
  wrote,      \* Outbox::wrote
  queue,      \* the channel to the writer thread; what is left when it ends is lost
  wpc,        \* where the writer thread is
  wmsg,       \* the message it received last
  out,        \* chunks of wmsg it has put on the wire
  wire,       \* every chunk the pipe accepted, as <<message, part>>
  read,       \* how many of them nvim has read
  broken,     \* nvim's end of the pipe is gone
  begun, done, after  \* history: sends begun, sends that returned true, the order

callerVars == <<pc, sent, msg>>
writerVars == <<wpc, wmsg, out, wrote>>
pipeVars   == <<wire, read, broken>>
history    == <<begun, done, after>>
vars == <<callerVars, holder, handedOff, queue, writerVars, pipeVars, history>>

Message == [by : Callers, nr : 1 .. MaxSends, len : Lengths]
Chunk   == Message \X Nat
Complete(m) == \E i \in 1 .. Len(wire) : wire[i] = <<m, m.len>>
HasRoom == Len(wire) - read < PipeRoom

(* The receiver of the channel is dropped when the writer thread ends. *)
ReceiverAlive == wpc # "ended"

TypeOK ==
  /\ pc \in [Callers -> {"idle", "claimed", "refused", "inline", "handoff"}]
  /\ sent \in [Callers -> 0 .. MaxSends]
  /\ msg \in [Callers -> Message \cup {<<>>}]
  /\ \A c \in Callers : pc[c] # "idle" => msg[c] \in Message
  /\ holder \in Callers \cup {Writer, Nobody}
  /\ handedOff \in Nat /\ wrote \in Nat
  /\ queue \in Seq(Message)
  /\ wpc \in {"recv", "locking", "writing", "closing", "ended"}
  /\ wmsg \in Message \cup {<<>>}
  /\ wpc \in {"locking", "writing"} => wmsg \in Message
  /\ out \in Nat
  /\ wire \in Seq(Chunk) /\ read \in 0 .. Len(wire) /\ broken \in BOOLEAN
  /\ begun \subseteq Message /\ done \subseteq Message
  /\ after \in [begun -> SUBSET Message]

Init ==
  /\ pc = [c \in Callers |-> "idle"]
  /\ sent = [c \in Callers |-> 0]
  /\ msg = [c \in Callers |-> <<>>]
  /\ holder = Nobody
  /\ handedOff = 0
  /\ wrote = 0
  /\ queue = <<>>
  /\ wpc = "recv"
  /\ wmsg = <<>>
  /\ out = 0
  /\ wire = <<>> /\ read = 0 /\ broken = FALSE
  /\ begun = {} /\ done = {} /\ after = [m \in {} |-> {}]

-----------------------------------------------------------------------------
(* A caller's send.                                                        *)

Begin(c, m) ==
  /\ pc[c] = "idle" /\ sent[c] < MaxSends
  /\ m.by = c /\ m.nr = sent[c] + 1
  /\ sent' = [sent EXCEPT ![c] = @ + 1]
  /\ msg' = [msg EXCEPT ![c] = m]
  /\ begun' = begun \cup {m}
  /\ after' = [x \in begun \cup {m} |-> IF x = m THEN done ELSE after[x]]
  /\ UNCHANGED <<handedOff, queue, writerVars, pipeVars, done>>

(* try_lock succeeded. *)
Claim(c, m) ==
  /\ Begin(c, m)
  /\ holder = Nobody
  /\ holder' = c
  /\ pc' = [pc EXCEPT ![c] = "claimed"]

(* try_lock answered WouldBlock: never wait, hand the message over. *)
Refuse(c, m) ==
  /\ Begin(c, m)
  /\ holder # Nobody
  /\ pc' = [pc EXCEPT ![c] = "refused"]
  /\ UNCHANGED holder

(* Mutant: the poll is skipped, so a full pipe may be written inline. *)
InlineAnswers_NoPoll(m) == {FALSE} \cup (IF m.len = 1 /\ HasPipe THEN {TRUE} ELSE {})

(* The answers can_write_inline may give.  A poll can always fail; one on a *)
(* pipe whose reader is gone may report it writable, and the write fails.   *)
InlineAnswers(m) ==
  {FALSE} \cup (IF m.len = 1 /\ HasPipe /\ (HasRoom \/ broken) THEN {TRUE} ELSE {})

(* Mutant: the ordering gate is dropped. *)
GoInline_NoGate(c) ==
  /\ pc[c] = "claimed"
  /\ TRUE \in InlineAnswers(msg[c])
  /\ pc' = [pc EXCEPT ![c] = "inline"]
  /\ UNCHANGED <<sent, msg, holder, handedOff, queue, writerVars, pipeVars, history>>

(* The ordering gate lets the message through. *)
GoInline(c) ==
  /\ pc[c] = "claimed"
  /\ handedOff = 0 /\ TRUE \in InlineAnswers(msg[c])
  /\ pc' = [pc EXCEPT ![c] = "inline"]
  /\ UNCHANGED <<sent, msg, holder, handedOff, queue, writerVars, pipeVars, history>>

Return(c, ok) ==
  /\ pc' = [pc EXCEPT ![c] = "idle"]
  /\ done' = IF ok THEN done \cup {msg[c]} ELSE done
  /\ UNCHANGED <<sent, msg, begun, after>>

(* The inline write_all, then the lock is dropped.  A full pipe parks it. *)
WriteInline(c) ==
  /\ pc[c] = "inline"
  /\ \/ broken /\ UNCHANGED wire
     \/ ~broken /\ HasRoom /\ wire' = Append(wire, <<msg[c], 1>>)
  /\ holder' = Nobody
  /\ Return(c, ~broken)
  /\ UNCHANGED <<handedOff, queue, writerVars, read, broken>>

(* The gate or the poll refuses: counted before the lock is released. *)
HandOff(c) ==
  /\ pc[c] = "claimed"
  /\ handedOff # 0 \/ FALSE \in InlineAnswers(msg[c])
  /\ handedOff' = handedOff + 1
  /\ holder' = Nobody
  /\ pc' = [pc EXCEPT ![c] = "handoff"]
  /\ UNCHANGED <<sent, msg, queue, writerVars, pipeVars, history>>

(* Mutant: a refused message is handed over without being counted. *)
CountRefused_Uncounted(c) ==
  /\ pc[c] = "refused"
  /\ pc' = [pc EXCEPT ![c] = "handoff"]
  /\ UNCHANGED <<sent, msg, holder, handedOff, queue, writerVars, pipeVars, history>>

(* Mutant: a refused message waits for the lock to be counted under it. *)
CountRefused_Waits(c) ==
  /\ pc[c] = "refused" /\ holder = Nobody
  /\ handedOff' = handedOff + 1
  /\ pc' = [pc EXCEPT ![c] = "handoff"]
  /\ UNCHANGED <<sent, msg, holder, queue, writerVars, pipeVars, history>>

(* The lock was refused: counted outside it, whenever that lands. *)
CountRefused(c) ==
  /\ pc[c] = "refused"
  /\ handedOff' = handedOff + 1
  /\ pc' = [pc EXCEPT ![c] = "handoff"]
  /\ UNCHANGED <<sent, msg, holder, queue, writerVars, pipeVars, history>>

(* tx.send, which fails only once the receiver is dropped. *)
Enqueue(c) ==
  /\ pc[c] = "handoff"
  /\ IF ReceiverAlive
       THEN queue' = Append(queue, msg[c]) /\ UNCHANGED handedOff
       ELSE handedOff' = handedOff - 1 /\ UNCHANGED queue
  /\ Return(c, ReceiverAlive)
  /\ UNCHANGED <<holder, writerVars, pipeVars>>

-----------------------------------------------------------------------------
(* The writer thread.                                                      *)

Receive ==
  /\ wpc = "recv" /\ queue # <<>>
  /\ wmsg' = Head(queue) /\ queue' = Tail(queue)
  /\ wpc' = "locking"
  /\ UNCHANGED <<callerVars, holder, handedOff, out, wrote, pipeVars, history>>

(* Mutant: the thread writes without the lock. *)
LockWriter_Unlocked ==
  /\ wpc = "locking"
  /\ wpc' = "writing" /\ out' = 0
  /\ UNCHANGED <<callerVars, holder, handedOff, queue, wmsg, wrote, pipeVars, history>>

LockWriter ==
  /\ wpc = "locking" /\ holder = Nobody
  /\ holder' = Writer
  /\ wpc' = "writing" /\ out' = 0
  /\ UNCHANGED <<callerVars, handedOff, queue, wmsg, wrote, pipeVars, history>>

(* One chunk of write_all; with no room the thread is parked, lock held. *)
WriteChunk ==
  /\ wpc = "writing" /\ out < wmsg.len
  /\ ~broken /\ HasRoom
  /\ wire' = Append(wire, <<wmsg, out + 1>>)
  /\ out' = out + 1
  /\ UNCHANGED <<callerVars, holder, handedOff, queue, wpc, wmsg, wrote, read, broken, history>>

(* Mutant: the thread forgets to drop the lock. *)
FinishWrite_KeepsLock ==
  /\ wpc = "writing" /\ out = wmsg.len
  /\ wrote' = wrote + 1
  /\ handedOff' = handedOff - 1
  /\ wpc' = "recv"
  /\ UNCHANGED <<callerVars, holder, queue, wmsg, out, pipeVars, history>>

(* The bytes are out: counted, then released under the lock. *)
FinishWrite ==
  /\ wpc = "writing" /\ out = wmsg.len
  /\ wrote' = wrote + 1
  /\ handedOff' = handedOff - 1
  /\ holder' = Nobody
  /\ wpc' = "recv"
  /\ UNCHANGED <<callerVars, queue, wmsg, out, pipeVars, history>>

(* Mutant: a failed write keeps its message counted. *)
FailWrite_StaysCounted ==
  /\ wpc = "writing" /\ out < wmsg.len /\ broken
  /\ holder' = Nobody
  /\ wpc' = "closing"
  /\ UNCHANGED <<callerVars, handedOff, queue, wmsg, out, wrote, pipeVars, history>>

(* A broken pipe fails the write; the hand-off count is released as well. *)
FailWrite ==
  /\ wpc = "writing" /\ out < wmsg.len /\ broken
  /\ handedOff' = handedOff - 1
  /\ holder' = Nobody
  /\ wpc' = "closing"
  /\ UNCHANGED <<callerVars, queue, wmsg, out, wrote, pipeVars, history>>

(* The thread fails every waiter (module Handle) and ends, receiver dropped. *)
EndWriter ==
  /\ wpc = "closing"
  /\ wpc' = "ended"
  /\ UNCHANGED <<callerVars, holder, handedOff, queue, wmsg, out, wrote, pipeVars, history>>

-----------------------------------------------------------------------------
(* nvim's end of the pipe (external).                                      *)

PeerReads ==
  /\ ~broken /\ read < Len(wire)
  /\ read' = read + 1
  /\ UNCHANGED <<callerVars, holder, handedOff, queue, writerVars, wire, broken, history>>

PeerGone ==
  /\ ~broken
  /\ broken' = TRUE
  /\ UNCHANGED <<callerVars, holder, handedOff, queue, writerVars, wire, read, history>>

-----------------------------------------------------------------------------
Sending(c) == GoInline(c) \/ WriteInline(c) \/ HandOff(c) \/ CountRefused(c) \/ Enqueue(c)
Caller(c) == Sending(c) \/ \E m \in Message : Claim(c, m) \/ Refuse(c, m)
WriterThread == Receive \/ LockWriter \/ WriteChunk \/ FinishWrite \/ FailWrite \/ EndWriter
Peer == PeerReads \/ PeerGone
Next == (\E c \in Callers : Caller(c)) \/ WriterThread \/ Peer

Spec == Init /\ [][Next]_vars

(* Threads are scheduled: a caller inside send keeps running.  Nothing is   *)
(* assumed of the writer thread or of nvim, which may stop reading for ever. *)
CallersRun == \A c \in Callers : WF_vars(Sending(c))
CallerSpec == Spec /\ CallersRun

(* The writer thread runs too, and nvim goes on reading while it is there. *)
WriterRuns == WF_vars(WriterThread) /\ WF_vars(PeerReads)

-----------------------------------------------------------------------------
(* Properties.                                                             *)

Held == wpc \in {"locking", "writing"}   \* the writer thread has a message in hand
Failed == {m \in begun \ done : pc[m.by] = "idle" \/ msg[m.by] # m}  \* answered false
InFlight == {c \in Callers : pc[c] = "handoff"}

(* handed_off counts exactly the messages on their way to the writer thread, *)
(* in its channel or in its hands, also after the thread has ended: it is    *)
(* what makes a zero read under the lock mean that nothing is in flight.     *)
HandOffAccounted ==
  handedOff = Len(queue) + Cardinality(InFlight)
                + (IF Held THEN 1 ELSE 0)

(* Nothing is overtaken: no chunk of a message is on the wire before the     *)
(* whole of every message whose send had returned when its own began,        *)
(* whichever thread sent either and whichever path each one took.            *)
NothingOvertaken ==
  \A i \in 1 .. Len(wire) : \A e \in after[wire[i][1]] :
    \E j \in 1 .. i - 1 : wire[j] = <<e, e.len>>

(* The bytes of two messages never interleave and none is written twice,     *)
(* although two kinds of thread write the same pipe.                         *)
FramesWhole ==
  \A i \in 1 .. Len(wire) :
    /\ wire[i][2] > 1 => i > 1 /\ wire[i - 1] = <<wire[i][1], wire[i][2] - 1>>
    /\ wire[i][2] = 1 =>
         /\ i > 1 => wire[i - 1][2] = wire[i - 1][1].len
         /\ \A j \in 1 .. i - 1 : wire[j] # wire[i]

(* The caller never parks in a write: from the poll to the inline write the  *)
(* pipe keeps the room it promised, or its reader is gone and the write      *)
(* fails at once.                                                            *)
InlineNeverParks == \A c \in Callers : pc[c] = "inline" => HasRoom \/ broken

(* While the pipe stands, a message whose send returned true is on the wire  *)
(* or still the writer thread's: no accepted message is dropped.             *)
AcceptedNotLost ==
  ~broken => \A m \in done :
    \/ Complete(m)
    \/ Held /\ wmsg = m
    \/ \E i \in 1 .. Len(queue) : queue[i] = m

-----------------------------------------------------------------------------
(* The strengthening that makes the safety properties inductive.           *)

(* The lock has the holder its owner's program counter says. *)
LockOwned ==
  /\ \A c \in Callers : holder = c <=> pc[c] \in {"claimed", "inline"}
  /\ holder = Writer <=> wpc = "writing"

(* Where the history variables come from. *)
HistoryOK ==
  /\ done \subseteq begun
  /\ \A m \in begun : m.nr <= sent[m.by] /\ after[m] \subseteq done
  /\ \A c \in Callers : pc[c] # "idle" => msg[c] \in begun /\ msg[c].by = c
  /\ \A i \in 1 .. Len(queue) : queue[i] \in begun
  /\ \A i \in 1 .. Len(wire) : wire[i][1] \in begun
  /\ Held => wmsg \in begun

(* How far the write under way has come. *)
WriteUnderWay ==
  /\ \A c \in Callers : pc[c] = "inline" => msg[c].len = 1
  /\ wpc = "writing" =>
       /\ out <= wmsg.len
       /\ out > 0 => \E i \in 1 .. Len(wire) : wire[i] = <<wmsg, out>>
  /\ wpc \in {"closing", "ended"} => broken

(* What a message waits behind: everything it may not overtake is written,  *)
(* in the writer's hands, or before it in the channel.                      *)
OrderKept ==
  ~broken =>
    /\ Held => \A e \in after[wmsg] : Complete(e)
    /\ \A c \in Callers : pc[c] = "inline" => \A e \in after[msg[c]] : Complete(e)
    /\ \A i \in 1 .. Len(queue) : \A e \in after[queue[i]] :
         Complete(e) \/ (Held /\ wmsg = e) \/ \E j \in 1 .. i - 1 : queue[j] = e

IInv ==
  /\ TypeOK /\ LockOwned /\ HandOffAccounted /\ HistoryOK /\ WriteUnderWay
  /\ InlineNeverParks /\ AcceptedNotLost /\ OrderKept /\ NothingOvertaken

-----------------------------------------------------------------------------
(* Every send returns, whatever nvim and the writer thread do: no path       *)
(* through send waits for either.                                            *)
SendReturns == \A c \in Callers : pc[c] # "idle" ~> pc[c] = "idle"

(* While the writer thread runs and nvim reads, what was handed off is       *)
(* written, unless nvim goes away: with AcceptedNotLost, every accepted      *)
(* message reaches the wire.                                                 *)
BacklogIsWritten == WriterRuns => handedOff > 0 ~> (handedOff = 0 \/ broken)

(* Where the wire ends a message, and which of them is the k-th. *)
Ends == {i \in 1 .. Len(wire) : wire[i][2] = wire[i][1].len}
RankOf(i) == Cardinality({j \in Ends : j <= i})
EndNr(k) == CHOOSE i \in {j \in Ends : RankOf(j) = k} : TRUE

(* The messages nvim has been sent whole, in order. *)
Written == [k \in 1 .. Cardinality(Ends) |-> wire[EndNr(k)][1]]

Ordered == INSTANCE OrderedWire WITH out <- Written, failed <- Failed

(* The write side implements the ordered wire it stands for.                 *)
ImplementsOrderedWire == Ordered!Spec
=============================================================================
