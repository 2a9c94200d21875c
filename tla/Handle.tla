------------------------------- MODULE Handle -------------------------------
(***************************************************************************)
(* One RPC connection to nvim (view-engine, handle.rs): callers on several *)
(* threads register a waiter and send, a reader thread matches responses   *)
(* to waiters by msgid and reports the end of the stream, and whichever    *)
(* thread finds the connection gone closes it and fails every waiter.      *)
(*                                                                         *)
(* The write side is the promise module Outbox makes: an accepted message  *)
(* is written in order while the pipe stands, and once it is broken a send *)
(* answers false (an inline write, or a writer thread that has ended) or   *)
(* true (handed to a writer thread that has not noticed yet).              *)
(*                                                                         *)
(* The sections that hold the lock of PendingState are single steps; plock *)
(* is held across steps only by wait_until_settled, between its test and   *)
(* its wait on the condition variable.                                     *)
(***************************************************************************)
EXTENDS Naturals, Sequences, FiniteSets

CONSTANTS
  Callers,      \* threads that make requests
  MaxRequests,  \* bound: requests on the connection; msgids never wrap
  MaxEvents,    \* bound: requests and the leave announcement of nvim
  ChanCap       \* capacity of the bounded channel to the runtime loop

ASSUME BoundsAreNat ==
  MaxRequests \in Nat /\ MaxEvents \in Nat /\ ChanCap \in Nat \ {0}

VARIABLES
  pc, kind, id,   \* each caller: where it is, sync/timed/async, its msgid
  nextMsgid,
  waiters,        \* PendingState::waiters
  answer,         \* what was put in the reply channel of each msgid
  closed, readerDone, announced,
  plock,          \* wait_until_settled holds the lock of PendingState
  settle,         \* the thread resolving a stop
  writerEnded,    \* the writer thread has closed the connection and ended
  rd, inHand,     \* reader thread: where it is, the waiter it took out
  fatal,          \* it stopped reading before the end of the stream
  chan,           \* messages in the channel to the loop
  loopGone,       \* the loop dropped its receiver
  peer, toPeer, working, toReader, events  \* nvim and the two streams

callVars == <<pc, kind, id, nextMsgid>>
connVars == <<waiters, answer, closed>>
settleVars == <<readerDone, announced, plock, settle>>
readVars == <<rd, inHand, fatal>>
loopVars == <<chan, loopGone>>
peerVars == <<peer, toPeer, working, toReader, events>>
vars == <<callVars, connVars, settleVars, writerEnded, readVars, loopVars, peerVars>>

MsgIds == 1 .. MaxRequests
Waiter == [id : MsgIds, by : Callers, kind : {"reply", "async"}]
NoWaiter == [id |-> 0]
FromPeer == [type : {"response", "request", "leaving"}, id : 0 .. MaxRequests]
Broken == peer \in {"dead", "left"}   \* died, or exited having announced it

TypeOK ==
  /\ pc \in [Callers -> {"idle", "register", "send", "undo", "waiting", "expired"}]
  /\ kind \in [Callers -> {"sync", "timed", "async"}]
  /\ id \in [Callers -> 0 .. MaxRequests]
  /\ nextMsgid \in 1 .. MaxRequests + 1
  /\ waiters \subseteq Waiter
  /\ answer \in [MsgIds -> {"none", "reply", "Closed"}]
  /\ {closed, readerDone, announced, plock, writerEnded, fatal, loopGone} \subseteq BOOLEAN
  /\ settle \in {"idle", "testing", "parked", "settled", "timed_out"}
  /\ rd \in {"reading", "resolving", "done", "notify", "stopping", "draining", "ended"}
  /\ inHand \in Waiter \cup {NoWaiter}
  /\ chan \in 0 .. ChanCap
  /\ peer \in {"up", "leaving", "answered", "dead", "left"}
  /\ toPeer \in Seq(MsgIds) /\ working \subseteq MsgIds /\ toReader \in Seq(FromPeer)
  /\ events \in 0 .. MaxEvents

Init ==
  /\ pc = [c \in Callers |-> "idle"] /\ kind = [c \in Callers |-> "sync"]
  /\ id = [c \in Callers |-> 0]
  /\ nextMsgid = 1
  /\ waiters = {} /\ answer = [i \in MsgIds |-> "none"]
  /\ closed = FALSE /\ readerDone = FALSE /\ announced = FALSE
  /\ plock = FALSE /\ settle = "idle" /\ writerEnded = FALSE
  /\ rd = "reading" /\ inHand = NoWaiter /\ fatal = FALSE
  /\ chan = 0 /\ loopGone = FALSE
  /\ peer = "up" /\ toPeer = <<>> /\ working = {} /\ toReader = <<>> /\ events = 0

-----------------------------------------------------------------------------
(* Requests: send_request, request, request_timeout, request_async.        *)

Goto(c, where) == pc' = [pc EXCEPT ![c] = where]

(* The call's locals go with it. *)
Return(c) ==
  /\ Goto(c, "idle")
  /\ kind' = [kind EXCEPT ![c] = "sync"] /\ id' = [id EXCEPT ![c] = 0]

Allocate(c, k) ==
  /\ pc[c] = "idle" /\ nextMsgid <= MaxRequests
  /\ id' = [id EXCEPT ![c] = nextMsgid]
  /\ nextMsgid' = nextMsgid + 1
  /\ kind' = [kind EXCEPT ![c] = k]
  /\ Goto(c, "register")
  /\ UNCHANGED <<connVars, settleVars, writerEnded, readVars, loopVars, peerVars>>

(* Mutant: the waiter is inserted without testing the flag. *)
Register_Untested(c) ==
  /\ pc[c] = "register" /\ ~plock
  /\ waiters' = waiters \cup
        {[id |-> id[c], by |-> c, kind |-> IF kind[c] = "async" THEN "async" ELSE "reply"]}
  /\ Goto(c, "send")
  /\ UNCHANGED <<kind, id, nextMsgid, answer, closed, settleVars, writerEnded, readVars,
                 loopVars, peerVars>>

(* The closed flag is tested and the waiter inserted in one section. *)
Register(c) ==
  /\ pc[c] = "register" /\ ~plock
  /\ IF closed
       THEN Return(c) /\ UNCHANGED waiters
       ELSE /\ waiters' = waiters \cup
                 {[id |-> id[c], by |-> c, kind |-> IF kind[c] = "async" THEN "async" ELSE "reply"]}
            /\ Goto(c, "send") /\ UNCHANGED <<kind, id>>
  /\ UNCHANGED <<nextMsgid, answer, closed, settleVars, writerEnded, readVars,
                 loopVars, peerVars>>

(* What Outbox::send may answer now. *)
SendAnswers == IF ~Broken THEN {TRUE} ELSE IF writerEnded THEN {FALSE} ELSE {TRUE, FALSE}

Send(c) ==
  /\ pc[c] = "send"
  /\ \E sent \in SendAnswers :
       /\ toPeer' = IF sent THEN Append(toPeer, id[c]) ELSE toPeer
       /\ IF ~sent THEN Goto(c, "undo") /\ UNCHANGED <<kind, id>>
          ELSE IF kind[c] = "async" THEN Return(c)
          ELSE Goto(c, "waiting") /\ UNCHANGED <<kind, id>>
  /\ UNCHANGED <<nextMsgid, connVars, settleVars, writerEnded, readVars, loopVars,
                 peer, working, toReader, events>>

Drop(c) == waiters' = {w \in waiters : w.id # id[c]}

Undo(c) ==
  /\ pc[c] = "undo" /\ ~plock
  /\ Drop(c)
  /\ Return(c)
  /\ UNCHANGED <<nextMsgid, answer, closed, settleVars, writerEnded, readVars,
                 loopVars, peerVars>>

(* recv on the reply channel. *)
Answered(c) ==
  /\ pc[c] = "waiting" /\ answer[id[c]] # "none"
  /\ Return(c)
  /\ UNCHANGED <<nextMsgid, connVars, settleVars, writerEnded, readVars, loopVars,
                 peerVars>>

(* recv_timeout gave up; its waiter goes in a later section. *)
Expire(c) ==
  /\ pc[c] = "waiting" /\ kind[c] = "timed" /\ answer[id[c]] = "none"
  /\ Goto(c, "expired")
  /\ UNCHANGED <<kind, id, nextMsgid, connVars, settleVars, writerEnded, readVars,
                 loopVars, peerVars>>

(* Mutant: a timed-out call leaves its waiter in the map. *)
Forget_Leaks(c) ==
  /\ pc[c] = "expired"
  /\ Return(c)
  /\ UNCHANGED <<nextMsgid, connVars, settleVars, writerEnded, readVars, loopVars, peerVars>>

Forget(c) ==
  /\ pc[c] = "expired" /\ ~plock
  /\ Drop(c)
  /\ Return(c)
  /\ UNCHANGED <<nextMsgid, answer, closed, settleVars, writerEnded, readVars,
                 loopVars, peerVars>>

-----------------------------------------------------------------------------
(* close_and_drain: one section.  Only a waiter someone blocks on is told.  *)
CloseAndDrain ==
  /\ ~plock
  /\ waiters' = {}
  /\ closed' = TRUE
  /\ answer' = [i \in MsgIds |->
       IF \E w \in waiters : w.id = i /\ w.kind = "reply" THEN "Closed" ELSE answer[i]]

(* The writer thread fails a write on the broken pipe and closes.          *)
WriterFails ==
  /\ Broken /\ toPeer # <<>> /\ ~writerEnded
  /\ CloseAndDrain
  /\ writerEnded' = TRUE
  /\ UNCHANGED <<callVars, settleVars, readVars, loopVars, peerVars>>

-----------------------------------------------------------------------------
(* The reader thread.                                                      *)

Reads(type) == rd = "reading" /\ toReader # <<>> /\ Head(toReader).type = type

(* A response takes its waiter out under the lock. *)
TakeWaiter ==
  /\ Reads("response") /\ ~plock
  /\ toReader' = Tail(toReader)
  /\ LET mine == {w \in waiters : w.id = Head(toReader).id} IN
       /\ waiters' = waiters \ mine
       /\ IF mine = {} THEN UNCHANGED <<rd, inHand>>
          ELSE rd' = "resolving" /\ \E w \in mine : inHand' = w
  /\ UNCHANGED <<callVars, answer, closed, settleVars, writerEnded, fatal, loopVars, peer,
                 toPeer, working, events>>

(* Put on the loop's channel without blocking: dropped when it is full. *)
TrySend == chan' = IF loopGone \/ chan = ChanCap THEN chan ELSE chan + 1

(* It resolves the waiter it took: the caller's channel, or the pump. *)
Resolve ==
  /\ rd = "resolving"
  /\ IF inHand.kind = "reply"
       THEN answer' = [answer EXCEPT ![inHand.id] = "reply"] /\ UNCHANGED chan
       ELSE TrySend /\ UNCHANGED answer
  /\ rd' = "reading" /\ inHand' = NoWaiter
  /\ UNCHANGED <<callVars, waiters, closed, settleVars, writerEnded, fatal, loopGone, peerVars>>

(* A request nvim blocks on goes to the loop; one that cannot ends reading. *)
RouteRequest ==
  /\ Reads("request")
  /\ toReader' = Tail(toReader)
  /\ TrySend
  /\ IF loopGone \/ chan = ChanCap THEN rd' = "done" /\ fatal' = TRUE
     ELSE UNCHANGED <<rd, fatal>>
  /\ UNCHANGED <<callVars, connVars, settleVars, writerEnded, inHand, loopGone, peer, toPeer,
                 working, events>>

(* view_leaving is recorded and answered on this thread. *)
RecordLeaving ==
  /\ Reads("leaving")
  /\ toReader' = Tail(toReader)
  /\ announced' = TRUE
  /\ peer' = IF peer = "leaving" THEN "answered" ELSE peer
  /\ UNCHANGED <<callVars, connVars, readerDone, plock, settle, writerEnded, readVars, loopVars,
                 toPeer, working, events>>

(* What nvim wrote may decode to no value; that ends the loop, nvim up or not. *)
Undecodable ==
  /\ Reads("request")
  /\ toReader' = Tail(toReader)
  /\ rd' = "done" /\ fatal' = TRUE
  /\ UNCHANGED <<callVars, connVars, settleVars, writerEnded, inHand, loopVars, peer, toPeer,
                 working, events>>

(* Mutant: a broken pipe ends reading with bytes still unread. *)
EndOfStream_Early ==
  /\ rd = "reading" /\ Broken
  /\ rd' = "done"
  /\ UNCHANGED <<callVars, connVars, settleVars, writerEnded, inHand, fatal, loopVars, peerVars>>

EndOfStream ==
  /\ rd = "reading" /\ Broken /\ toReader = <<>>
  /\ rd' = "done"
  /\ UNCHANGED <<callVars, connVars, settleVars, writerEnded, inHand, fatal, loopVars, peerVars>>

(* Mutant: the flag is stored without the lock of the condition variable. *)
PublishDone_Unlocked ==
  /\ rd = "done"
  /\ readerDone' = TRUE
  /\ rd' = "notify"
  /\ UNCHANGED <<callVars, connVars, announced, plock, settle, writerEnded, inHand, fatal,
                 loopVars, peerVars>>

(* publish_reader_done: stored under the lock, notified outside it. *)
PublishDone ==
  /\ rd = "done" /\ ~plock
  /\ readerDone' = TRUE
  /\ rd' = "notify"
  /\ UNCHANGED <<callVars, connVars, announced, plock, settle, writerEnded, inHand, fatal,
                 loopVars, peerVars>>

NotifySettled ==
  /\ rd = "notify"
  /\ rd' = "stopping"
  /\ settle' = IF settle = "parked" THEN "settled" ELSE settle
  /\ UNCHANGED <<callVars, connVars, readerDone, announced, plock, writerEnded, inHand, fatal,
                 loopVars, peerVars>>

(* EngineStopped blocks until the channel has room, or the loop is gone. *)
RouteStopped ==
  /\ rd = "stopping" /\ (loopGone \/ chan < ChanCap)
  /\ TrySend
  /\ rd' = "draining"
  /\ UNCHANGED <<callVars, connVars, settleVars, writerEnded, inHand, fatal, loopGone, peerVars>>

(* Mutant: the reader ends with the flag set and the waiters left in place. *)
ReaderCloses_NoDrain ==
  /\ rd = "draining" /\ ~plock
  /\ closed' = TRUE
  /\ rd' = "ended"
  /\ UNCHANGED <<callVars, waiters, answer, settleVars, writerEnded, inHand, fatal, loopVars,
                 peerVars>>

ReaderCloses ==
  /\ rd = "draining"
  /\ CloseAndDrain
  /\ rd' = "ended"
  /\ UNCHANGED <<callVars, settleVars, writerEnded, inHand, fatal, loopVars, peerVars>>

Reader ==
  \/ TakeWaiter \/ Resolve \/ RouteRequest \/ RecordLeaving \/ Undecodable \/ EndOfStream
  \/ PublishDone \/ NotifySettled \/ RouteStopped \/ ReaderCloses

-----------------------------------------------------------------------------
(* wait_until_settled, once a stop has been noticed.  close_and_drain also  *)
(* notifies; it finds readerDone either way, so that wake is a no-op here.  *)

SettleTest ==
  /\ settle = "idle" /\ (Broken \/ readerDone) /\ ~plock
  /\ IF readerDone THEN settle' = "settled" /\ UNCHANGED plock
     ELSE settle' = "testing" /\ plock' = TRUE
  /\ UNCHANGED <<callVars, connVars, readerDone, announced, writerEnded, readVars, loopVars,
                 peerVars>>

SettlePark ==
  /\ settle = "testing"
  /\ settle' = "parked" /\ plock' = FALSE
  /\ UNCHANGED <<callVars, connVars, readerDone, announced, writerEnded, readVars, loopVars,
                 peerVars>>

SettleTimeout ==
  /\ settle = "parked"
  /\ settle' = IF readerDone THEN "settled" ELSE "timed_out"
  /\ UNCHANGED <<callVars, connVars, readerDone, announced, plock, writerEnded, readVars,
                 loopVars, peerVars>>

-----------------------------------------------------------------------------
(* The runtime loop's end of the channel, and nvim (external).             *)

LoopTakes ==
  /\ chan > 0 /\ ~loopGone
  /\ chan' = chan - 1
  /\ UNCHANGED <<callVars, connVars, settleVars, writerEnded, readVars, loopGone, peerVars>>

LoopExits ==
  /\ ~loopGone /\ loopGone' = TRUE
  /\ chan' = 0
  /\ UNCHANGED <<callVars, connVars, settleVars, writerEnded, readVars, peerVars>>

PeerTakes ==
  /\ ~Broken /\ toPeer # <<>>
  /\ working' = working \cup {Head(toPeer)} /\ toPeer' = Tail(toPeer)
  /\ UNCHANGED <<callVars, connVars, settleVars, writerEnded, readVars, loopVars, peer, toReader,
                 events>>

(* In any order: nvim answers some methods while its main loop is busy. *)
PeerResponds(i) ==
  /\ ~Broken /\ i \in working
  /\ working' = working \ {i}
  /\ toReader' = Append(toReader, [type |-> "response", id |-> i])
  /\ UNCHANGED <<callVars, connVars, settleVars, writerEnded, readVars, loopVars, peer, toPeer,
                 events>>

PeerRequests ==
  /\ peer = "up" /\ events < MaxEvents
  /\ events' = events + 1
  /\ toReader' = Append(toReader, [type |-> "request", id |-> 0])
  /\ UNCHANGED <<callVars, connVars, settleVars, writerEnded, readVars, loopVars, peer, toPeer,
                 working>>

PeerAnnounces ==
  /\ peer = "up" /\ events < MaxEvents
  /\ events' = events + 1
  /\ peer' = "leaving"
  /\ toReader' = Append(toReader, [type |-> "leaving", id |-> 0])
  /\ UNCHANGED <<callVars, connVars, settleVars, writerEnded, readVars, loopVars, toPeer, working>>

(* A crash, a kill, or the exit after the announcement was answered. *)
PeerDies ==
  /\ ~Broken
  /\ peer' = IF peer = "up" THEN "dead" ELSE "left"
  /\ working' = {}
  /\ UNCHANGED <<callVars, connVars, settleVars, writerEnded, readVars, loopVars, toPeer,
                 toReader, events>>

-----------------------------------------------------------------------------
Proceed(c) == Register(c) \/ Send(c) \/ Undo(c) \/ Answered(c) \/ Forget(c)
Caller(c) == Proceed(c) \/ Expire(c) \/ \E k \in {"sync", "timed", "async"} : Allocate(c, k)
Settler == SettleTest \/ SettlePark \/ SettleTimeout
Loop == LoopTakes \/ LoopExits
Peer ==
  \/ PeerTakes \/ (\E i \in MsgIds : PeerResponds(i))
  \/ PeerRequests \/ PeerAnnounces \/ PeerDies
Next == (\E c \in Callers : Caller(c)) \/ WriterFails \/ Reader \/ Settler \/ Loop \/ Peer

Spec == Init /\ [][Next]_vars

(* The threads of view run; the loop drains its channel while it lives.     *)
(* nvim owes nothing, a timeout need not fire, the writer may never notice. *)
FairSpec ==
  /\ Spec
  /\ \A c \in Callers : WF_vars(Proceed(c))
  /\ WF_vars(Reader) /\ WF_vars(LoopTakes) /\ WF_vars(SettlePark)

-----------------------------------------------------------------------------
(* Properties.                                                             *)

(* Once an observer can read closed, nobody is left waiting for a reply     *)
(* that can never come: every waiter is out of the map, and a caller still  *)
(* in recv has its answer in the channel, or the reader's hands.            *)
ClosedMeansNobodyWaits ==
  closed =>
    /\ waiters = {}
    /\ \A c \in Callers : pc[c] = "waiting" => answer[id[c]] # "none" \/ inHand.id = id[c]

(* A waiter is in the map only while its call can still use it: a call that *)
(* returned, by timeout or failure, leaves none behind for the handle's     *)
(* lifetime, and none is answered twice.                                    *)
NoWaiterLeaks ==
  \A w \in waiters :
    /\ answer[w.id] = "none" /\ inHand.id # w.id
    /\ w.kind = "reply" => id[w.by] = w.id /\ pc[w.by] \in {"send", "undo", "waiting", "expired"}

(* A wait for the reader that ends by itself finds every finding published: *)
(* an nvim that announced its exit is never read as one that died.          *)
SettledSeesTheAnnouncement ==
  settle = "settled" /\ ~fatal /\ peer = "left" => announced

(* The condition variable's wake is never lost: past the notification,      *)
(* nobody sleeps on a fact that already holds.                              *)
NoLostWake == rd \in {"stopping", "draining", "ended"} => settle # "parked" /\ settle # "testing"

(* Once nvim is gone every caller returns, also one that set no timeout,    *)
(* and so does the thread resolving the stop, also where its own bound never*)
(* fires: it is not parked after the only notification.                     *)
AllReturnOnceTheEngineIsGone ==
  Broken ~> []((\A c \in Callers : pc[c] = "idle") /\ settle \notin {"testing", "parked"})
=============================================================================
