---------------------------- MODULE HandleProofs ----------------------------
(***************************************************************************)
(* Proofs about Handle, for every set of callers, number of requests and   *)
(* capacity of the loop's channel.                                         *)
(***************************************************************************)
EXTENDS Handle, TLAPS

(* A msgid names one call: no two callers share one, the ones still to be  *)
(* given out are unanswered and unknown to the map.                        *)
MsgIdsAreFresh ==
  /\ \A c \in Callers : id[c] < nextMsgid /\ (pc[c] # "idle" => id[c] # 0)
  /\ \A c, d \in Callers : id[c] = id[d] /\ id[c] # 0 => c = d
  /\ \A i \in MsgIds : i >= nextMsgid => answer[i] = "none"
  /\ \A w \in waiters : w.id < nextMsgid
  /\ inHand.id < nextMsgid

(* A call that has not registered is unknown to the map and to the reader. *)
NotYetRegistered ==
  \A c \in Callers : pc[c] = "register" =>
    /\ answer[id[c]] = "none" /\ inHand.id # id[c]
    /\ \A w \in waiters : w.id # id[c]

(* A reply is owed by the map to the caller that still wants it.            *)
WaitersAreWanted ==
  /\ inHand = NoWaiter <=> rd # "resolving"
  /\ \A v, w \in waiters : v.id = w.id => v = w
  /\ \A w \in waiters :
       /\ answer[w.id] = "none" /\ inHand.id # w.id
       /\ w.kind = "reply" =>
            /\ id[w.by] = w.id /\ kind[w.by] # "async"
            /\ pc[w.by] \in {"send", "undo", "waiting", "expired"}

(* A caller that has registered is answered, or someone still owes it one. *)
Owed(c) == \E w \in waiters \cup {inHand} : w.id = id[c] /\ w.kind = "reply"
OwedTo(c) ==
  /\ pc[c] = "waiting" => kind[c] # "async"
  /\ pc[c] \in {"send", "undo", "waiting", "expired"} /\ kind[c] # "async" =>
       answer[id[c]] # "none" \/ Owed(c)
CallersAreOwed == \A c \in Callers : OwedTo(c)

(* The flag the settler sleeps on, its lock, and what the reader has read. *)
ReaderPast == rd \in {"notify", "stopping", "draining", "ended"}
SettleFollowsReader ==
  /\ readerDone <=> ReaderPast
  /\ plock <=> settle = "testing"
  /\ settle = "settled" => readerDone
  /\ readerDone => settle # "testing"
  /\ rd \notin {"reading", "resolving"} /\ ~fatal => Broken /\ toReader = <<>>

(* nvim's announcement is recorded or still on its way.                    *)
AnnouncementKept ==
  peer \in {"leaving", "answered", "left"} =>
    announced \/ \E i \in 1 .. Len(toReader) : toReader[i].type = "leaving"

IInv ==
  /\ TypeOK /\ MsgIdsAreFresh /\ NotYetRegistered /\ WaitersAreWanted /\ CallersAreOwed
  /\ (closed => waiters = {})
  /\ SettleFollowsReader /\ AnnouncementKept /\ NoLostWake

(* Taking the first of a queue. *)
LEMMA TakeFirst ==
  ASSUME NEW S, NEW s \in Seq(S), s # <<>>
  PROVE  /\ Tail(s) \in Seq(S) /\ Head(s) \in S /\ Head(s) = s[1]
         /\ Len(s) >= 1 /\ Len(Tail(s)) = Len(s) - 1
         /\ \A i \in 1 .. Len(Tail(s)) : Tail(s)[i] = s[i + 1]
OBVIOUS

(* Of a call that returned nothing stays, and the others keep what they had. *)
LEMMA Returned ==
  ASSUME TypeOK, BoundsAreNat, NEW c \in Callers, Return(c)
  PROVE  /\ pc' \in [Callers -> {"idle", "register", "send", "undo", "waiting", "expired"}]
         /\ kind' \in [Callers -> {"sync", "timed", "async"}]
         /\ id' \in [Callers -> 0 .. MaxRequests]
         /\ pc'[c] = "idle" /\ id'[c] = 0
         /\ \A d \in Callers : d # c => pc'[d] = pc[d] /\ kind'[d] = kind[d] /\ id'[d] = id[d]
BY DEF TypeOK, BoundsAreNat, Return, Goto

(* The same of what a send does to the callers. *)
LEMMA Sent ==
  ASSUME TypeOK, BoundsAreNat, NEW c \in Callers, Send(c)
  PROVE  /\ pc' \in [Callers -> {"idle", "register", "send", "undo", "waiting", "expired"}]
         /\ kind' \in [Callers -> {"sync", "timed", "async"}]
         /\ id' \in [Callers -> 0 .. MaxRequests]
         /\ \/ pc'[c] \in {"undo", "waiting"} /\ UNCHANGED <<kind, id>>
            \/ kind[c] = "async" /\ pc'[c] = "idle" /\ id'[c] = 0
         /\ pc'[c] = "waiting" => kind[c] # "async"
         /\ \A d \in Callers : d # c => pc'[d] = pc[d] /\ kind'[d] = kind[d] /\ id'[d] = id[d]
<1>1. PICK sent \in SendAnswers :
        IF ~sent THEN Goto(c, "undo") /\ UNCHANGED <<kind, id>>
        ELSE IF kind[c] = "async" THEN Return(c)
        ELSE Goto(c, "waiting") /\ UNCHANGED <<kind, id>>
  BY DEF Send
<1>2. CASE ~sent
  BY <1>1, <1>2 DEF TypeOK, Goto
<1>3. CASE sent /\ kind[c] = "async"
  <2>1. Return(c)
    BY <1>1, <1>3
  <2>2. QED
    BY <1>3, <2>1, Returned
<1>4. CASE sent /\ kind[c] # "async"
  BY <1>1, <1>4 DEF TypeOK, Goto
<1>5. QED
  BY <1>2, <1>3, <1>4

(* Every step keeps every variable in its type. *)
LEMMA NextTypeOK == ASSUME IInv, [Next]_vars PROVE TypeOK'
<1> USE BoundsAreNat DEF IInv, TypeOK, callVars, connVars, settleVars, readVars, loopVars,
    peerVars, MsgIds, Waiter, NoWaiter, FromPeer
<1>1. ASSUME NEW c \in Callers, NEW k \in {"sync", "timed", "async"}, Allocate(c, k)
      PROVE  TypeOK'
  BY <1>1 DEF Allocate, Goto
<1>2. ASSUME NEW c \in Callers, Register(c) PROVE TypeOK'
  <2>1. id[c] \in MsgIds
    BY <1>2 DEF Register, MsgIdsAreFresh
  <2>2. CASE closed
    <3>1. Return(c) /\ UNCHANGED waiters
      BY <1>2, <2>2 DEF Register
    <3>2. QED
      BY <1>2, <3>1, Returned, ZenonT(60) DEF Register
  <2>3. CASE ~closed
    <3>1. [id |-> id[c], by |-> c, kind |-> IF kind[c] = "async" THEN "async" ELSE "reply"]
            \in Waiter
      BY <2>1
    <3>2. waiters' \subseteq Waiter
      BY <1>2, <2>3, <3>1 DEF Register
    <3>3. QED
      <4>1. pc' \in [Callers -> {"idle", "register", "send", "undo", "waiting", "expired"}]
        BY <1>2, <2>3 DEF Register, Goto
      <4>2. UNCHANGED <<kind, id, nextMsgid, answer, closed, settleVars, writerEnded,
                        readVars, loopVars, peerVars>>
        BY <1>2, <2>3 DEF Register
      <4>3. QED
        BY <3>2, <4>1, <4>2, ZenonT(60)
  <2>4. QED
    BY <2>2, <2>3
<1>3. ASSUME NEW c \in Callers, Send(c) PROVE TypeOK'
  <2>1. id[c] \in MsgIds
    BY <1>3 DEF Send, MsgIdsAreFresh
  <2>2. Append(toPeer, id[c]) \in Seq(MsgIds)
    BY <2>1
  <2>3. toPeer' \in Seq(MsgIds)
    BY <1>3, <2>2 DEF Send
  <2>4. QED
    BY <1>3, <2>3, Sent, ZenonT(60) DEF Send
<1>4. ASSUME NEW c \in Callers, Undo(c) PROVE TypeOK'
  BY <1>4 DEF Undo, Drop, Goto, Return
<1>5. ASSUME NEW c \in Callers, Answered(c) PROVE TypeOK'
  <2>1. id[c] \in MsgIds
    BY <1>5 DEF Answered, MsgIdsAreFresh
  <2>2. answer[id[c]] \in {"reply", "Closed"}
    BY <1>5, <2>1 DEF Answered
  <2>3. QED
    BY <1>5, <2>2 DEF Answered, Goto, Return
<1>6. ASSUME NEW c \in Callers, Expire(c) PROVE TypeOK'
  BY <1>6 DEF Expire, Goto
<1>7. ASSUME NEW c \in Callers, Forget(c) PROVE TypeOK'
  BY <1>7 DEF Forget, Drop, Goto, Return
<1>8. ASSUME NEW i \in MsgIds, PeerResponds(i) PROVE TypeOK'
  BY <1>8 DEF PeerResponds
<1>9. ASSUME WriterFails PROVE TypeOK'
  BY <1>9 DEF WriterFails, CloseAndDrain
<1>10. ASSUME TakeWaiter PROVE TypeOK'
  <2>1. toReader' \in Seq(FromPeer)
    BY <1>10, TakeFirst DEF TakeWaiter, Reads
  <2>2. waiters' \subseteq Waiter /\ inHand' \in Waiter \cup {NoWaiter}
    BY <1>10 DEF TakeWaiter
  <2>3. rd' \in {"reading", "resolving"}
    BY <1>10 DEF TakeWaiter, Reads
  <2>4. QED
    BY <1>10, <2>1, <2>2, <2>3 DEF TakeWaiter
<1>11. ASSUME Resolve PROVE TypeOK'
  <2>1. inHand \in Waiter
    BY <1>11 DEF Resolve, WaitersAreWanted
  <2>2. inHand.id \in MsgIds
    BY <2>1
  <2>3. chan' \in 0 .. ChanCap
    BY <1>11 DEF Resolve, TrySend
  <2>4. answer' \in [MsgIds -> {"none", "reply", "Closed"}]
    BY <1>11, <2>2 DEF Resolve
  <2>5. QED
    BY <1>11, <2>3, <2>4 DEF Resolve
<1>12. ASSUME RouteRequest \/ Undecodable PROVE TypeOK'
  <2>1. toReader' \in Seq(FromPeer)
    <3>1. toReader' = Tail(toReader) /\ toReader # <<>> /\ toReader \in Seq(FromPeer)
      BY <1>12 DEF RouteRequest, Undecodable, Reads
    <3> HIDE DEF FromPeer
    <3>2. QED
      BY <3>1, TakeFirst
  <2>2. chan' \in 0 .. ChanCap
    BY <1>12 DEF RouteRequest, Undecodable, TrySend
  <2>3. rd' \in {"reading", "done"} /\ fatal' \in BOOLEAN
    BY <1>12 DEF RouteRequest, Undecodable, Reads
  <2>4. QED
    BY <1>12, <2>1, <2>2, <2>3 DEF RouteRequest, Undecodable
<1>13. ASSUME RecordLeaving PROVE TypeOK'
  <2>1. toReader' \in Seq(FromPeer)
    BY <1>13, TakeFirst DEF RecordLeaving, Reads
  <2>2. QED
    BY <1>13, <2>1 DEF RecordLeaving
<1>14. ASSUME EndOfStream PROVE TypeOK'
  BY <1>14 DEF EndOfStream
<1>15. ASSUME PublishDone PROVE TypeOK'
  BY <1>15 DEF PublishDone
<1>16. ASSUME NotifySettled PROVE TypeOK'
  BY <1>16 DEF NotifySettled
<1>17. ASSUME RouteStopped PROVE TypeOK'
  BY <1>17 DEF RouteStopped, TrySend
<1>18. ASSUME ReaderCloses PROVE TypeOK'
  BY <1>18 DEF ReaderCloses, CloseAndDrain
<1>19. ASSUME SettleTest PROVE TypeOK'
  BY <1>19 DEF SettleTest
<1>20. ASSUME SettlePark PROVE TypeOK'
  BY <1>20 DEF SettlePark
<1>21. ASSUME SettleTimeout PROVE TypeOK'
  BY <1>21 DEF SettleTimeout
<1>22. ASSUME LoopTakes PROVE TypeOK'
  BY <1>22 DEF LoopTakes
<1>23. ASSUME LoopExits PROVE TypeOK'
  BY <1>23 DEF LoopExits
<1>24. ASSUME PeerTakes PROVE TypeOK'
  <2>1. Tail(toPeer) \in Seq(MsgIds) /\ Head(toPeer) \in MsgIds
    BY <1>24, TakeFirst DEF PeerTakes
  <2>2. QED
    BY <1>24, <2>1, ZenonT(60) DEF PeerTakes
<1>25. ASSUME PeerRequests PROVE TypeOK'
  BY <1>25 DEF PeerRequests
<1>26. ASSUME PeerAnnounces PROVE TypeOK'
  BY <1>26 DEF PeerAnnounces
<1>27. ASSUME PeerDies PROVE TypeOK'
  BY <1>27 DEF PeerDies
<1>28. CASE UNCHANGED vars
  BY <1>28 DEF vars
<1>29. QED
  BY <1>1, <1>2, <1>3, <1>4, <1>5, <1>6, <1>7, <1>8, <1>9, <1>10, <1>11,
     <1>12, <1>13, <1>14, <1>15, <1>16, <1>17, <1>18, <1>19, <1>20, <1>21,
     <1>22, <1>23, <1>24, <1>25, <1>26, <1>27, <1>28
  DEF Next, Caller, Proceed, Reader, Settler, Loop, Peer, vars

(* A msgid is given out once. *)
LEMMA NextMsgIdsAreFresh == ASSUME IInv, [Next]_vars PROVE MsgIdsAreFresh'
<1> USE BoundsAreNat DEF IInv, TypeOK, MsgIdsAreFresh, callVars, connVars, settleVars, readVars,
    loopVars, peerVars, MsgIds, Waiter, NoWaiter
<1>1. ASSUME NEW c \in Callers, NEW k \in {"sync", "timed", "async"}, Allocate(c, k)
      PROVE  MsgIdsAreFresh'
  BY <1>1 DEF Allocate, Goto
<1>2. ASSUME NEW c \in Callers, Register(c) PROVE MsgIdsAreFresh'
  BY <1>2 DEF Register, Goto, Return
<1>3. ASSUME NEW c \in Callers, Send(c) PROVE MsgIdsAreFresh'
  <2>1. UNCHANGED <<nextMsgid, answer, waiters, inHand>>
    BY <1>3 DEF Send
  <2>2. \A d \in Callers : id'[d] \in {id[d], 0} /\ (pc'[d] # "idle" => id'[d] = id[d])
    BY <1>3, Sent
  <2>3. pc[c] = "send"
    BY <1>3 DEF Send
  <2>4. \A d \in Callers : pc'[d] # "idle" => pc[d] # "idle"
    BY <1>3, <2>3, Sent
  <2> HIDE DEF TypeOK
  <2>5. QED
    BY <2>1, <2>2, <2>4 DEF TypeOK
<1>4. ASSUME NEW c \in Callers, Undo(c) PROVE MsgIdsAreFresh'
  BY <1>4 DEF Undo, Drop, Goto, Return
<1>5. ASSUME NEW c \in Callers, Answered(c) PROVE MsgIdsAreFresh'
  BY <1>5 DEF Answered, Goto, Return
<1>6. ASSUME NEW c \in Callers, Expire(c) PROVE MsgIdsAreFresh'
  BY <1>6 DEF Expire, Goto
<1>7. ASSUME NEW c \in Callers, Forget(c) PROVE MsgIdsAreFresh'
  BY <1>7 DEF Forget, Drop, Goto, Return
<1>8. ASSUME WriterFails PROVE MsgIdsAreFresh'
  BY <1>8 DEF WriterFails, CloseAndDrain
<1>9. ASSUME TakeWaiter PROVE MsgIdsAreFresh'
  BY <1>9 DEF TakeWaiter, Reads
<1>10. ASSUME Resolve PROVE MsgIdsAreFresh'
  BY <1>10 DEF Resolve, TrySend
<1>11. ASSUME ReaderCloses PROVE MsgIdsAreFresh'
  BY <1>11 DEF ReaderCloses, CloseAndDrain
<1>12. ASSUME (\E i \in MsgIds : PeerResponds(i)) \/ RouteRequest \/ Undecodable
               \/ RecordLeaving \/ EndOfStream \/ PublishDone
               \/ NotifySettled \/ RouteStopped \/ SettleTest \/ SettlePark
               \/ SettleTimeout \/ LoopTakes \/ LoopExits \/ PeerTakes
               \/ PeerRequests \/ PeerAnnounces \/ PeerDies
      PROVE  UNCHANGED <<callVars, connVars, inHand>>
  BY <1>12 DEF PeerResponds, RouteRequest, Undecodable, Reads, TrySend, RecordLeaving,
      EndOfStream, PublishDone, NotifySettled, RouteStopped, SettleTest,
      SettlePark, SettleTimeout, LoopTakes, LoopExits, PeerTakes,
      PeerRequests, PeerAnnounces, PeerDies
<1>13. CASE UNCHANGED <<callVars, connVars, inHand>>
  BY <1>13
<1>14. QED
  BY <1>1, <1>2, <1>3, <1>4, <1>5, <1>6, <1>7, <1>8, <1>9, <1>10, <1>11,
     <1>12, <1>13
  DEF Next, Caller, Proceed, Reader, Settler, Loop, Peer, vars

(* Nothing is said of a msgid before its call has registered. *)
LEMMA NextNotYetRegistered == ASSUME IInv, [Next]_vars PROVE NotYetRegistered'
<1> USE BoundsAreNat DEF IInv, TypeOK, MsgIdsAreFresh, NotYetRegistered, callVars, connVars,
    settleVars, readVars, loopVars, peerVars, MsgIds, Waiter, NoWaiter
<1>1. ASSUME NEW c \in Callers, NEW k \in {"sync", "timed", "async"}, Allocate(c, k)
      PROVE  NotYetRegistered'
  BY <1>1 DEF Allocate, Goto
<1>2. ASSUME NEW c \in Callers, Register(c) PROVE NotYetRegistered'
  BY <1>2 DEF Register, Goto, Return
<1>3. ASSUME NEW c \in Callers, Send(c) PROVE NotYetRegistered'
  <2>1. UNCHANGED <<answer, waiters, inHand>>
    BY <1>3 DEF Send
  <2>2. \A d \in Callers : pc'[d] = "register" => pc[d] = "register" /\ id'[d] = id[d]
    BY <1>3, Sent
  <2>3. QED
    BY <2>1, <2>2
<1>4. ASSUME NEW c \in Callers, Undo(c) PROVE NotYetRegistered'
  BY <1>4 DEF Undo, Drop, Goto, Return
<1>5. ASSUME NEW c \in Callers, Answered(c) PROVE NotYetRegistered'
  BY <1>5 DEF Answered, Goto, Return
<1>6. ASSUME NEW c \in Callers, Expire(c) PROVE NotYetRegistered'
  BY <1>6 DEF Expire, Goto
<1>7. ASSUME NEW c \in Callers, Forget(c) PROVE NotYetRegistered'
  BY <1>7 DEF Forget, Drop, Goto, Return
<1>8. ASSUME WriterFails PROVE NotYetRegistered'
  BY <1>8 DEF WriterFails, CloseAndDrain
<1>9. ASSUME TakeWaiter PROVE NotYetRegistered'
  BY <1>9 DEF TakeWaiter, Reads
<1>10. ASSUME Resolve PROVE NotYetRegistered'
  BY <1>10 DEF Resolve, TrySend
<1>11. ASSUME ReaderCloses PROVE NotYetRegistered'
  BY <1>11 DEF ReaderCloses, CloseAndDrain
<1>12. ASSUME (\E i \in MsgIds : PeerResponds(i)) \/ RouteRequest \/ Undecodable
               \/ RecordLeaving \/ EndOfStream \/ PublishDone
               \/ NotifySettled \/ RouteStopped \/ SettleTest \/ SettlePark
               \/ SettleTimeout \/ LoopTakes \/ LoopExits \/ PeerTakes
               \/ PeerRequests \/ PeerAnnounces \/ PeerDies
      PROVE  UNCHANGED <<callVars, connVars, inHand>>
  BY <1>12 DEF PeerResponds, RouteRequest, Undecodable, Reads, TrySend, RecordLeaving,
      EndOfStream, PublishDone, NotifySettled, RouteStopped, SettleTest,
      SettlePark, SettleTimeout, LoopTakes, LoopExits, PeerTakes,
      PeerRequests, PeerAnnounces, PeerDies
<1>13. CASE UNCHANGED <<callVars, connVars, inHand>>
  BY <1>13
<1>14. QED
  BY <1>1, <1>2, <1>3, <1>4, <1>5, <1>6, <1>7, <1>8, <1>9, <1>10, <1>11,
     <1>12, <1>13
  DEF Next, Caller, Proceed, Reader, Settler, Loop, Peer, vars

(* No step leaves a waiter behind its call, or answers one in the map. *)
LEMMA NextWaitersAreWanted == ASSUME IInv, [Next]_vars PROVE WaitersAreWanted'
<1> USE BoundsAreNat DEF IInv, TypeOK, MsgIdsAreFresh, NotYetRegistered, WaitersAreWanted, callVars,
    connVars, settleVars, readVars, loopVars, peerVars, MsgIds, Waiter, NoWaiter
<1>1. ASSUME NEW c \in Callers, NEW k \in {"sync", "timed", "async"}, Allocate(c, k)
      PROVE  WaitersAreWanted'
  BY <1>1 DEF Allocate, Goto
<1>2. ASSUME NEW c \in Callers, Register(c) PROVE WaitersAreWanted'
  <2>1. UNCHANGED <<answer, inHand, rd>>
    BY <1>2 DEF Register
  <2>2. CASE closed
    <3>1. waiters' = waiters /\ pc[c] = "register" /\ Return(c)
      BY <1>2, <2>2 DEF Register
    <3>2. \A w \in waiters : w.kind = "reply" => w.by \in Callers /\ w.by # c
      BY <3>1
    <3>3. \A d \in Callers : d # c => pc'[d] = pc[d] /\ kind'[d] = kind[d] /\ id'[d] = id[d]
      BY <3>1, Returned
    <3>4. QED
      BY <2>1, <3>1, <3>2, <3>3
  <2>3. CASE ~closed
    <3> DEFINE w == [id |-> id[c], by |-> c,
                     kind |-> IF kind[c] = "async" THEN "async" ELSE "reply"]
    <3>1. waiters' = waiters \cup {w} /\ pc' = [pc EXCEPT ![c] = "send"]
          /\ UNCHANGED <<kind, id>>
      BY <1>2, <2>3 DEF Register, Goto
    <3>2. /\ w.id = id[c] /\ w.by = c
          /\ answer[id[c]] = "none" /\ inHand.id # id[c]
          /\ (w.kind = "reply" => kind[c] # "async")
          /\ \A v \in waiters : v.id # id[c]
      BY <1>2 DEF Register
    <3>3. \A v \in waiters' : v.kind = "reply" =>
            /\ id[v.by] = v.id /\ kind[v.by] # "async"
            /\ pc'[v.by] \in {"send", "undo", "waiting", "expired"}
      BY <3>1, <3>2
    <3> HIDE DEF w
    <3>4. QED
      BY <2>1, <3>1, <3>2, <3>3
  <2>4. QED
    BY <2>2, <2>3
<1>3. ASSUME NEW c \in Callers, Send(c) PROVE WaitersAreWanted'
  <2>1. UNCHANGED <<answer, waiters, inHand, rd>>
    BY <1>3 DEF Send
  <2>2. ASSUME NEW w \in waiters, w.kind = "reply"
        PROVE  /\ id'[w.by] = w.id /\ kind'[w.by] # "async"
               /\ pc'[w.by] \in {"send", "undo", "waiting", "expired"}
    <3>1. /\ w.by \in Callers /\ kind[w.by] # "async" /\ id[w.by] = w.id
          /\ pc[w.by] \in {"send", "undo", "waiting", "expired"}
      BY <2>2
    <3>2. CASE w.by = c
      BY <1>3, <3>1, <3>2, Sent
    <3>3. CASE w.by # c
      BY <1>3, <3>1, <3>3, Sent
    <3>4. QED
      BY <3>2, <3>3
  <2>3. QED
    BY <2>1, <2>2
<1>4. ASSUME NEW c \in Callers, Undo(c) PROVE WaitersAreWanted'
  BY <1>4 DEF Undo, Drop, Goto, Return
<1>5. ASSUME NEW c \in Callers, Answered(c) PROVE WaitersAreWanted'
  BY <1>5 DEF Answered, Goto, Return
<1>6. ASSUME NEW c \in Callers, Expire(c) PROVE WaitersAreWanted'
  BY <1>6 DEF Expire, Goto
<1>7. ASSUME NEW c \in Callers, Forget(c) PROVE WaitersAreWanted'
  BY <1>7 DEF Forget, Drop, Goto, Return
<1>8. ASSUME WriterFails PROVE WaitersAreWanted'
  BY <1>8 DEF WriterFails, CloseAndDrain
<1>9. ASSUME TakeWaiter PROVE WaitersAreWanted'
  BY <1>9 DEF TakeWaiter, Reads
<1>10. ASSUME Resolve PROVE WaitersAreWanted'
  BY <1>10 DEF Resolve, TrySend
<1>11. ASSUME RouteRequest \/ Undecodable PROVE WaitersAreWanted'
  BY <1>11 DEF RouteRequest, Undecodable, Reads, TrySend
<1>12. ASSUME EndOfStream PROVE WaitersAreWanted'
  BY <1>12 DEF EndOfStream
<1>13. ASSUME PublishDone PROVE WaitersAreWanted'
  BY <1>13 DEF PublishDone
<1>14. ASSUME NotifySettled PROVE WaitersAreWanted'
  BY <1>14 DEF NotifySettled
<1>15. ASSUME RouteStopped PROVE WaitersAreWanted'
  BY <1>15 DEF RouteStopped, TrySend
<1>16. ASSUME ReaderCloses PROVE WaitersAreWanted'
  BY <1>16 DEF ReaderCloses, CloseAndDrain
<1>17. ASSUME (\E i \in MsgIds : PeerResponds(i)) \/ RecordLeaving
               \/ SettleTest \/ SettlePark \/ SettleTimeout \/ LoopTakes
               \/ LoopExits \/ PeerTakes \/ PeerRequests \/ PeerAnnounces
               \/ PeerDies
      PROVE  UNCHANGED <<callVars, connVars, rd, inHand>>
  BY <1>17 DEF PeerResponds, RecordLeaving, Reads, SettleTest, SettlePark,
      SettleTimeout, LoopTakes, LoopExits, PeerTakes, PeerRequests,
      PeerAnnounces, PeerDies
<1>18. CASE UNCHANGED <<callVars, connVars, rd, inHand>>
  BY <1>18
<1>19. QED
  BY <1>1, <1>2, <1>3, <1>4, <1>5, <1>6, <1>7, <1>8, <1>9, <1>10, <1>11,
     <1>12, <1>13, <1>14, <1>15, <1>16, <1>17, <1>18
  DEF Next, Caller, Proceed, Reader, Settler, Loop, Peer, vars

(* No step drops what a caller in recv is owed. *)
LEMMA NextCallersAreOwed == ASSUME IInv, [Next]_vars PROVE CallersAreOwed'
<1> USE BoundsAreNat DEF IInv, TypeOK, MsgIdsAreFresh, NotYetRegistered, WaitersAreWanted,
    CallersAreOwed, callVars, connVars, settleVars, readVars, loopVars, peerVars,
    MsgIds, Waiter, NoWaiter
<1>1. ASSUME NEW c \in Callers, NEW k \in {"sync", "timed", "async"}, Allocate(c, k)
      PROVE  CallersAreOwed'
  <2> SUFFICES ASSUME NEW d \in Callers PROVE OwedTo(d)'
    OBVIOUS
  <2>1. UNCHANGED <<answer, waiters, inHand>> /\ OwedTo(d)
    BY <1>1 DEF Allocate
  <2>2. CASE d = c
    BY <1>1, <2>2 DEF Allocate, Goto, OwedTo
  <2>3. CASE d # c
    BY <1>1, <2>1, <2>3 DEF Allocate, Goto, OwedTo, Owed
  <2>4. QED
    BY <2>2, <2>3
<1>2. ASSUME NEW c \in Callers, Register(c) PROVE CallersAreOwed'
  <2> SUFFICES ASSUME NEW d \in Callers PROVE OwedTo(d)'
    OBVIOUS
  <2>1. UNCHANGED <<answer, inHand>> /\ OwedTo(d)
    BY <1>2 DEF Register
  <2>0. ~closed => UNCHANGED <<kind, id>>
    BY <1>2 DEF Register
  <2>2. CASE closed
    <3>1. waiters' = waiters /\ Return(c)
      BY <1>2, <2>2 DEF Register
    <3>2. \/ pc'[d] = "idle"
          \/ pc'[d] = pc[d] /\ id'[d] = id[d] /\ kind'[d] = kind[d]
      BY <3>1, Returned
    <3>3. QED
      BY <2>1, <3>1, <3>2 DEF OwedTo, Owed
  <2>3. CASE ~closed /\ d = c
    <3>1. kind[c] # "async" =>
            [id |-> id[c], by |-> c, kind |-> "reply"] \in waiters'
      BY <1>2, <2>3 DEF Register
    <3>2. kind[c] # "async" => Owed(c)'
      <4> HIDE DEF TypeOK, WaitersAreWanted, CallersAreOwed, NotYetRegistered, MsgIdsAreFresh
      <4>1. id'[c] = id[c]
        BY <2>0, <2>3
      <4>2. QED
        BY <3>1, <4>1 DEF Owed
    <3>3. pc'[c] = "send"
      BY <1>2, <2>3 DEF Register, Goto
    <3>4. QED
      BY <2>0, <2>1, <2>3, <3>2, <3>3 DEF OwedTo
  <2>4. CASE ~closed /\ d # c
    <3>1. pc'[d] = pc[d] /\ waiters \subseteq waiters'
      BY <1>2, <2>4 DEF Register, Goto
    <3>2. QED
      BY <2>0, <2>1, <2>4, <3>1 DEF OwedTo, Owed
  <2>5. QED
    BY <2>2, <2>3, <2>4
<1>3. ASSUME NEW c \in Callers, Send(c) PROVE CallersAreOwed'
  <2> SUFFICES ASSUME NEW d \in Callers PROVE OwedTo(d)'
    OBVIOUS
  <2>1. UNCHANGED <<answer, waiters, inHand>> /\ OwedTo(d) /\ pc[c] = "send"
    BY <1>3 DEF Send
  <2>2. \/ pc'[d] = "idle"
        \/ /\ id'[d] = id[d] /\ kind'[d] = kind[d]
           /\ pc'[d] \in {"send", "undo", "waiting", "expired"} =>
                pc[d] \in {"send", "undo", "waiting", "expired"}
           /\ pc'[d] = "waiting" => kind[d] # "async"
    <3>1. CASE d = c
      BY <1>3, <2>1, <3>1, Sent
    <3>2. CASE d # c
      BY <1>3, <2>1, <3>2, Sent DEF OwedTo
    <3>3. QED
      BY <3>1, <3>2
  <2>3. QED
    BY <2>1, <2>2 DEF OwedTo, Owed
<1>4. ASSUME NEW c \in Callers, Undo(c) PROVE CallersAreOwed'
  <2> SUFFICES ASSUME NEW d \in Callers PROVE OwedTo(d)'
    OBVIOUS
  <2>1. UNCHANGED <<answer, inHand>> /\ OwedTo(d) /\ Return(c)
    BY <1>4 DEF Undo
  <2>2. CASE d = c
    BY <2>1, <2>2, Returned DEF OwedTo
  <2>3. CASE d # c
    <3>1. pc'[d] = pc[d] /\ kind'[d] = kind[d] /\ id'[d] = id[d]
      BY <2>1, <2>3, Returned
    <3>2. Owed(d) /\ id[d] # 0 => Owed(d)'
      BY <1>4, <2>1, <2>3, <3>1 DEF Undo, Drop, Owed
    <3>3. QED
      BY <2>1, <3>1, <3>2 DEF OwedTo
  <2>4. QED
    BY <2>2, <2>3
<1>5. ASSUME NEW c \in Callers, Answered(c) PROVE CallersAreOwed'
  <2> SUFFICES ASSUME NEW d \in Callers PROVE OwedTo(d)'
    OBVIOUS
  <2>1. UNCHANGED <<answer, waiters, inHand>> /\ OwedTo(d) /\ Return(c)
    BY <1>5 DEF Answered
  <2>2. \/ pc'[d] = "idle"
        \/ pc'[d] = pc[d] /\ id'[d] = id[d] /\ kind'[d] = kind[d]
    BY <2>1, Returned
  <2>3. QED
    BY <2>1, <2>2 DEF OwedTo, Owed
<1>6. ASSUME NEW c \in Callers, Expire(c) PROVE CallersAreOwed'
  <2> SUFFICES ASSUME NEW d \in Callers PROVE OwedTo(d)'
    OBVIOUS
  <2>1. UNCHANGED <<id, kind, answer, waiters, inHand>> /\ OwedTo(d)
    BY <1>6 DEF Expire
  <2>2. /\ pc'[d] \in {"send", "undo", "waiting", "expired"} =>
             pc[d] \in {"send", "undo", "waiting", "expired"}
        /\ pc'[d] = "waiting" => pc[d] = "waiting" \/ kind[d] # "async"
    BY <1>6 DEF Expire, Goto, Return
  <2>3. QED
    BY <2>1, <2>2 DEF OwedTo, Owed
<1>7. ASSUME NEW c \in Callers, Forget(c) PROVE CallersAreOwed'
  <2> SUFFICES ASSUME NEW d \in Callers PROVE OwedTo(d)'
    OBVIOUS
  <2>1. UNCHANGED <<answer, inHand>> /\ OwedTo(d) /\ Return(c)
    BY <1>7 DEF Forget
  <2>2. CASE d = c
    BY <2>1, <2>2, Returned DEF OwedTo
  <2>3. CASE d # c
    <3>1. pc'[d] = pc[d] /\ kind'[d] = kind[d] /\ id'[d] = id[d]
      BY <2>1, <2>3, Returned
    <3>2. Owed(d) /\ id[d] # 0 => Owed(d)'
      BY <1>7, <2>1, <2>3, <3>1 DEF Forget, Drop, Owed
    <3>3. QED
      BY <2>1, <3>1, <3>2 DEF OwedTo
  <2>4. QED
    BY <2>2, <2>3
<1>8. ASSUME WriterFails PROVE CallersAreOwed'
  <2> SUFFICES ASSUME NEW d \in Callers PROVE OwedTo(d)'
    OBVIOUS
  <2>1. UNCHANGED <<pc, id, kind, inHand>> /\ OwedTo(d)
    BY <1>8 DEF WriterFails
  <2>2. pc[d] # "idle" => id[d] \in MsgIds
    OBVIOUS
  <2>3. /\ id[d] \in MsgIds /\ answer[id[d]] # "none" => answer'[id[d]] # "none"
        /\ id[d] \in MsgIds /\ Owed(d) => answer'[id[d]] # "none" \/ Owed(d)'
    BY <1>8, <2>1 DEF WriterFails, CloseAndDrain, Owed
  <2>4. QED
    BY <2>1, <2>2, <2>3 DEF OwedTo
<1>9. ASSUME TakeWaiter PROVE CallersAreOwed'
  <2> SUFFICES ASSUME NEW d \in Callers PROVE OwedTo(d)'
    OBVIOUS
  <2>1. UNCHANGED <<pc, id, kind, answer>> /\ OwedTo(d)
    BY <1>9 DEF TakeWaiter
  <2>2. inHand = NoWaiter /\ (pc[d] # "idle" => id[d] # 0)
    BY <1>9 DEF TakeWaiter, Reads
  <2>3. waiters \subseteq waiters' \cup {inHand'}
    BY <1>9 DEF TakeWaiter
  <2>4. pc[d] # "idle" /\ Owed(d) => Owed(d)'
    BY <2>1, <2>2, <2>3 DEF Owed
  <2>5. QED
    BY <2>1, <2>4 DEF OwedTo
<1>10. ASSUME Resolve PROVE CallersAreOwed'
  <2> SUFFICES ASSUME NEW d \in Callers PROVE OwedTo(d)'
    OBVIOUS
  <2>1. UNCHANGED <<pc, id, kind, waiters>> /\ OwedTo(d) /\ inHand \in Waiter
    BY <1>10 DEF Resolve
  <2>2. pc[d] # "idle" => id[d] \in MsgIds
    OBVIOUS
  <2>3. /\ id[d] \in MsgIds /\ answer[id[d]] # "none" => answer'[id[d]] # "none"
        /\ id[d] \in MsgIds /\ Owed(d) => answer'[id[d]] # "none" \/ Owed(d)'
    BY <1>10, <2>1 DEF Resolve, Owed
  <2>4. QED
    BY <2>1, <2>2, <2>3 DEF OwedTo
<1>11. ASSUME ReaderCloses PROVE CallersAreOwed'
  <2> SUFFICES ASSUME NEW d \in Callers PROVE OwedTo(d)'
    OBVIOUS
  <2>1. UNCHANGED <<pc, id, kind, inHand>> /\ OwedTo(d)
    BY <1>11 DEF ReaderCloses
  <2>2. pc[d] # "idle" => id[d] \in MsgIds
    OBVIOUS
  <2>3. /\ id[d] \in MsgIds /\ answer[id[d]] # "none" => answer'[id[d]] # "none"
        /\ id[d] \in MsgIds /\ Owed(d) => answer'[id[d]] # "none" \/ Owed(d)'
    BY <1>11, <2>1 DEF ReaderCloses, CloseAndDrain, Owed
  <2>4. QED
    BY <2>1, <2>2, <2>3 DEF OwedTo
<1>12. ASSUME (\E i \in MsgIds : PeerResponds(i)) \/ RouteRequest \/ Undecodable
               \/ RecordLeaving \/ EndOfStream \/ PublishDone
               \/ NotifySettled \/ RouteStopped \/ SettleTest \/ SettlePark
               \/ SettleTimeout \/ LoopTakes \/ LoopExits \/ PeerTakes
               \/ PeerRequests \/ PeerAnnounces \/ PeerDies
      PROVE  UNCHANGED <<callVars, connVars, inHand>>
  BY <1>12 DEF PeerResponds, RouteRequest, Undecodable, Reads, TrySend, RecordLeaving,
      EndOfStream, PublishDone, NotifySettled, RouteStopped, SettleTest,
      SettlePark, SettleTimeout, LoopTakes, LoopExits, PeerTakes,
      PeerRequests, PeerAnnounces, PeerDies
<1>13. CASE UNCHANGED <<callVars, connVars, inHand>>
  BY <1>13 DEF OwedTo, Owed
<1>14. QED
  BY <1>1, <1>2, <1>3, <1>4, <1>5, <1>6, <1>7, <1>8, <1>9, <1>10, <1>11,
     <1>12, <1>13
  DEF Next, Caller, Proceed, Reader, Settler, Loop, Peer, vars

(* The flag, its lock and the settler move together. *)
LEMMA NextSettleFollowsReader == ASSUME IInv, [Next]_vars PROVE SettleFollowsReader'
<1> USE DEF IInv, TypeOK, SettleFollowsReader, ReaderPast, Broken, callVars, connVars, settleVars,
    readVars, loopVars, peerVars
<1>1. ASSUME NEW i \in MsgIds, PeerResponds(i) PROVE SettleFollowsReader'
  BY <1>1 DEF PeerResponds
<1>2. ASSUME TakeWaiter PROVE SettleFollowsReader'
  BY <1>2 DEF TakeWaiter, Reads
<1>3. ASSUME Resolve PROVE SettleFollowsReader'
  BY <1>3 DEF Resolve, TrySend
<1>4. ASSUME RouteRequest \/ Undecodable PROVE SettleFollowsReader'
  BY <1>4 DEF RouteRequest, Undecodable, Reads, TrySend
<1>5. ASSUME RecordLeaving PROVE SettleFollowsReader'
  BY <1>5 DEF RecordLeaving, Reads
<1>6. ASSUME EndOfStream PROVE SettleFollowsReader'
  BY <1>6 DEF EndOfStream
<1>7. ASSUME PublishDone PROVE SettleFollowsReader'
  BY <1>7 DEF PublishDone
<1>8. ASSUME NotifySettled PROVE SettleFollowsReader'
  BY <1>8 DEF NotifySettled
<1>9. ASSUME RouteStopped PROVE SettleFollowsReader'
  BY <1>9 DEF RouteStopped, TrySend
<1>10. ASSUME ReaderCloses PROVE SettleFollowsReader'
  BY <1>10 DEF ReaderCloses, CloseAndDrain
<1>11. ASSUME SettleTest PROVE SettleFollowsReader'
  BY <1>11 DEF SettleTest
<1>12. ASSUME SettlePark PROVE SettleFollowsReader'
  BY <1>12 DEF SettlePark
<1>13. ASSUME SettleTimeout PROVE SettleFollowsReader'
  BY <1>13 DEF SettleTimeout
<1>14. ASSUME PeerRequests PROVE SettleFollowsReader'
  BY <1>14 DEF PeerRequests
<1>15. ASSUME PeerAnnounces PROVE SettleFollowsReader'
  BY <1>15 DEF PeerAnnounces
<1>16. ASSUME PeerDies PROVE SettleFollowsReader'
  BY <1>16 DEF PeerDies
<1>17. ASSUME (\E c \in Callers : Caller(c)) \/ WriterFails \/ LoopTakes
               \/ LoopExits \/ PeerTakes
      PROVE  UNCHANGED <<settleVars, rd, fatal, peer, toReader>>
  BY <1>17 DEF Caller, Proceed, Allocate, Goto, Register, Return, Send,
      SendAnswers, Undo, Drop, Answered, Expire, Forget, WriterFails,
      CloseAndDrain, LoopTakes, LoopExits, PeerTakes
<1>18. CASE UNCHANGED <<settleVars, rd, fatal, peer, toReader>>
  BY <1>18
<1>19. QED
  BY <1>1, <1>2, <1>3, <1>4, <1>5, <1>6, <1>7, <1>8, <1>9, <1>10, <1>11,
     <1>12, <1>13, <1>14, <1>15, <1>16, <1>17, <1>18
  DEF Next, Caller, Proceed, Reader, Settler, Loop, Peer, vars

(* The announcement is never dropped unread. *)
LEMMA NextAnnouncementKept == ASSUME IInv, [Next]_vars PROVE AnnouncementKept'
<1> USE DEF IInv, TypeOK, AnnouncementKept, FromPeer, Broken, callVars, connVars,
    settleVars, readVars, loopVars, peerVars
<1>1. ASSUME NEW i \in MsgIds, PeerResponds(i) PROVE AnnouncementKept'
  BY <1>1 DEF PeerResponds
<1>2. ASSUME TakeWaiter PROVE AnnouncementKept'
  <2>1. \A i \in 1 .. Len(toReader) : toReader[i].type = "leaving" =>
          i - 1 \in 1 .. Len(toReader') /\ toReader'[i - 1].type = "leaving"
    BY <1>2, TakeFirst DEF TakeWaiter, Reads
  <2>2. UNCHANGED <<peer, announced>>
    BY <1>2 DEF TakeWaiter
  <2>3. QED
    BY <2>1, <2>2
<1>3. ASSUME RouteRequest \/ Undecodable PROVE AnnouncementKept'
  <2>1. \A i \in 1 .. Len(toReader) : toReader[i].type = "leaving" =>
          i - 1 \in 1 .. Len(toReader') /\ toReader'[i - 1].type = "leaving"
    <3>1. /\ toReader' = Tail(toReader) /\ toReader # <<>> /\ toReader \in Seq(FromPeer)
          /\ Head(toReader).type # "leaving"
      BY <1>3 DEF RouteRequest, Undecodable, Reads
    <3> HIDE DEF FromPeer
    <3>2. QED
      BY <3>1, TakeFirst
  <2>2. UNCHANGED <<peer, announced>>
    BY <1>3 DEF RouteRequest, Undecodable
  <2>3. QED
    BY <2>1, <2>2
<1>4. ASSUME RecordLeaving PROVE AnnouncementKept'
  BY <1>4 DEF RecordLeaving, Reads
<1>5. ASSUME PeerRequests PROVE AnnouncementKept'
  BY <1>5 DEF PeerRequests
<1>6. ASSUME PeerAnnounces PROVE AnnouncementKept'
  BY <1>6 DEF PeerAnnounces
<1>7. ASSUME PeerDies PROVE AnnouncementKept'
  BY <1>7 DEF PeerDies
<1>8. ASSUME (\E c \in Callers : Caller(c)) \/ WriterFails \/ Resolve
               \/ EndOfStream \/ PublishDone \/ NotifySettled \/ RouteStopped
               \/ ReaderCloses \/ SettleTest \/ SettlePark \/ SettleTimeout
               \/ LoopTakes \/ LoopExits \/ PeerTakes
      PROVE  UNCHANGED <<announced, peer, toReader>>
  BY <1>8 DEF Caller, Proceed, Allocate, Goto, Register, Return, Send,
      SendAnswers, Undo, Drop, Answered, Expire, Forget, WriterFails,
      CloseAndDrain, Resolve, TrySend, EndOfStream, PublishDone,
      NotifySettled, RouteStopped, ReaderCloses, SettleTest, SettlePark,
      SettleTimeout, LoopTakes, LoopExits, PeerTakes
<1>9. CASE UNCHANGED <<announced, peer, toReader>>
  BY <1>9
<1>10. QED
  BY <1>1, <1>2, <1>3, <1>4, <1>5, <1>6, <1>7, <1>8, <1>9
  DEF Next, Caller, Proceed, Reader, Settler, Loop, Peer, vars

(* The initial state. *)
LEMMA InitIInv == Init => IInv
<1> SUFFICES ASSUME Init PROVE IInv
  OBVIOUS
<1>1. TypeOK
  <2>1. {closed, readerDone, announced, plock, writerEnded, fatal, loopGone} \subseteq BOOLEAN
    BY Zenon DEF Init
  <2>2. /\ toPeer \in Seq(MsgIds) /\ toReader \in Seq(FromPeer) /\ working \subseteq MsgIds
        /\ waiters \subseteq Waiter /\ inHand \in Waiter \cup {NoWaiter}
    BY DEF Init
  <2>3. /\ answer \in [MsgIds -> {"none", "reply", "Closed"}]
        /\ id \in [Callers -> 0 .. MaxRequests]
        /\ nextMsgid \in 1 .. MaxRequests + 1
        /\ chan \in 0 .. ChanCap /\ events \in 0 .. MaxEvents
    BY BoundsAreNat DEF Init
  <2>4. QED
    BY <2>1, <2>2, <2>3 DEF Init, TypeOK
<1>2. MsgIdsAreFresh /\ NotYetRegistered /\ WaitersAreWanted /\ CallersAreOwed
  BY DEF Init, MsgIdsAreFresh, NotYetRegistered, WaitersAreWanted, CallersAreOwed, OwedTo,
         NoWaiter
<1>3. SettleFollowsReader /\ AnnouncementKept /\ NoLostWake /\ (closed => waiters = {})
  BY DEF Init, SettleFollowsReader, ReaderPast, AnnouncementKept, NoLostWake
<1>4. QED
  BY <1>1, <1>2, <1>3 DEF IInv

(* Once the connection is closed nothing enters the map again. *)
LEMMA NextClosed == ASSUME IInv, [Next]_vars PROVE (closed => waiters = {})'
<1> USE DEF IInv, callVars, connVars, settleVars, readVars, loopVars, peerVars
<1>1. ASSUME NEW c \in Callers, Caller(c) PROVE (closed => waiters = {})'
  BY <1>1 DEF Caller, Proceed, Allocate, Register, Send, Undo, Answered, Expire, Forget, Drop
<1>2. ASSUME WriterFails \/ Reader PROVE (closed => waiters = {})'
  BY <1>2 DEF WriterFails, CloseAndDrain, Reader, TakeWaiter, Resolve, RouteRequest,
     Undecodable, RecordLeaving, EndOfStream, PublishDone, NotifySettled, RouteStopped, ReaderCloses
<1>3. ASSUME Settler \/ Loop \/ Peer PROVE (closed => waiters = {})'
  BY <1>3 DEF Settler, SettleTest, SettlePark, SettleTimeout, Loop, LoopTakes, LoopExits, Peer,
     PeerTakes, PeerResponds, PeerRequests, PeerAnnounces, PeerDies
<1>4. CASE UNCHANGED vars
  BY <1>4 DEF vars
<1>5. QED
  BY <1>1, <1>2, <1>3, <1>4 DEF Next

(* Nobody parks once the flag is up, and the notification wakes who had.    *)
LEMMA NextNoLostWake == ASSUME IInv, [Next]_vars PROVE NoLostWake'
<1> USE DEF IInv, NoLostWake, SettleFollowsReader, ReaderPast, settleVars, readVars
<1>1. ASSUME (\E c \in Callers : Caller(c)) \/ WriterFails \/ Loop \/ Peer
      PROVE  NoLostWake'
  <2>1. UNCHANGED <<rd, settle>>
    BY <1>1 DEF Caller, Proceed, Allocate, Register, Send, Undo, Answered, Expire, Forget,
       WriterFails, Loop, LoopTakes, LoopExits, Peer, PeerTakes, PeerResponds, PeerRequests,
       PeerAnnounces, PeerDies
  <2>2. QED
    BY <2>1
<1>2. ASSUME Reader PROVE NoLostWake'
  BY <1>2 DEF Reader, TakeWaiter, Resolve, RouteRequest, Undecodable, RecordLeaving, Reads,
     EndOfStream, PublishDone, NotifySettled, RouteStopped, ReaderCloses
<1>3. ASSUME Settler PROVE NoLostWake'
  BY <1>3 DEF Settler, SettleTest, SettlePark, SettleTimeout
<1>4. CASE UNCHANGED vars
  BY <1>4 DEF vars
<1>5. QED
  BY <1>1, <1>2, <1>3, <1>4 DEF Next

(* Every step keeps the invariant. *)
LEMMA NextIInv == IInv /\ [Next]_vars => IInv'
BY NextTypeOK, NextMsgIdsAreFresh, NextNotYetRegistered, NextWaitersAreWanted,
   NextCallersAreOwed, NextClosed, NextSettleFollowsReader, NextAnnouncementKept,
   NextNoLostWake DEF IInv

LEMMA Invariance == Spec => []IInv
BY InitIInv, NextIInv, PTL DEF Spec

(* Every caller blocked on a connection that is closed has its answer in    *)
(* the channel or in the reader's hands, and the map is empty               *)
(* (close_and_drain), for any number of callers and requests.               *)
THEOREM NobodyWaitsOnAClosedConnection == Spec => []ClosedMeansNobodyWaits
<1>1. IInv => ClosedMeansNobodyWaits
  <2> SUFFICES ASSUME IInv, closed, NEW c \in Callers, pc[c] = "waiting"
               PROVE  answer[id[c]] # "none" \/ inHand.id = id[c]
    BY DEF IInv, ClosedMeansNobodyWaits
  <2>1. waiters = {} /\ OwedTo(c)
    BY DEF IInv, CallersAreOwed
  <2>2. QED
    BY <2>1 DEF OwedTo, Owed
<1>2. QED
  BY <1>1, Invariance, PTL

(* A call that returned leaves no waiter in the map, and no waiter in the   *)
(* map has been answered (send_request, request_timeout, resolve).          *)
THEOREM NoCallLeaksItsWaiter == Spec => []NoWaiterLeaks
<1>1. IInv => NoWaiterLeaks
  BY DEF IInv, WaitersAreWanted, NoWaiterLeaks
<1>2. QED
  BY <1>1, Invariance, PTL

(* A settle that ends by itself has every finding of the reader before it   *)
(* (publish_reader_done, wait_until_settled).                               *)
THEOREM SettledMeansAllWasRead == Spec => []SettledSeesTheAnnouncement
<1>1. IInv => SettledSeesTheAnnouncement
  BY DEF IInv, SettleFollowsReader, ReaderPast, AnnouncementKept, SettledSeesTheAnnouncement
<1>2. QED
  BY <1>1, Invariance, PTL

(* The thread that resolves a stop is never left parked behind the only     *)
(* notification (publish_reader_done stores under the lock).                *)
THEOREM TheWakeIsNeverLost == Spec => []NoLostWake
<1>1. IInv => NoLostWake
  BY DEF IInv
<1>2. QED
  BY <1>1, Invariance, PTL
=============================================================================
