--------------------------- MODULE HeartbeatProofs ---------------------------
(***************************************************************************)
(* Proofs about Heartbeat, for every interval, threshold and length of the *)
(* ring that spans the threshold.                                          *)
(***************************************************************************)
EXTENDS Heartbeat, TLAPS

(* The clock, the counts, and where the prober is among them: a tick costs *)
(* an interval, so there are never more probes than units of time.         *)
Numbers ==
  /\ now \in Times /\ sentGen \in Nat /\ ackedGen \in Nat /\ forgiven \in Nat
  /\ gen \in Nat /\ stamp \in Nat /\ slept \in Nat
  /\ rSent \in Nat /\ rOpened \in Nat /\ rClock \in Nat
  /\ sentAt \in [0 .. SendLog - 1 -> Nat] /\ sentTrue \in [Gens -> Nat]
  /\ ackedGen <= sentGen /\ rClock <= now

Ticking ==
  /\ ppc \in {"sleeping", "checked", "stamped", "published", "dated", "retired"}
  /\ slept <= now /\ sentGen <= now
  /\ ppc = "sleeping" => sentGen <= slept
  /\ ppc \in {"checked", "stamped"} => sentGen < now /\ stamp = now
  /\ ppc = "stamped" => gen = sentGen + 1 /\ sentAt[Slot(gen)] = stamp
  /\ ppc \in {"published", "dated"} => gen = sentGen

(* The ring never dates a probe earlier than it went out, also where a     *)
(* later one has taken its slot: send times only grow.                     *)
RingIsNoOlder ==
  /\ \A s \in 0 .. SendLog - 1 : sentAt[s] <= now
  /\ \A g \in 1 .. sentGen : sentTrue[g] <= sentAt[Slot(g)]

(* A reading dates an unanswered probe, or a later one.                    *)
ReadingIsNoOlder ==
  /\ opc \in {"slot", "check"} => ackedGen < rSent /\ rSent <= sentGen
  /\ opc = "check" => sentTrue[AnchorGen(rSent)] <= rOpened

(* An answer belongs to a probe that was sent.                             *)
AnswersWereAsked ==
  /\ \A g \in replies : g \in Nat /\ g <= sentGen
  /\ \A a \in answered : a \in Nat /\ a <= sentGen
  /\ forgiven <= sentGen

IInv ==
  /\ Numbers /\ Ticking /\ RingIsNoOlder /\ ReadingIsNoOlder /\ AnswersWereAsked
  /\ NoFalseWedge /\ OnlyAnswersClearAProbe

(* What is needed of the constants. *)
LEMMA ConstantsArePositive ==
  /\ SendLog \in Nat /\ SendLog >= 1 /\ Interval \in Nat /\ Interval >= 1
  /\ Threshold \in Nat /\ Threshold >= 1 /\ MaxTime \in Nat
BY LogSpansTwiceTheThreshold

(* The larger of two. *)
LEMMA MaxOfTwo ==
  ASSUME NEW a \in Int, NEW b \in Int
  PROVE  Max({a, b}) \in {a, b} /\ Max({a, b}) >= a /\ Max({a, b}) >= b
<1>1. \E x \in {a, b} : \A y \in {a, b} : x >= y
  OBVIOUS
<1>2. QED
  BY <1>1 DEF Max

(* Every probe has its slot in the ring. *)
LEMMA SlotInRing == \A g \in Nat : Slot(g) \in 0 .. SendLog - 1
BY ConstantsArePositive DEF Slot

(* A reading is about a probe sent and not answered. *)
LEMMA AnchorIsOwed ==
  ASSUME Numbers, NEW r \in Nat, ackedGen < r, r <= sentGen
  PROVE  AnchorGen(r) \in Nat /\ AnchorGen(r) \in Owed
<1>1. /\ ackedGen + 1 \in Int /\ r - (SendLog - 1) \in Int /\ r - (SendLog - 1) <= r
      /\ ackedGen \in Nat /\ sentGen \in Nat
  BY ConstantsArePositive DEF Numbers
<1>2. /\ AnchorGen(r) \in {ackedGen + 1, r - (SendLog - 1)}
      /\ AnchorGen(r) >= ackedGen + 1
  BY <1>1, MaxOfTwo DEF AnchorGen
<1>3. QED
  BY <1>1, <1>2 DEF Owed

(* Every probe sent has a send time. *)
LEMMA SentIsDated ==
  ASSUME Numbers, Ticking
  PROVE  \A g \in 1 .. sentGen : g \in Gens /\ g \in Nat /\ sentTrue[g] \in Nat
<1>1. 1 .. sentGen \subseteq Gens
  BY ConstantsArePositive DEF Numbers, Ticking, Times, Gens
<1>2. QED
  BY <1>1 DEF Numbers

(* A tick stamps its slot with the time it is. *)
LEMMA StampIsNow ==
  ASSUME Numbers, Ticking, StampSlot
  PROVE  /\ sentAt' = [sentAt EXCEPT ![Slot(sentGen + 1)] = now]
         /\ sentAt' \in [0 .. SendLog - 1 -> Nat]
         /\ sentAt'[Slot(sentGen + 1)] = now
         /\ gen' = sentGen + 1 /\ ppc' = "stamped" /\ ppc = "checked" /\ stamp = now
<1>1. stamp = now /\ now \in Nat /\ ppc = "checked"
  BY DEF StampSlot, Prober, Ticking, Numbers, Times
<1>2. Slot(sentGen + 1) \in 0 .. SendLog - 1
  <2>1. sentGen + 1 \in Nat
    BY DEF Numbers
  <2>2. QED
    BY <2>1, SlotInRing, Zenon
<1>3. sentAt' = [sentAt EXCEPT ![Slot(sentGen + 1)] = now] /\ gen' = sentGen + 1 /\ ppc' = "stamped"
  BY <1>1 DEF StampSlot
<1>4. QED
  BY <1>1, <1>2, <1>3 DEF Numbers

(* A tick publishes the next generation. *)
LEMMA PublishRaises ==
  ASSUME Numbers, Ticking, Publish
  PROVE  /\ sentGen' = gen /\ gen = sentGen + 1 /\ gen \in Gens
         /\ sentTrue' = [sentTrue EXCEPT ![gen] = stamp]
         /\ \A g \in 1 .. sentGen : sentTrue'[g] = sentTrue[g]
         /\ sentTrue' \in [Gens -> Nat] /\ sentTrue'[gen] = stamp
         /\ UNCHANGED <<now, ackedGen, forgiven, gen, stamp, slept, sentAt, replies>>
         /\ UNCHANGED <<opc, op, rAnchor, rSent, rOpened, rClock, verdict, answered>>
         /\ ppc = "stamped" /\ ppc' = "published"
<1>1. gen = sentGen + 1 /\ sentGen \in Int /\ gen \in Int /\ ppc = "stamped"
  BY DEF Publish, Prober, Ticking, Numbers
<1>2. Max({sentGen, gen}) = gen
  BY <1>1, MaxOfTwo
<1>3. sentGen' = gen /\ sentTrue' = [sentTrue EXCEPT ![gen] = stamp] /\ ppc' = "published"
  BY <1>2 DEF Publish
<1>4. gen \in Gens
  BY <1>1, ConstantsArePositive DEF Ticking, Numbers, Times, Gens
<1>5. sentTrue' \in [Gens -> Nat] /\ sentTrue'[gen] = stamp
  BY <1>3, <1>4 DEF Numbers
<1>6. \A g \in 1 .. sentGen : sentTrue'[g] = sentTrue[g]
  BY <1>1, <1>3, <1>4 DEF Numbers, Gens
<1>7. /\ UNCHANGED <<now, ackedGen, forgiven, gen, stamp, slept, sentAt, replies>>
      /\ UNCHANGED <<opc, op, rAnchor, rSent, rOpened, rClock, verdict, answered>>
  BY DEF Publish, Prober, reading, told
<1>8. QED
  BY <1>1, <1>3, <1>4, <1>5, <1>6, <1>7

(* An answer moves the acknowledged count to itself, or nowhere. *)
LEMMA AckRaises ==
  ASSUME Numbers, AnswersWereAsked, NEW g \in Gens, RecordAck(g)
  PROVE  /\ ackedGen' \in {g, ackedGen} /\ g \in Nat /\ g <= sentGen
         /\ replies' = replies \ {g} /\ answered' = answered \cup {g}
         /\ UNCHANGED <<now, sentGen, forgiven, gen, stamp, slept, sentAt, sentTrue>>
         /\ UNCHANGED <<rSent, rOpened, rClock, opc, verdict>> /\ opc = "folding"
<1>1. g \in Int /\ ackedGen \in Int /\ g \in Nat /\ g <= sentGen
  BY DEF RecordAck, AnswersWereAsked, Numbers
<1>2. ackedGen' \in {g, ackedGen}
  BY <1>1, MaxOfTwo DEF RecordAck
<1>3. QED
  BY <1>1, <1>2 DEF RecordAck, Folding, prober, reading, told

(* The initial state. *)
LEMMA InitIInv == Init => IInv
<1> SUFFICES ASSUME Init PROVE IInv
  OBVIOUS
<1>1. sentTrue \in [Gens -> Nat] /\ sentAt \in [0 .. SendLog - 1 -> Nat]
  BY DEF Init
<1>2. Numbers
  BY <1>1, ConstantsArePositive DEF Init, Numbers, Times
<1>3. Ticking /\ RingIsNoOlder
  BY ConstantsArePositive DEF Init, Ticking, RingIsNoOlder
<1>4. ReadingIsNoOlder /\ AnswersWereAsked /\ NoFalseWedge /\ OnlyAnswersClearAProbe
  BY DEF Init, ReadingIsNoOlder, AnswersWereAsked, NoFalseWedge, OnlyAnswersClearAProbe
<1>5. QED
  BY <1>2, <1>3, <1>4 DEF IInv

(* The numbers stay numbers. *)
LEMMA NextNumbers ==
  ASSUME IInv, [Next]_vars
  PROVE  Numbers'
<1> USE ConstantsArePositive DEF IInv, Numbers, Ticking, AnswersWereAsked, Times, Gens, probe,
    prober, reading, told, history
<1>1. ASSUME StartTick PROVE Numbers'
  BY <1>1, SMTT(30) DEF StartTick, Prober, Sleeps
<1>2. ASSUME StampSlot PROVE Numbers'
  <2>1. sentAt' \in [0 .. SendLog - 1 -> Nat] /\ gen' = sentGen + 1
    BY <1>2, StampIsNow
  <2>2. QED
    BY <1>2, <2>1 DEF StampSlot, Prober
<1>3. ASSUME Publish PROVE Numbers'
  <2>1. /\ sentGen' = gen /\ gen = sentGen + 1 /\ sentTrue' \in [Gens -> Nat]
        /\ UNCHANGED <<now, ackedGen, forgiven, gen, stamp, slept, sentAt, rSent, rOpened, rClock>>
    BY <1>3, PublishRaises
  <2>2. QED
    BY <2>1
<1>4. ASSUME SendProbe PROVE Numbers'
  BY <1>4, SMTT(30) DEF SendProbe, Prober, Sleeps
<1>5. ASSUME NEW g \in Gens, RecordAck(g) PROVE Numbers'
  BY <1>5, AckRaises
<1>6. ASSUME Resume \/ DateArming \/ Release PROVE Numbers'
  <2>1. /\ UNCHANGED <<now, sentGen, gen, stamp, slept, sentAt, sentTrue, rSent, rOpened>>
        /\ rClock' \in {rClock, now, 0}
        /\ UNCHANGED <<ackedGen, forgiven>> \/ (ackedGen' = sentGen /\ forgiven' = sentGen)
    BY <1>6 DEF Resume, DateArming, Release
  <2>2. QED
    BY <2>1
<1>7. ASSUME Wake PROVE Numbers'
  BY <1>7 DEF Wake
<1>8. ASSUME Glance PROVE Numbers'
  <2>1. rClock' \in {rClock, now} /\ UNCHANGED <<rSent, rOpened>>
    BY <1>8 DEF Glance
  <2>2. UNCHANGED <<now, sentGen, ackedGen, forgiven, gen, stamp, slept, sentAt, sentTrue>>
    BY <1>8 DEF Glance, Reads
  <2>3. QED
    BY <2>1, <2>2
<1>9. ASSUME LoadPair PROVE Numbers'
  BY <1>9 DEF LoadPair, Reads, Conclude, Tell, SleepUntil, Outstanding
<1>10. ASSUME LoadSlot PROVE Numbers'
  <2>1. rOpened' \in Nat
    BY <1>10, SlotInRing, AnchorIsOwed DEF LoadSlot, ReadingIsNoOlder, Reads
  <2>2. QED
    BY <1>10, <2>1 DEF LoadSlot, Reads
<1>11. ASSUME LoadForDeadline PROVE Numbers'
  BY <1>11 DEF LoadForDeadline, Reads, Outstanding
<1>12. ASSUME Prospect PROVE Numbers'
  BY <1>12 DEF Prospect, Reads, SleepUntil
<1>13. ASSUME TimePasses PROVE Numbers'
  BY <1>13 DEF TimePasses
<1>14. ASSUME DateCadence \/ Pause \/ BeginObserve \/ Check \/ LoadAnchor
            \/ Closes
      PROVE  UNCHANGED <<now, sentGen, ackedGen, forgiven, gen, stamp, slept, rSent, rOpened, rClock,
                       sentAt, sentTrue>>
  BY <1>14 DEF DateCadence, Prober, Pause, Folding, BeginObserve, Check, Reads, Conclude, Tell,
     SleepUntil, LoadAnchor, Closes
<1>15. CASE UNCHANGED <<now, sentGen, ackedGen, forgiven, gen, stamp, slept, rSent, rOpened, rClock,
                       sentAt, sentTrue>>
  BY <1>15
<1>16. QED
  BY <1>1, <1>2, <1>3, <1>4, <1>5, <1>6, <1>7, <1>8, <1>9, <1>10, <1>11, <1>12, <1>13,
     <1>14, <1>15
  DEF Next, ProberThread, Observer, vars

(* The prober's tick takes no time, and the next one comes an interval later. *)
LEMMA NextTicking ==
  ASSUME IInv, [Next]_vars
  PROVE  Ticking'
<1> USE ConstantsArePositive DEF IInv, Numbers, Ticking, Times,
        probe, prober, reading, told, history
<1>1. ASSUME StartTick PROVE Ticking'
  BY <1>1 DEF StartTick, Prober, Sleeps
<1>2. ASSUME StampSlot PROVE Ticking'
  <2>1. /\ sentAt'[Slot(gen')] = stamp /\ gen' = sentGen + 1
        /\ ppc' = "stamped" /\ ppc = "checked"
    BY <1>2, StampIsNow
  <2>2. QED
    BY <1>2, <2>1 DEF StampSlot, Prober
<1>3. ASSUME Publish PROVE Ticking'
  BY <1>3, PublishRaises, SMTT(30)
<1>4. ASSUME DateCadence PROVE Ticking'
  BY <1>4 DEF DateCadence, Prober
<1>5. ASSUME SendProbe PROVE Ticking'
  BY <1>5 DEF SendProbe, Prober, Sleeps
<1>6. ASSUME TimePasses PROVE Ticking'
  BY <1>6 DEF TimePasses
<1>7. ASSUME (\E g \in Gens : RecordAck(g)) \/ Pause \/ Resume \/ DateArming
            \/ Release \/ BeginObserve \/ Wake \/ Glance \/ LoadPair \/ LoadSlot
            \/ Check \/ LoadAnchor \/ LoadForDeadline \/ Prospect \/ Closes
      PROVE  UNCHANGED <<now, sentGen, gen, stamp, slept, ppc, sentAt>>
  BY <1>7 DEF RecordAck, Folding, Pause, Resume, DateArming, Release, BeginObserve, Wake, Glance, Reads,
     Tell, Outstanding, LoadPair, Conclude, SleepUntil, LoadSlot, Check, LoadAnchor,
     LoadForDeadline, Prospect, Closes
<1>8. CASE UNCHANGED <<now, sentGen, gen, stamp, slept, ppc, sentAt>>
  BY <1>8
<1>9. QED
  BY <1>1, <1>2, <1>3, <1>4, <1>5, <1>6, <1>7, <1>8
  DEF Next, ProberThread, Observer, vars

(* A slot is only ever overwritten with a later time. *)
LEMMA NextRingIsNoOlder ==
  ASSUME IInv, [Next]_vars
  PROVE  RingIsNoOlder'
<1> USE DEF IInv, RingIsNoOlder, probe, prober, reading, told, history
<1>1. ASSUME StampSlot PROVE RingIsNoOlder'
  <2>1. UNCHANGED <<now, sentGen, sentTrue>> /\ now \in Nat
    BY <1>1 DEF StampSlot, Prober, Numbers, Times
  <2>2. \A x \in 0 .. SendLog - 1 :
          /\ sentAt[x] \in Nat /\ sentAt'[x] \in Nat
          /\ sentAt'[x] = sentAt[x] \/ sentAt'[x] = now
    BY <1>1, StampIsNow DEF Numbers
  <2>3. \A x \in 0 .. SendLog - 1 : sentAt[x] <= sentAt'[x] /\ sentAt'[x] <= now
    BY <2>1, <2>2
  <2>4. ASSUME NEW g \in 1 .. sentGen PROVE sentTrue[g] <= sentAt'[Slot(g)]
    <3>1. Slot(g) \in 0 .. SendLog - 1 /\ sentTrue[g] \in Nat
      BY SlotInRing, SentIsDated
    <3>2. sentTrue[g] <= sentAt[Slot(g)]
      OBVIOUS
    <3>3. QED
      BY <2>2, <2>3, <3>1, <3>2
  <2>5. QED
    BY <2>1, <2>3, <2>4
<1>2. ASSUME Publish PROVE RingIsNoOlder'
  <2>1. sentTrue'[gen] <= sentAt[Slot(gen)]
    <3>1. sentTrue'[gen] = stamp /\ sentAt[Slot(gen)] = stamp
      BY <1>2, PublishRaises DEF Ticking
    <3>2. stamp \in Nat
      BY DEF Numbers
    <3>3. QED
      BY <3>1, <3>2
  <2>2. \A g \in 1 .. sentGen : sentTrue'[g] <= sentAt[Slot(g)]
    BY <1>2, PublishRaises
  <2>3. \A g \in 1 .. sentGen' : g \in 1 .. sentGen \/ g = gen
    BY <1>2, PublishRaises DEF Numbers
  <2>4. UNCHANGED <<now, sentAt>>
    BY <1>2, PublishRaises
  <2>5. QED
    BY <2>1, <2>2, <2>3, <2>4
<1>3. ASSUME TimePasses PROVE RingIsNoOlder'
  <2>1. UNCHANGED <<sentAt, sentGen, sentTrue>> /\ now' = now + 1 /\ now \in Nat
    BY <1>3 DEF TimePasses, probe, history, Numbers, Times
  <2>2. \A x \in 0 .. SendLog - 1 : sentAt[x] \in Nat
    BY DEF Numbers
  <2>3. QED
    BY <2>1, <2>2
<1>4. ASSUME StartTick \/ DateCadence \/ SendProbe
            \/ (\E g \in Gens : RecordAck(g)) \/ Pause \/ Resume \/ DateArming
            \/ Release \/ BeginObserve \/ Wake \/ Glance \/ LoadPair \/ LoadSlot
            \/ Check \/ LoadAnchor \/ LoadForDeadline \/ Prospect \/ Closes
      PROVE  UNCHANGED <<now, sentGen, sentAt, sentTrue>>
  BY <1>4 DEF StartTick, Prober, Sleeps, DateCadence, SendProbe, RecordAck, Folding, Pause,
     Resume, DateArming, Release, BeginObserve, Wake, Glance, Reads, Tell, Outstanding, LoadPair,
     Conclude, SleepUntil, LoadSlot, Check, LoadAnchor, LoadForDeadline, Prospect, Closes
<1>5. CASE UNCHANGED <<now, sentGen, sentAt, sentTrue>>
  BY <1>5
<1>6. QED
  BY <1>1, <1>2, <1>3, <1>4, <1>5
  DEF Next, ProberThread, Observer, vars

(* A reading stays about the probe it dated. *)
LEMMA NextReadingIsNoOlder ==
  ASSUME IInv, [Next]_vars
  PROVE  ReadingIsNoOlder'
<1> USE ConstantsArePositive DEF IInv, Numbers, ReadingIsNoOlder,
        probe, prober, reading, told, history
<1>1. ASSUME Publish PROVE ReadingIsNoOlder'
  <2>1. opc = "check" => AnchorGen(rSent) \in 1 .. sentGen
    BY AnchorIsOwed DEF Owed
  <2>2. /\ opc = "check" => sentTrue'[AnchorGen(rSent)] = sentTrue[AnchorGen(rSent)]
        /\ sentGen' = sentGen + 1 /\ UNCHANGED <<opc, ackedGen, rSent, rOpened>>
    BY <1>1, <2>1, PublishRaises
  <2>3. QED
    BY <2>2 DEF AnchorGen
<1>2. ASSUME NEW g \in Gens, RecordAck(g) PROVE ReadingIsNoOlder'
  BY <1>2 DEF RecordAck, Folding
<1>3. ASSUME Resume \/ DateArming \/ Release PROVE ReadingIsNoOlder'
  BY <1>3 DEF Resume, DateArming, Release
<1>4. ASSUME BeginObserve PROVE ReadingIsNoOlder'
  BY <1>4 DEF BeginObserve, Folding
<1>5. ASSUME Wake PROVE ReadingIsNoOlder'
  BY <1>5 DEF Wake
<1>6. ASSUME Glance PROVE ReadingIsNoOlder'
  BY <1>6 DEF Glance, Reads, Tell, Outstanding
<1>7. ASSUME LoadPair PROVE ReadingIsNoOlder'
  BY <1>7 DEF LoadPair, Reads, Conclude, Tell, SleepUntil, Outstanding
<1>8. ASSUME LoadSlot PROVE ReadingIsNoOlder'
  <2>1. ackedGen < rSent /\ rSent <= sentGen
    BY <1>8 DEF LoadSlot, Reads
  <2>2. AnchorGen(rSent) \in 1 .. sentGen
    BY <2>1, AnchorIsOwed DEF Owed
  <2>3. sentTrue[AnchorGen(rSent)] <= sentAt[Slot(AnchorGen(rSent))]
    BY <2>2 DEF RingIsNoOlder
  <2>4. UNCHANGED <<sentTrue, ackedGen, rSent, sentGen>> /\ opc' = "check"
        /\ rOpened' = sentAt[Slot(AnchorGen(rSent))]
    BY <1>8 DEF LoadSlot, Reads
  <2>5. QED
    BY <2>1, <2>3, <2>4 DEF AnchorGen
<1>9. ASSUME Check PROVE ReadingIsNoOlder'
  <2>1. opc' # "check" /\ (opc' = "slot" => FALSE)
    BY <1>9 DEF Check, Conclude, Tell, SleepUntil
  <2>2. QED
    BY <2>1
<1>10. ASSUME LoadAnchor PROVE ReadingIsNoOlder'
  BY <1>10 DEF LoadAnchor, Reads
<1>11. ASSUME LoadForDeadline PROVE ReadingIsNoOlder'
  BY <1>11 DEF LoadForDeadline, Reads, Outstanding
<1>12. ASSUME Prospect PROVE ReadingIsNoOlder'
  BY <1>12 DEF Prospect, Reads, SleepUntil
<1>13. ASSUME StartTick \/ StampSlot \/ DateCadence \/ SendProbe \/ Pause
            \/ TimePasses \/ Closes
      PROVE  UNCHANGED <<sentGen, sentTrue, ackedGen, rSent, rOpened, opc>>
  BY <1>13 DEF StartTick, Prober, Sleeps, StampSlot, DateCadence, SendProbe, Pause, Folding,
     TimePasses, Closes
<1>14. CASE UNCHANGED <<sentGen, sentTrue, ackedGen, rSent, rOpened, opc>>
  BY <1>14 DEF AnchorGen
<1>15. QED
  BY <1>1, <1>2, <1>3, <1>4, <1>5, <1>6, <1>7, <1>8, <1>9, <1>10, <1>11, <1>12, <1>13,
     <1>14
  DEF Next, ProberThread, Observer, vars

(* Nothing is answered before it is sent. *)
LEMMA NextAnswersWereAsked ==
  ASSUME IInv, [Next]_vars
  PROVE  AnswersWereAsked'
<1> USE ConstantsArePositive DEF IInv, Numbers, AnswersWereAsked, Ticking,
        probe, prober, reading, told, history
<1>1. ASSUME Publish PROVE AnswersWereAsked'
  BY <1>1, PublishRaises, SMTT(30)
<1>2. ASSUME SendProbe PROVE AnswersWereAsked'
  BY <1>2 DEF SendProbe, Prober, Sleeps
<1>3. ASSUME NEW g \in Gens, RecordAck(g) PROVE AnswersWereAsked'
  BY <1>3 DEF RecordAck, Folding
<1>4. ASSUME Resume PROVE AnswersWereAsked'
  BY <1>4 DEF Resume
<1>5. ASSUME StartTick \/ StampSlot \/ DateCadence \/ Pause \/ DateArming \/ Release
            \/ BeginObserve \/ Wake \/ Glance \/ LoadPair \/ LoadSlot \/ Check \/ LoadAnchor
            \/ LoadForDeadline \/ Prospect \/ TimePasses \/ Closes
      PROVE  UNCHANGED <<sentGen, replies, answered, forgiven>>
  BY <1>5 DEF StartTick, Prober, Sleeps, StampSlot, DateCadence, Pause, Folding, DateArming,
     Release, BeginObserve, Wake, Glance, Reads, Tell, Outstanding, LoadPair, Conclude, SleepUntil, LoadSlot,
     Check, LoadAnchor, LoadForDeadline, Prospect, TimePasses, Closes
<1>6. CASE UNCHANGED <<sentGen, replies, answered, forgiven>>
  BY <1>6
<1>7. QED
  BY <1>1, <1>2, <1>3, <1>4, <1>5, <1>6
  DEF Next, ProberThread, Observer, vars

(* A verdict is given over a probe that is owed, and stays so until it is read. *)
LEMMA NextNoFalseWedge ==
  ASSUME IInv, [Next]_vars
  PROVE  NoFalseWedge'
<1> USE ConstantsArePositive DEF IInv, Numbers, NoFalseWedge,
        probe, prober, reading, told, history
<1>1. ASSUME Publish PROVE NoFalseWedge'
  <2>1. /\ sentGen' = sentGen + 1 /\ \A g \in 1 .. sentGen : sentTrue'[g] = sentTrue[g]
        /\ UNCHANGED <<now, ackedGen, verdict, opc>>
    BY <1>1, PublishRaises
  <2>2. QED
    BY <2>1 DEF Owed
<1>2. ASSUME NEW g \in Gens, RecordAck(g) PROVE NoFalseWedge'
  BY <1>2 DEF RecordAck, Folding
<1>3. ASSUME Resume \/ DateArming \/ Release PROVE NoFalseWedge'
  BY <1>3 DEF Resume, DateArming, Release
<1>4. ASSUME BeginObserve PROVE NoFalseWedge'
  BY <1>4 DEF BeginObserve, Folding
<1>5. ASSUME Wake PROVE NoFalseWedge'
  BY <1>5 DEF Wake
<1>6. ASSUME Glance PROVE NoFalseWedge'
  BY <1>6 DEF Glance, Reads, Tell, Outstanding
<1>7. ASSUME LoadPair PROVE NoFalseWedge'
  BY <1>7 DEF LoadPair, Reads, Conclude, Tell, SleepUntil, Outstanding
<1>8. ASSUME LoadSlot PROVE NoFalseWedge'
  BY <1>8 DEF LoadSlot, Reads
<1>9. ASSUME Check PROVE NoFalseWedge'
  <2> SUFFICES ASSUME verdict' = "Wedged", opc' = "anchor"
               PROVE  \E g \in Owed' : now' - sentTrue'[g] >= Threshold
    OBVIOUS
  <2>1. UNCHANGED <<now, sentTrue, sentGen, ackedGen>> /\ opc = "check"
    BY <1>9 DEF Check, Reads
  <2>2. Silence >= Threshold
    BY <1>9 DEF Check, Conclude, Tell, SleepUntil
  <2>3. rClock - rOpened >= Threshold
    <3>1. 0 \in Int /\ rClock - rOpened \in Int
      OBVIOUS
    <3>2. Silence \in {0, rClock - rOpened}
      BY <3>1, MaxOfTwo DEF Silence
    <3>3. QED
      BY <2>2, <3>2
  <2>4. AnchorGen(rSent) \in Owed /\ sentTrue[AnchorGen(rSent)] <= rOpened
    BY <2>1, AnchorIsOwed DEF ReadingIsNoOlder
  <2>5. AnchorGen(rSent) \in 1 .. sentGen /\ sentTrue[AnchorGen(rSent)] \in Nat
    BY <2>4, SentIsDated DEF Owed
  <2>6. now - sentTrue[AnchorGen(rSent)] >= Threshold
    BY <2>3, <2>4, <2>5 DEF Times
  <2>7. QED
    BY <2>1, <2>4, <2>6 DEF Owed
<1>10. ASSUME LoadAnchor PROVE NoFalseWedge'
  BY <1>10 DEF LoadAnchor, Reads
<1>11. ASSUME LoadForDeadline PROVE NoFalseWedge'
  BY <1>11 DEF LoadForDeadline, Reads, Outstanding
<1>12. ASSUME Prospect PROVE NoFalseWedge'
  BY <1>12 DEF Prospect, Reads, SleepUntil
<1>13. ASSUME TimePasses PROVE NoFalseWedge'
  <2>1. UNCHANGED <<sentGen, sentTrue, ackedGen, verdict, opc>> /\ now' = now + 1
    BY <1>13 DEF TimePasses
  <2>2. \A g \in Owed : sentTrue[g] \in Nat
    BY SentIsDated DEF Owed
  <2>3. QED
    BY <2>1, <2>2 DEF Owed, Times
<1>14. ASSUME StartTick \/ StampSlot \/ DateCadence \/ SendProbe \/ Pause
            \/ Closes
      PROVE  UNCHANGED <<now, sentGen, sentTrue, ackedGen, verdict, opc>>
  BY <1>14 DEF StartTick, Prober, Sleeps, StampSlot, DateCadence, SendProbe, Pause, Folding,
     Closes
<1>15. CASE UNCHANGED <<now, sentGen, sentTrue, ackedGen, verdict, opc>>
  BY <1>15 DEF Owed
<1>16. QED
  BY <1>1, <1>2, <1>3, <1>4, <1>5, <1>6, <1>7, <1>8, <1>9, <1>10, <1>11, <1>12, <1>13,
     <1>14, <1>15
  DEF Next, ProberThread, Observer, vars

(* The acknowledged count moves to an answer, or to what a resume forgives. *)
LEMMA NextOnlyAnswers ==
  ASSUME IInv, [Next]_vars
  PROVE  OnlyAnswersClearAProbe'
<1> USE ConstantsArePositive DEF IInv, Numbers, OnlyAnswersClearAProbe,
        probe, prober, reading, told, history
<1>1. ASSUME Publish PROVE OnlyAnswersClearAProbe'
  BY <1>1, PublishRaises DEF AnswersWereAsked
<1>2. ASSUME NEW g \in Gens, RecordAck(g) PROVE OnlyAnswersClearAProbe'
  BY <1>2, AckRaises
<1>3. ASSUME Resume PROVE OnlyAnswersClearAProbe'
  BY <1>3 DEF Resume
<1>4. ASSUME StartTick \/ StampSlot \/ DateCadence \/ SendProbe \/ Pause
            \/ DateArming \/ Release \/ BeginObserve \/ Wake \/ Glance \/ LoadPair \/ LoadSlot
            \/ Check \/ LoadAnchor \/ LoadForDeadline \/ Prospect
            \/ TimePasses \/ Closes
      PROVE  UNCHANGED <<sentGen, ackedGen, forgiven, answered>>
  BY <1>4 DEF StartTick, Prober, Sleeps, StampSlot, DateCadence, SendProbe, Pause, Folding,
     DateArming, Release, BeginObserve, Wake, Glance, Reads, Tell, Outstanding, LoadPair, Conclude,
     SleepUntil, LoadSlot, Check, LoadAnchor, LoadForDeadline, Prospect, TimePasses,
     Closes
<1>5. CASE UNCHANGED <<sentGen, ackedGen, forgiven, answered>>
  BY <1>5
<1>6. QED
  BY <1>1, <1>2, <1>3, <1>4, <1>5
  DEF Next, ProberThread, Observer, vars

LEMMA NextIInv == IInv /\ [Next]_vars => IInv'
BY NextNumbers, NextTicking, NextRingIsNoOlder, NextReadingIsNoOlder, NextAnswersWereAsked,
   NextNoFalseWedge, NextOnlyAnswers DEF IInv

LEMMA Invariance == Spec => []IInv
BY InitIInv, NextIInv, PTL DEF Spec

(* Whatever ticks land during a reading, a verdict of Wedged is only given  *)
(* over a probe that has gone unanswered for the threshold (observe and     *)
(* anchor_nanos), for any ring and interval.                                *)
THEOREM AWedgeIsReal == Spec => []NoFalseWedge
<1>1. IInv => NoFalseWedge
  BY DEF IInv
<1>2. QED
  BY <1>1, Invariance, PTL

(* A probe counts as answered only because it or a later one was, or a      *)
(* resume forgave it (record_ack, resume).                                  *)
THEOREM NothingMasksAHang == Spec => []OnlyAnswersClearAProbe
<1>1. IInv => OnlyAnswersClearAProbe
  BY DEF IInv
<1>2. QED
  BY <1>1, Invariance, PTL

-----------------------------------------------------------------------------
(* How long the loop may sleep.                                            *)

(* When the oldest probe owed an answer went out, or will have gone. *)
First == sentTrue[ackedGen + 1]

(* The ring dates a probe exactly until its slot is due for another, two    *)
(* probes are an interval apart, and the cadence is dated no later than the *)
(* last of them, unless a resume has dated it since.                        *)
RingIsExact == \A g \in 1 .. sentGen : sentGen - g < SendLog - 1 => sentAt[Slot(g)] = sentTrue[g]
Spaced ==
  /\ ppc \in {"sleeping", "checked", "stamped"} /\ sentGen > 0 => sentTrue[sentGen] <= slept
  /\ ppc \in {"checked", "stamped"} => slept + Interval <= stamp
  /\ ppc \in {"published", "dated"} => stamp <= now /\ sentTrue[sentGen] = stamp
CadenceIsDated ==
  /\ cadenceAt <= now /\ (sentGen > forgiven => cadenceAt <= sentTrue[sentGen])
  /\ opc = "forgiven" /\ sentGen > forgiven => rClock <= sentTrue[sentGen]

(* What a deadline's reading has found, at each of its loads. *)
Reading ==
  /\ opc \in {"deadline", "prospect"} => rAnchor <= began /\ began <= now
  /\ op = "deadline" /\ opc \in {"pair", "slot", "check"} => began <= rClock
  /\ opc \in {"deadline", "prospect"} /\ sentGen = ackedGen /\ ackedGen > forgiven =>
       rAnchor <= sentTrue[ackedGen]
  /\ opc = "prospect" /\ sentGen > ackedGen =>
       began <= First /\ (ackedGen > forgiven => rAnchor + Interval <= First)
  /\ opc = "check" /\ sentGen - ackedGen < SendLog => rOpened = First

(* What a sleep with nothing owed will be measured against, once there is.  *)
Resting ==
  opc = "asleep" /\ wake # NoWake /\ sentGen = ackedGen =>
    /\ began <= rClock
    /\ \/ /\ wake = rAnchor + Interval + Threshold /\ rAnchor <= began
          /\ ackedGen > forgiven => rAnchor <= sentTrue[ackedGen]
       \/ wake = rClock + Threshold

(* The bound of the property, over the oldest probe owed. *)
Bounded ==
  opc = "asleep" /\ wake # NoWake /\ sentGen > ackedGen /\ sentGen - ackedGen < SendLog
      /\ rClock < First + Threshold =>
    \/ wake <= First + Threshold + (rClock - began) + (IF ackedGen = forgiven THEN Interval ELSE 0)
    \/ wake <= rClock + Retry

(* A resume forgives what it counts as answered. *)
Forgiven == forgiven <= ackedGen

(* The types of the rest, and all of it. *)
WatchTypes ==
  /\ began \in Nat /\ rAnchor \in Nat /\ cadenceAt \in Nat /\ wake \in Int
  /\ op \in {"observe", "deadline"}

Watch ==
  /\ IInv /\ WatchTypes /\ Forgiven
  /\ RingIsExact /\ Spaced /\ CadenceIsDated /\ Reading /\ Resting /\ Bounded

(* Two probes the ring holds at once have two slots. *)
LEMMA SlotsDiffer ==
  ASSUME NEW a \in Nat, NEW b \in Nat, a < b, b - a < SendLog
  PROVE  Slot(a) # Slot(b)
<1>0. SendLog \in Nat /\ SendLog >= 1
  BY ConstantsArePositive
<1>1. PICK n \in Nat : n = SendLog /\ n >= 1
  BY <1>0
<1>2. SUFFICES ASSUME a % n = b % n PROVE FALSE
  BY <1>1 DEF Slot
<1>3. PICK p \in Int, q \in Int : a = n * p + (a % n) /\ b = n * q + (b % n)
  <2>1. a = n * (a \div n) + (a % n) /\ b = n * (b \div n) + (b % n)
    BY <1>1
  <2>2. a \div n \in Int /\ b \div n \in Int
    BY <1>1
  <2>3. QED
    BY <2>1, <2>2
<1>4. PICK d \in Int : d = q - p
  BY <1>3
<1>5. n * d = b - a
  BY <1>1, <1>2, <1>3, <1>4
<1>6. CASE d >= 1
  <2>1. n * d >= n
    BY <1>1, <1>6
  <2>2. QED
    BY <1>1, <1>5, <2>1
<1>7. CASE d <= 0
  <2>1. n * d <= 0
    BY <1>1, <1>7
  <2>2. QED
    BY <1>5, <2>1
<1>8. QED
  BY <1>4, <1>6, <1>7

(* The oldest probe owed is the one after the acknowledged. *)
LEMMA OldestOwed ==
  ASSUME Numbers
  PROVE  /\ Owed # {} <=> sentGen > ackedGen
         /\ sentGen > ackedGen => Min(Owed) = ackedGen + 1 /\ ackedGen + 1 \in 1 .. sentGen
<1>1. sentGen \in Nat /\ ackedGen \in Nat /\ ackedGen <= sentGen
  BY DEF Numbers
<1>2. \A g : g \in Owed <=> g \in Nat /\ ackedGen < g /\ g <= sentGen
  BY <1>1 DEF Owed
<1>3. ASSUME sentGen > ackedGen PROVE Min(Owed) = ackedGen + 1
  <2>1. ackedGen + 1 \in Owed /\ \A g \in Owed : ackedGen + 1 <= g /\ g \in Nat
    BY <1>1, <1>2, <1>3
  <2>2. \A x \in Owed : (\A y \in Owed : x <= y) <=> x = ackedGen + 1
    BY <1>1, <2>1
  <2>3. QED
    BY <2>1, <2>2 DEF Min
<1>4. QED
  BY <1>1, <1>2, <1>3

(* So the bound is the property's. *)
LEMMA BoundedIs ==
  ASSUME Numbers
  PROVE  Bounded <=> NeverOversleeps
<1>1. sentGen \in Nat /\ ackedGen \in Nat /\ forgiven \in Nat
  BY DEF Numbers
<1>2. CASE sentGen > ackedGen
  <2>1. Owed # {} /\ Min(Owed) = ackedGen + 1 /\ Crossing = First + Threshold
    BY <1>2, OldestOwed DEF Crossing, First
  <2>2. Min(Owed) = forgiven + 1 <=> ackedGen = forgiven
    BY <1>1, <2>1
  <2>3. QED
    BY <1>2, <2>1, <2>2 DEF Bounded, NeverOversleeps, Sleeping
<1>3. CASE ~(sentGen > ackedGen)
  BY <1>3, OldestOwed DEF Bounded, NeverOversleeps, Sleeping
<1>4. QED
  BY <1>2, <1>3

(* The types of what is watched. *)
LEMMA NextWatchTypes ==
  ASSUME Watch, [Next]_vars
  PROVE  WatchTypes'
<1> USE DEF WatchTypes
<1>1. /\ now \in Nat /\ stamp \in Nat /\ rClock \in Nat /\ rOpened \in Nat
      /\ Threshold \in Nat /\ Retry \in Nat /\ Interval \in Nat
  BY LogSpansTwiceTheThreshold DEF Watch, IInv, Numbers, Times
<1>2. Silence \in Int
  <2>1. 0 \in Int /\ rClock - rOpened \in Int
    BY <1>1
  <2>2. Silence \in {0, rClock - rOpened}
    BY <2>1, MaxOfTwo DEF Silence
  <2>3. QED
    BY <2>1, <2>2
<1>3. WatchTypes
  BY DEF Watch
<1>4. ASSUME StartTick \/ StampSlot \/ Publish \/ SendProbe \/ (\E g \in Gens : RecordAck(g)) \/ Pause
             \/ BeginObserve \/ TimePasses \/ Closes
      PROVE  UNCHANGED <<began, rAnchor, cadenceAt, wake, op>>
  BY <1>4 DEF StartTick, StampSlot, Publish, SendProbe, Prober, RecordAck, Pause, BeginObserve, Folding,
              TimePasses, Closes, reading, told, history, probe
<1>5. ASSUME DateCadence \/ Resume \/ DateArming \/ Release
      PROVE  cadenceAt' \in {stamp, rClock, cadenceAt} /\ UNCHANGED <<began, rAnchor, wake, op>>
  BY <1>5 DEF DateCadence, Prober, Resume, DateArming, Release, reading, told, history
<1>6. ASSUME Wake PROVE WatchTypes'
  BY <1>3, <1>6 DEF Wake, NoWake, probe
<1>7. ASSUME Glance \/ LoadPair \/ LoadSlot PROVE WatchTypes'
  BY <1>3, <1>7 DEF Glance, LoadPair, LoadSlot, Reads, Conclude, Tell, SleepUntil, NoWake, reading, told,
                    probe
<1>8. ASSUME Check PROVE WatchTypes'
  <2>1. UNCHANGED <<began, rAnchor, cadenceAt, op>>
    BY <1>8 DEF Check, Reads, probe
  <2>2. wake' \in {wake, rClock + Remaining(Silence), rClock + Retry}
    BY <1>8 DEF Check, Conclude, Tell, SleepUntil, told
  <2>3. Remaining(Silence) \in Int
    BY <1>1, <1>2 DEF Remaining
  <2>4. rClock + Remaining(Silence) \in Int /\ rClock + Retry \in Int
    BY <1>1, <2>3
  <2>5. QED
    BY <1>3, <2>1, <2>2, <2>4
<1>9. ASSUME LoadAnchor \/ LoadForDeadline PROVE WatchTypes'
  BY <1>1, <1>3, <1>9 DEF LoadAnchor, LoadForDeadline, Reads, told, probe
<1>10. ASSUME Prospect PROVE WatchTypes'
  BY <1>1, <1>3, <1>10 DEF Prospect, Reads, SleepUntil, NoWake, Remaining, probe
<1>11. CASE UNCHANGED <<began, rAnchor, cadenceAt, wake, op>>
  BY <1>3, <1>11
<1>12. CASE UNCHANGED vars
  BY <1>11, <1>12 DEF vars, probe, reading, told, history
<1>13. QED
  BY <1>1, <1>3, <1>4, <1>5, <1>6, <1>7, <1>8, <1>9, <1>10, <1>11, <1>12
  DEF Next, ProberThread, Observer

(* What a probe's publication does to the ring and the dates. *)
LEMMA NextRingIsExact ==
  ASSUME Watch, [Next]_vars
  PROVE  RingIsExact'
<1>0. /\ RingIsExact /\ Numbers /\ Ticking /\ SendLog \in Nat /\ SendLog >= 1 /\ sentGen \in Nat
  BY ConstantsArePositive DEF Watch, IInv, Numbers
<1>00. \A g \in 1 .. sentGen : g \in Nat /\ Slot(g) \in 0 .. SendLog - 1
  <2>1. \A g \in 1 .. sentGen : g \in Nat
    BY <1>0
  <2>2. QED
    BY <2>1, SlotInRing, Zenon
<1>1. ASSUME StampSlot PROVE RingIsExact'
  <2>1. UNCHANGED <<sentGen, sentTrue>> /\ sentAt' = [sentAt EXCEPT ![Slot(sentGen + 1)] = now]
        /\ sentAt \in [0 .. SendLog - 1 -> Nat]
    BY <1>0, <1>1, StampIsNow DEF StampSlot, Numbers
  <2>2. \A g \in 1 .. sentGen : sentGen - g < SendLog - 1 => Slot(g) # Slot(sentGen + 1)
    BY <1>0, <1>00, SlotsDiffer
  <2>3. \A g \in 1 .. sentGen : sentGen - g < SendLog - 1 => sentAt'[Slot(g)] = sentAt[Slot(g)]
    BY <1>0, <1>00, <2>1, <2>2
  <2>4. QED
    BY <1>0, <2>1, <2>3 DEF RingIsExact
<1>2. ASSUME Publish PROVE RingIsExact'
  <2>1. /\ sentGen' = sentGen + 1 /\ sentAt' = sentAt /\ sentAt[Slot(sentGen + 1)] = stamp
        /\ sentTrue'[sentGen + 1] = stamp
        /\ \A g \in 1 .. sentGen : sentTrue'[g] = sentTrue[g]
    BY <1>0, <1>2, PublishRaises DEF Ticking
  <2>2. \A g \in 1 .. sentGen' : /\ g \in 1 .. sentGen \/ g = sentGen + 1
                                 /\ sentGen' - g < SendLog - 1 => sentGen - g < SendLog - 1
    BY <1>0, <2>1
  <2>3. QED
    BY <1>0, <2>1, <2>2 DEF RingIsExact
<1>3. ASSUME StartTick \/ DateCadence \/ SendProbe \/ Observer \/ TimePasses \/ Closes \/ UNCHANGED vars
      PROVE  UNCHANGED <<sentGen, sentAt, sentTrue>>
  <2>1. ASSUME StartTick \/ DateCadence \/ SendProbe \/ TimePasses \/ Closes \/ UNCHANGED vars
        PROVE  UNCHANGED <<sentGen, sentAt, sentTrue>>
    BY <2>1 DEF StartTick, DateCadence, SendProbe, TimePasses, Closes, vars, probe, history
  <2>2. ASSUME Observer PROVE UNCHANGED <<sentGen, sentAt, sentTrue>>
    BY <2>2 DEF Observer, RecordAck, Folding, Pause, Resume, DateArming, Release, BeginObserve, Wake,
                Glance, Reads, LoadPair, LoadSlot, Check, LoadAnchor, LoadForDeadline, Prospect, probe,
                history
  <2>3. QED
    BY <1>3, <2>1, <2>2
<1>4. CASE UNCHANGED <<sentGen, sentAt, sentTrue>>
  BY <1>0, <1>4 DEF RingIsExact
<1>5. QED
  BY <1>1, <1>2, <1>3, <1>4 DEF Next, ProberThread

(* A tick comes an interval after the last one it let out. *)
LEMMA NextSpaced ==
  ASSUME Watch, [Next]_vars
  PROVE  Spaced'
<1>0. /\ Spaced /\ Numbers /\ Ticking /\ sentGen \in Nat /\ now \in Nat /\ stamp \in Nat /\ slept \in Nat
      /\ Interval \in Nat /\ Interval >= 1
      /\ \A g \in 1 .. sentGen : sentTrue[g] \in Nat
  BY ConstantsArePositive, SentIsDated DEF Watch, IInv, Numbers, Times
<1>1. ASSUME StartTick PROVE Spaced'
  <2>1. UNCHANGED <<sentGen, sentTrue, now>> /\ now >= slept + Interval /\ ppc = "sleeping"
    BY <1>1 DEF StartTick, Prober
  <2>2. \/ ppc' = "retired" /\ UNCHANGED <<slept, stamp>>
        \/ ppc' = "sleeping" /\ slept' = now
        \/ ppc' = "checked" /\ stamp' = now /\ slept' = slept
    BY <1>1 DEF StartTick, Sleeps
  <2>3. sentGen > 0 => sentTrue[sentGen] <= slept /\ sentTrue[sentGen] \in Nat
    BY <1>0, <2>1 DEF Spaced
  <2>4. QED
    BY <1>0, <2>1, <2>2, <2>3 DEF Spaced
<1>2. ASSUME StampSlot PROVE Spaced'
  <2>1. UNCHANGED <<sentGen, sentTrue, now, slept, stamp>> /\ ppc = "checked" /\ ppc' = "stamped"
    BY <1>2 DEF StampSlot, Prober
  <2>2. QED
    BY <1>0, <2>1 DEF Spaced
<1>3. ASSUME Publish PROVE Spaced'
  <2>1. sentGen' = gen /\ sentTrue'[gen] = stamp /\ ppc' = "published" /\ ppc = "stamped"
        /\ stamp' = stamp /\ now' = now
    BY <1>0, <1>3, PublishRaises
  <2>2. stamp <= now
    BY <1>0, <2>1 DEF Ticking
  <2>3. QED
    BY <2>1, <2>2 DEF Spaced
<1>4. ASSUME DateCadence PROVE Spaced'
  <2>1. UNCHANGED <<sentGen, sentTrue, now, slept, stamp>> /\ ppc = "published" /\ ppc' = "dated"
    BY <1>4 DEF DateCadence, Prober
  <2>2. QED
    BY <1>0, <2>1 DEF Spaced
<1>5. ASSUME SendProbe PROVE Spaced'
  <2>1. UNCHANGED <<sentGen, sentTrue, now>> /\ ppc = "dated"
    BY <1>5 DEF SendProbe, Prober
  <2>2. ppc' = "retired" \/ (ppc' = "sleeping" /\ slept' = now)
    BY <1>5 DEF SendProbe, Sleeps
  <2>3. QED
    BY <1>0, <2>1, <2>2 DEF Spaced
<1>6. ASSUME TimePasses PROVE Spaced'
  <2>1. UNCHANGED <<sentGen, sentTrue, slept, stamp, ppc>> /\ ppc \in {"sleeping", "retired"}
    BY <1>6 DEF TimePasses, probe, prober, history
  <2>2. QED
    BY <1>0, <2>1 DEF Spaced
<1>7. ASSUME Observer \/ Closes \/ UNCHANGED vars
      PROVE  UNCHANGED <<sentGen, sentTrue, now, slept, stamp, ppc>>
  BY <1>7 DEF Observer, RecordAck, Folding, Pause, Resume, DateArming, Release, BeginObserve, Wake,
              Glance, Reads, LoadPair, LoadSlot, Check, LoadAnchor, LoadForDeadline, Prospect, probe, prober, Closes, vars, history
<1>8. CASE UNCHANGED <<sentGen, sentTrue, now, slept, stamp, ppc>>
  BY <1>0, <1>8 DEF Spaced
<1>9. QED
  BY <1>1, <1>2, <1>3, <1>4, <1>5, <1>6, <1>7, <1>8 DEF Next, ProberThread

(* The cadence is dated by the probe that went out last, or a resume. *)
LEMMA NextCadenceIsDated ==
  ASSUME Watch, [Next]_vars
  PROVE  CadenceIsDated'
<1>0. /\ CadenceIsDated /\ Spaced /\ Numbers /\ Ticking /\ sentGen \in Nat /\ now \in Nat /\ stamp \in Nat
      /\ cadenceAt \in Nat /\ rClock \in Nat /\ rClock <= now
  BY DEF Watch, IInv, Numbers, Times, WatchTypes
<1>1. ASSUME Publish PROVE CadenceIsDated'
  <2>1. /\ sentGen' = gen /\ sentTrue'[gen] = stamp /\ ppc = "stamped"
        /\ UNCHANGED <<now, forgiven, cadenceAt, opc, rClock>>
    BY <1>0, <1>1, PublishRaises DEF Publish
  <2>2. stamp = now
    BY <1>0, <2>1 DEF Ticking
  <2>3. QED
    BY <1>0, <2>1, <2>2 DEF CadenceIsDated
<1>2. ASSUME DateCadence PROVE CadenceIsDated'
  <2>1. UNCHANGED <<sentGen, sentTrue, now, forgiven, opc, rClock>> /\ ppc = "published" /\ cadenceAt' = stamp
    BY <1>2 DEF DateCadence, Prober, reading
  <2>2. stamp <= now /\ sentTrue[sentGen] = stamp
    BY <1>0, <2>1 DEF Spaced
  <2>3. QED
    BY <1>0, <2>1, <2>2 DEF CadenceIsDated
<1>3. ASSUME Resume PROVE CadenceIsDated'
  <2>1. forgiven' = sentGen /\ UNCHANGED <<now, sentGen, cadenceAt>>
    BY <1>3 DEF Resume
  <2>2. QED
    BY <1>0, <2>1 DEF CadenceIsDated
<1>4. ASSUME DateArming PROVE CadenceIsDated'
  <2>1. /\ UNCHANGED <<sentGen, sentTrue, now, forgiven>> /\ cadenceAt' = rClock
        /\ opc = "forgiven" /\ opc' = "dated"
    BY <1>4 DEF DateArming, history
  <2>2. QED
    BY <1>0, <2>1 DEF CadenceIsDated
<1>5. ASSUME TimePasses PROVE CadenceIsDated'
  <2>1. UNCHANGED <<sentGen, sentTrue, forgiven, cadenceAt, opc, rClock>> /\ now' = now + 1
    BY <1>5 DEF TimePasses, probe, history, reading
  <2>2. QED
    BY <1>0, <2>1 DEF CadenceIsDated
<1>6. CASE UNCHANGED <<sentGen, sentTrue, now, forgiven, cadenceAt>> /\ opc' # "forgiven"
  BY <1>0, <1>6 DEF CadenceIsDated
<1>7. CASE UNCHANGED <<sentGen, sentTrue, now, forgiven, cadenceAt, opc, rClock>>
  BY <1>0, <1>7 DEF CadenceIsDated
<1>8. ASSUME StartTick \/ StampSlot \/ SendProbe \/ Closes \/ UNCHANGED vars
      PROVE  UNCHANGED <<sentGen, sentTrue, now, forgiven, cadenceAt, opc, rClock>>
  BY <1>8 DEF StartTick, StampSlot, SendProbe, Prober, Closes, vars, probe, history, reading
<1>9. ASSUME \/ (\E g \in Gens : RecordAck(g)) \/ Pause \/ Release
             \/ BeginObserve \/ Wake \/ Glance \/ LoadPair \/ LoadSlot \/ Check \/ LoadAnchor
             \/ LoadForDeadline \/ Prospect
      PROVE  UNCHANGED <<sentGen, sentTrue, now, forgiven, cadenceAt>> /\ opc' # "forgiven"
  <2>1. ASSUME \/ (\E g \in Gens : RecordAck(g)) \/ Pause \/ Release \/ BeginObserve \/ Wake
               \/ LoadSlot \/ LoadAnchor
        PROVE  UNCHANGED <<sentGen, sentTrue, now, forgiven, cadenceAt>> /\ opc' # "forgiven"
    BY <2>1 DEF RecordAck, Folding, Pause, Release, BeginObserve, Wake, LoadSlot, LoadAnchor, Reads,
                probe, history
  <2>2. ASSUME Glance \/ LoadPair \/ Check \/ LoadForDeadline \/ Prospect
        PROVE  UNCHANGED <<sentGen, sentTrue, now, forgiven, cadenceAt>> /\ opc' # "forgiven"
    BY <2>2 DEF Glance, LoadPair, Check, LoadForDeadline, Prospect, Reads, Conclude, Tell, SleepUntil,
                probe
  <2>3. QED
    BY <1>9, <2>1, <2>2
<1>10. QED
  BY <1>1, <1>2, <1>3, <1>4, <1>5, <1>6, <1>7, <1>8, <1>9 DEF Next, ProberThread, Observer

(* What a step of the prober or the world leaves the observing thread with. *)
Untouched ==
  UNCHANGED <<sentGen, sentTrue, ackedGen, forgiven, opc, op, rAnchor, rOpened, rClock, began, wake>>

LEMMA ProberTouches ==
  ASSUME Watch
  PROVE  /\ StartTick \/ StampSlot \/ DateCadence \/ SendProbe \/ Closes \/ UNCHANGED vars =>
              Untouched /\ now' = now
         /\ TimePasses => Untouched /\ now' = now + 1
BY DEF StartTick, StampSlot, DateCadence, SendProbe, Prober, Closes, TimePasses, Untouched, vars, probe,
       history, reading, told

(* A publication, for the observing thread: the newest probe went out now,  *)
(* an interval after the one before.                                        *)
LEMMA PublishDates ==
  ASSUME Watch, Publish
  PROVE  /\ sentGen' = sentGen + 1 /\ sentTrue'[sentGen + 1] = now
         /\ sentGen > 0 => sentTrue[sentGen] + Interval <= now
         /\ sentGen > ackedGen => First' = First
         /\ sentGen = ackedGen => First' = now
         /\ UNCHANGED <<now, ackedGen, forgiven, opc, op, rAnchor, rOpened, rClock, began, wake>>
<1>1. /\ Numbers /\ Ticking /\ Spaced /\ sentGen \in Nat /\ ackedGen \in Nat /\ stamp \in Nat /\ slept \in Nat
      /\ Interval \in Nat /\ \A g \in 1 .. sentGen : sentTrue[g] \in Nat
  BY ConstantsArePositive, SentIsDated DEF Watch, IInv, Numbers
<1>2. /\ sentGen' = gen /\ gen = sentGen + 1 /\ sentTrue'[gen] = stamp /\ ppc = "stamped"
      /\ \A g \in 1 .. sentGen : sentTrue'[g] = sentTrue[g]
      /\ UNCHANGED <<now, ackedGen, forgiven, opc, op, rAnchor, rOpened, rClock>>
  BY <1>1, PublishRaises
<1>3. UNCHANGED <<began, wake>>
  BY DEF Publish, Prober, told
<1>4. stamp = now
  BY <1>1, <1>2 DEF Ticking
<1>5. sentGen > 0 => sentTrue[sentGen] + Interval <= now
  <2>1. SUFFICES ASSUME sentGen > 0 PROVE sentTrue[sentGen] + Interval <= now
    OBVIOUS
  <2>2. sentTrue[sentGen] <= slept /\ slept + Interval <= stamp /\ sentTrue[sentGen] \in Nat
    BY <1>1, <1>2, <2>1 DEF Spaced
  <2>3. QED
    BY <1>1, <1>4, <2>2
<1>6. sentGen > ackedGen => First' = First
  BY <1>1, <1>2 DEF First
<1>7. sentGen = ackedGen => First' = now
  BY <1>2, <1>4 DEF First
<1>8. QED
  BY <1>2, <1>3, <1>4, <1>5, <1>6, <1>7

(* Where each step of the observing thread leaves it. *)
LEMMA ObserverGoes ==
  ASSUME Watch
  PROVE  /\ ((\E g \in Gens : RecordAck(g)) \/ Pause \/ Resume \/ DateArming \/ Release
                \/ BeginObserve \/ Wake) =>
              opc' \in {"folding", "forgiven", "dated", "glance"}
         /\ Glance => opc' = "anchor" \/ (opc' = "pair" /\ op' = "observe")
         /\ LoadPair => /\ opc = "pair" /\ UNCHANGED <<op, began, rClock>>
                        /\ \/ opc' \in {"slot", "anchor"}
                           \/ opc' = "asleep" /\ wake' = NoWake
BY DEF RecordAck, Folding, Pause, Resume, DateArming, Release, BeginObserve, Wake, Glance, Reads, Tell,
       LoadPair, Conclude, SleepUntil

(* A reading stays true to the probe it is about, whatever goes out during it. *)
LEMMA NextReading ==
  ASSUME Watch, [Next]_vars
  PROVE  Reading'
<1>0. /\ Reading /\ Numbers /\ ReadingIsNoOlder /\ CadenceIsDated /\ WatchTypes /\ RingIsExact
  BY DEF Watch, IInv
<1>00. /\ sentGen \in Nat /\ ackedGen \in Nat /\ forgiven \in Nat /\ ackedGen <= sentGen
       /\ now \in Nat /\ began \in Nat /\ rAnchor \in Nat /\ rClock \in Nat /\ rSent \in Nat
       /\ Interval \in Nat /\ SendLog \in Nat /\ SendLog >= 1
  BY <1>0, ConstantsArePositive DEF Numbers, Times, WatchTypes
<1>1. CASE Untouched /\ now' \in {now, now + 1}
  BY <1>0, <1>00, <1>1 DEF Reading, Untouched, First
<1>2. ASSUME Publish PROVE Reading'
  <2>1. ackedGen > forgiven /\ sentGen = ackedGen /\ opc = "prospect" => rAnchor + Interval <= now
    <3>1. SUFFICES ASSUME ackedGen > forgiven, sentGen = ackedGen, opc = "prospect"
                   PROVE  rAnchor + Interval <= now
      OBVIOUS
    <3>2. rAnchor <= sentTrue[ackedGen] /\ sentTrue[ackedGen] + Interval <= now
      BY <1>0, <1>00, <1>2, <3>1, PublishDates DEF Reading
    <3>3. sentTrue[ackedGen] \in Nat
      BY <1>00, <3>1, SentIsDated DEF Watch, IInv
    <3>4. QED
      BY <1>00, <3>2, <3>3
  <2>2. opc = "check" => sentGen > ackedGen
    BY <1>0, <1>00 DEF ReadingIsNoOlder
  <2>3. /\ sentGen' = sentGen + 1
        /\ sentGen > ackedGen => First' = First
        /\ sentGen = ackedGen => First' = now
        /\ UNCHANGED <<now, ackedGen, forgiven, opc, op, rAnchor, rOpened, rClock, began>>
    BY <1>2, PublishDates
  <2>4. QED
    BY <1>0, <1>00, <2>1, <2>2, <2>3 DEF Reading
<1>3. CASE opc' \in {"folding", "forgiven", "dated", "glance", "anchor", "asleep"}
  BY <1>3 DEF Reading
<1>4. ASSUME Glance PROVE Reading'
  BY <1>3, <1>4, ObserverGoes DEF Reading
<1>5. ASSUME LoadPair PROVE Reading'
  <2>1. CASE opc' = "slot"
    <3>1. opc = "pair" /\ UNCHANGED <<op, began, rClock>>
      BY <1>5, ObserverGoes
    <3>2. QED
      BY <1>0, <2>1, <3>1 DEF Reading
  <2>2. QED
    BY <1>3, <1>5, <2>1, ObserverGoes
<1>6. ASSUME LoadSlot PROVE Reading'
  <2>1. /\ opc = "slot" /\ opc' = "check" /\ UNCHANGED <<op, began, rClock, sentGen, ackedGen, sentTrue>>
        /\ rOpened' = sentAt[Slot(AnchorGen(rSent))]
    BY <1>6 DEF LoadSlot, Reads, probe
  <2>2. ackedGen < rSent /\ rSent <= sentGen
    BY <1>0, <2>1 DEF ReadingIsNoOlder
  <2>3. ASSUME sentGen - ackedGen < SendLog PROVE rOpened' = First
    <3>1. AnchorGen(rSent) = ackedGen + 1
      <4>1. rSent - (SendLog - 1) \in Int /\ ackedGen + 1 \in Int /\ rSent - (SendLog - 1) < ackedGen + 1
        BY <1>00, <2>2, <2>3
      <4>2. AnchorGen(rSent) \in {ackedGen + 1, rSent - (SendLog - 1)} /\ AnchorGen(rSent) >= ackedGen + 1
        BY <4>1, MaxOfTwo DEF AnchorGen
      <4>3. QED
        BY <4>1, <4>2
    <3>2. ackedGen + 1 \in 1 .. sentGen /\ sentGen - (ackedGen + 1) < SendLog - 1
      BY <1>00, <2>2, <2>3
    <3>3. sentAt[Slot(ackedGen + 1)] = sentTrue[ackedGen + 1]
      BY <1>0, <3>2 DEF RingIsExact
    <3>4. QED
      BY <2>1, <3>1, <3>3 DEF First
  <2>4. op = "deadline" => began <= rClock
    BY <1>0, <2>1 DEF Reading
  <2>5. First' = First
    BY <2>1 DEF First
  <2>6. QED
    BY <2>1, <2>3, <2>4, <2>5 DEF Reading
<1>7. ASSUME Check PROVE Reading'
  <2>1. UNCHANGED <<op, began, rClock>> /\ opc = "check"
    BY <1>7 DEF Check, Reads
  <2>2. opc' \in {"pair", "anchor", "asleep"}
    BY <1>7 DEF Check, Conclude, Tell, SleepUntil
  <2>3. QED
    BY <1>0, <1>3, <2>1, <2>2 DEF Reading
<1>8. ASSUME LoadAnchor PROVE Reading'
  <2>1. opc' = "deadline" /\ rAnchor' = cadenceAt /\ began' = now
        /\ UNCHANGED <<now, sentGen, ackedGen, forgiven, sentTrue>>
    BY <1>8 DEF LoadAnchor, Reads, probe
  <2>2. QED
    BY <1>0, <1>00, <2>1 DEF Reading, CadenceIsDated, First
<1>9. ASSUME LoadForDeadline PROVE Reading'
  <2>1. /\ opc = "deadline" /\ UNCHANGED <<now, sentGen, ackedGen, forgiven, sentTrue, rAnchor, began>>
        /\ \/ sentGen > ackedGen /\ opc' = "pair" /\ rClock' = now
           \/ ~(sentGen > ackedGen) /\ opc' = "prospect"
    BY <1>9 DEF LoadForDeadline, Reads, probe, Outstanding
  <2>2. QED
    BY <1>0, <1>00, <2>1 DEF Reading, First
<1>10. ASSUME Prospect PROVE opc' = "asleep"
  BY <1>10 DEF Prospect, SleepUntil
<1>11. QED
  BY <1>1, <1>2, <1>3, <1>4, <1>5, <1>6, <1>7, <1>8, <1>9, <1>10, ProberTouches, ObserverGoes
  DEF Next, ProberThread, Observer

(* A sleep with nothing owed was reckoned from the last probe, or from now. *)
LEMMA NextResting ==
  ASSUME Watch, [Next]_vars
  PROVE  Resting'
<1>0. /\ Reading /\ Resting /\ Numbers /\ ReadingIsNoOlder /\ WatchTypes
  BY DEF Watch, IInv
<1>00. /\ sentGen \in Nat /\ ackedGen \in Nat /\ forgiven \in Nat /\ ackedGen <= sentGen
       /\ now \in Nat /\ began \in Nat /\ rAnchor \in Nat /\ rSent \in Nat
       /\ Interval \in Nat /\ Threshold \in Nat
  BY <1>0, ConstantsArePositive DEF Numbers, Times, WatchTypes
<1>1. CASE Untouched
  BY <1>0, <1>1 DEF Resting, Untouched
<1>2. ASSUME Publish PROVE Resting'
  <2>1. ~(sentGen' = ackedGen')
    BY <1>2, <1>00, PublishDates
  <2>2. QED
    BY <2>1 DEF Resting
<1>3. CASE opc' # "asleep" \/ wake' = NoWake
  <2>1. NoWake' = NoWake
    BY DEF NoWake
  <2>2. QED
    BY <1>3, <2>1 DEF Resting
<1>4. ASSUME Check PROVE Resting'
  <2>1. opc = "check" /\ UNCHANGED <<sentGen, ackedGen>>
    BY <1>4 DEF Check, Reads, probe
  <2>2. sentGen > ackedGen
    BY <1>0, <1>00, <2>1 DEF ReadingIsNoOlder
  <2>3. QED
    BY <1>00, <2>1, <2>2 DEF Resting
<1>5. ASSUME LoadSlot \/ LoadAnchor \/ LoadForDeadline PROVE opc' # "asleep"
  BY <1>5 DEF LoadSlot, LoadAnchor, LoadForDeadline
<1>6. ASSUME Prospect PROVE Resting'
  <2>1. /\ opc = "prospect" /\ rClock' = now
        /\ UNCHANGED <<sentGen, ackedGen, forgiven, sentTrue, rAnchor, began>>
    BY <1>6 DEF Prospect, Reads, probe
  <2>2. \/ wake' = NoWake
        \/ now <= rAnchor + Interval /\ wake' = rAnchor + Interval + Threshold
        \/ ~(now <= rAnchor + Interval) /\ wake' = now + Remaining(now - (rAnchor + Interval))
    BY <1>6 DEF Prospect, SleepUntil
  <2>3. \/ Remaining(now - (rAnchor + Interval)) = Threshold
        \/ Remaining(now - (rAnchor + Interval)) = Threshold - (now - (rAnchor + Interval))
    BY DEF Remaining
  <2>4. \/ wake' = NoWake
        \/ wake' = rAnchor + Interval + Threshold
        \/ wake' = now + Threshold
    BY <1>00, <2>2, <2>3
  <2>5. rAnchor <= began /\ began <= now
        /\ (sentGen = ackedGen /\ ackedGen > forgiven => rAnchor <= sentTrue[ackedGen])
    BY <1>0, <2>1 DEF Reading
  <2>6. QED
    BY <1>3, <2>1, <2>4, <2>5 DEF Resting
<1>7. QED
  BY <1>1, <1>2, <1>3, <1>4, <1>5, <1>6, ProberTouches, ObserverGoes DEF Next, ProberThread, Observer

(* The bound survives the probes that go out during the sleep. *)
LEMMA NextBounded ==
  ASSUME Watch, [Next]_vars
  PROVE  Bounded'
<1>0. /\ Reading /\ Resting /\ Bounded /\ Numbers /\ ReadingIsNoOlder /\ WatchTypes
  BY DEF Watch, IInv
<1>00. /\ sentGen \in Nat /\ ackedGen \in Nat /\ forgiven \in Nat /\ ackedGen <= sentGen
       /\ now \in Nat /\ began \in Nat /\ rAnchor \in Nat /\ rSent \in Nat /\ rClock \in Nat /\ rOpened \in Nat
       /\ rClock <= now /\ wake \in Int
       /\ Interval \in Nat /\ Threshold \in Nat /\ Retry \in Nat /\ SendLog \in Nat
       /\ sentGen > ackedGen => First \in Nat
  <2>1. sentGen > ackedGen => ackedGen + 1 \in 1 .. sentGen
    BY <1>0 DEF Numbers
  <2>2. sentGen > ackedGen => First \in Nat
    BY <2>1, SentIsDated DEF First, Watch, IInv
  <2>3. QED
    BY <1>0, <2>2, ConstantsArePositive, LogSpansTwiceTheThreshold DEF Numbers, Times, WatchTypes
<1>1. CASE Untouched
  BY <1>0, <1>1 DEF Bounded, Untouched, First
<1>2. ASSUME Publish PROVE Bounded'
  <2>0. /\ sentGen' = sentGen + 1
        /\ sentGen > ackedGen => First' = First
        /\ sentGen = ackedGen => First' = now
        /\ sentGen > 0 => sentTrue[sentGen] + Interval <= now
        /\ UNCHANGED <<ackedGen, forgiven, opc, rAnchor, rClock, began, wake>>
    BY <1>2, PublishDates
  <2>1. CASE sentGen > ackedGen
    <3>1. sentGen' - ackedGen' < SendLog => sentGen - ackedGen < SendLog
      BY <1>00, <2>0
    <3>2. QED
      BY <1>0, <2>0, <2>1, <3>1 DEF Bounded
  <2>2. CASE sentGen = ackedGen
    <3>1. SUFFICES ASSUME opc = "asleep", wake # NoWake
                   PROVE  wake <= now + Threshold + (rClock - began)
                                    + (IF ackedGen = forgiven THEN Interval ELSE 0)
      BY <2>0, <2>2 DEF Bounded
    <3>2. began <= rClock
      BY <1>0, <2>2, <3>1 DEF Resting
    <3>3. CASE wake = rClock + Threshold
      BY <1>00, <3>2, <3>3
    <3>4. CASE /\ wake = rAnchor + Interval + Threshold /\ rAnchor <= began
               /\ ackedGen > forgiven => rAnchor <= sentTrue[ackedGen]
      <4>1. CASE ackedGen > forgiven
        <5>1. rAnchor <= sentTrue[ackedGen] /\ sentTrue[ackedGen] + Interval <= now
          BY <1>00, <2>0, <2>2, <3>4, <4>1
        <5>2. sentTrue[ackedGen] \in Nat
          BY <1>00, <2>2, <4>1, SentIsDated DEF Watch, IInv
        <5>3. QED
          BY <1>00, <3>2, <3>4, <5>1, <5>2
      <4>2. CASE ~(ackedGen > forgiven)
        <5>1. ackedGen = forgiven
          BY <1>00, <4>2 DEF Watch, Forgiven
        <5>2. QED
          BY <1>00, <3>2, <3>4, <5>1
      <4>3. QED
        BY <4>1, <4>2
    <3>5. QED
      BY <1>0, <2>2, <3>1, <3>3, <3>4 DEF Resting
  <2>3. QED
    BY <1>00, <2>1, <2>2
<1>3. CASE opc' # "asleep" \/ wake' = NoWake
  <2>1. NoWake' = NoWake
    BY DEF NoWake
  <2>2. QED
    BY <1>3, <2>1 DEF Bounded
<1>4. ASSUME Check PROVE Bounded'
  <2>0. opc = "check" /\ UNCHANGED <<sentGen, ackedGen, forgiven, sentTrue, rClock, began>>
    BY <1>4 DEF Check, Reads, probe
  <2>1. First' = First
    BY <2>0 DEF First
  <2>2. \/ opc' # "asleep"
        \/ wake' = rClock + Retry
        \/ op # "observe" /\ wake' = rClock + Remaining(Silence)
    BY <1>4 DEF Check, Conclude, Tell, SleepUntil
  <2>3. ASSUME op # "observe", sentGen - ackedGen < SendLog, rClock < First + Threshold
        PROVE  rClock + Remaining(Silence) <= First + Threshold + (rClock - began)
    <3>1. rOpened = First /\ began <= rClock
      BY <1>0, <2>0, <2>3 DEF Reading, WatchTypes
    <3>2. Silence \in {0, rClock - First} /\ Silence >= 0 /\ Silence >= rClock - First
      <4>1. 0 \in Int /\ rClock - rOpened \in Int
        BY <1>00
      <4>2. QED
        BY <3>1, <4>1, MaxOfTwo DEF Silence
    <3>3. Remaining(Silence) = Threshold - Silence
      BY <1>00, <2>3, <3>1, <3>2, ConstantsArePositive DEF Remaining
    <3>4. rClock - Silence <= First
      BY <1>00, <3>1, <3>2
    <3>5. QED
      BY <1>00, <3>1, <3>2, <3>3, <3>4
  <2>4. ASSUME sentGen > ackedGen, sentGen - ackedGen < SendLog, rClock < First + Threshold, opc' = "asleep"
        PROVE  \/ wake' <= First + Threshold + (rClock - began)
                               + (IF ackedGen = forgiven THEN Interval ELSE 0)
               \/ wake' <= rClock + Retry
    <3>1. CASE wake' = rClock + Retry
      BY <1>00, <3>1
    <3>2. CASE op # "observe" /\ wake' = rClock + Remaining(Silence)
      <4>1. wake' <= First + Threshold + (rClock - began)
        BY <2>3, <2>4, <3>2
      <4>2. wake' \in Int /\ First \in Nat
        BY <1>00, <2>4, NextWatchTypes DEF WatchTypes
      <4>3. QED
        BY <1>00, <4>1, <4>2
    <3>3. QED
      BY <2>2, <2>4, <3>1, <3>2
  <2>5. QED
    BY <2>0, <2>1, <2>4 DEF Bounded
<1>5. ASSUME LoadSlot \/ LoadAnchor \/ LoadForDeadline PROVE opc' # "asleep"
  BY <1>5 DEF LoadSlot, LoadAnchor, LoadForDeadline
<1>6. ASSUME Prospect PROVE Bounded'
  <2>1. /\ opc = "prospect" /\ rClock' = now
        /\ UNCHANGED <<sentGen, ackedGen, forgiven, sentTrue, rAnchor, began>>
    BY <1>6 DEF Prospect, Reads, probe
  <2>2. \/ wake' = NoWake
        \/ now <= rAnchor + Interval /\ wake' = rAnchor + Interval + Threshold
        \/ ~(now <= rAnchor + Interval) /\ wake' = now + Remaining(now - (rAnchor + Interval))
    BY <1>6 DEF Prospect, SleepUntil
  <2>3. \/ Remaining(now - (rAnchor + Interval)) = Threshold
        \/ Remaining(now - (rAnchor + Interval)) = Threshold - (now - (rAnchor + Interval))
    BY DEF Remaining
  <2>4. \/ wake' = NoWake
        \/ wake' = rAnchor + Interval + Threshold
        \/ wake' = now + Threshold
    BY <1>00, <2>2, <2>3
  <2>5. rAnchor <= began /\ began <= now
        /\ (sentGen > ackedGen => began <= First /\ (ackedGen > forgiven => rAnchor + Interval <= First))
    BY <1>0, <2>1 DEF Reading
  <2>6. First' = First
    BY <2>1 DEF First
  <2>7. ackedGen = forgiven \/ ackedGen > forgiven
    BY <1>00 DEF Watch, Forgiven
  <2>8. ASSUME sentGen > ackedGen, wake' # NoWake
        PROVE  wake' <= First + Threshold + (now - began) + (IF ackedGen = forgiven THEN Interval ELSE 0)
    <3>1. began <= First /\ First \in Nat
      BY <1>00, <2>5, <2>8
    <3>2. CASE wake' = now + Threshold
      BY <1>00, <3>1, <3>2
    <3>3. CASE wake' = rAnchor + Interval + Threshold
      BY <1>00, <2>5, <2>7, <2>8, <3>1, <3>3
    <3>4. QED
      BY <2>4, <2>8, <3>2, <3>3
  <2>9. NoWake' = NoWake
    BY DEF NoWake
  <2>10. QED
    BY <2>1, <2>6, <2>8, <2>9 DEF Bounded
<1>7. QED
  BY <1>1, <1>2, <1>3, <1>4, <1>5, <1>6, ProberTouches, ObserverGoes DEF Next, ProberThread, Observer

(* A resume forgives everything sent, an answer counts one at the least. *)
LEMMA NextForgiven ==
  ASSUME Watch, [Next]_vars
  PROVE  Forgiven'
<1>0. Forgiven /\ Numbers /\ AnswersWereAsked /\ ackedGen \in Nat /\ forgiven \in Nat /\ sentGen \in Nat
  BY DEF Watch, IInv, Numbers
<1>1. ASSUME NEW g \in Gens, RecordAck(g) PROVE Forgiven'
  <2>1. g \in Nat /\ forgiven' = forgiven
    BY <1>0, <1>1, AckRaises
  <2>2. ackedGen' >= ackedGen /\ ackedGen' \in {g, ackedGen}
    BY <1>0, <1>1, <2>1, MaxOfTwo DEF RecordAck
  <2>3. QED
    BY <1>0, <2>1, <2>2 DEF Forgiven
<1>2. ASSUME Resume PROVE Forgiven'
  <2>1. ackedGen' = sentGen /\ forgiven' = sentGen
    BY <1>2 DEF Resume
  <2>2. QED
    BY <1>0, <2>1 DEF Forgiven
<1>3. ASSUME \/ StartTick \/ StampSlot \/ Publish \/ DateCadence \/ SendProbe \/ Pause
             \/ DateArming \/ Release \/ BeginObserve \/ Wake \/ Glance \/ LoadPair \/ LoadSlot
             \/ Check \/ LoadAnchor \/ LoadForDeadline \/ Prospect \/ TimePasses \/ Closes
             \/ UNCHANGED vars
      PROVE  UNCHANGED <<ackedGen, forgiven>>
  BY <1>3 DEF Folding, Pause, DateArming, Release, BeginObserve, Wake, Glance, Reads, LoadPair, StartTick,
              StampSlot, Publish, DateCadence, SendProbe, Prober, TimePasses,
              LoadSlot, Check, LoadAnchor, LoadForDeadline, Prospect, probe, Closes, vars, history
<1>4. CASE UNCHANGED <<ackedGen, forgiven>>
  BY <1>0, <1>4 DEF Forgiven
<1>5. QED
  BY <1>1, <1>2, <1>3, <1>4 DEF Next, ProberThread, Observer

(* The strengthening holds at first, and after every step. *)
LEMMA InitWatch ==
  ASSUME Init
  PROVE  Watch
<1>1. IInv
  BY InitIInv
<1>2. WatchTypes /\ Forgiven /\ CadenceIsDated /\ Reading /\ Resting /\ Bounded
  BY DEF Init, WatchTypes, Forgiven, CadenceIsDated, Reading, Resting, Bounded, NoWake
<1>3. RingIsExact /\ Spaced
  BY DEF Init, RingIsExact, Spaced
<1>4. QED
  BY <1>1, <1>2, <1>3 DEF Watch

LEMMA NextWatch ==
  ASSUME Watch, [Next]_vars
  PROVE  Watch'
<1>1. IInv'
  BY NextIInv DEF Watch
<1>2. QED
  BY <1>1, NextWatchTypes, NextForgiven, NextRingIsExact, NextSpaced, NextCadenceIsDated, NextReading,
     NextResting, NextBounded DEF Watch

(* The wakeup never comes later than the oldest probe's silence makes a     *)
(* wedge of it but for what the deadline's own reading took, an arming's    *)
(* phase and a raced reading's retry (poll_deadline, prospective_deadline). *)
THEOREM TheWakeupNeverOversleeps == Spec => []NeverOversleeps
<1>1. Init => Watch
  BY InitWatch
<1>2. Watch /\ [Next]_vars => Watch'
  BY NextWatch
<1>3. Watch => NeverOversleeps
  BY BoundedIs DEF Watch, IInv
<1>4. QED
  BY <1>1, <1>2, <1>3, PTL DEF Spec
==============================================================================
