--------------------------- MODULE ClipboardProofs ---------------------------
(***************************************************************************)
(* Proofs about Clipboard, for any registers, any number of engines, of    *)
(* requests and of copies, and whatever the host's clipboard does.         *)
(***************************************************************************)
EXTENDS Clipboard, SequenceTheorems, TLAPS

Kinds == {"get", "set", "query", "store"}

(* What a queue of the loop and the worker's channel carry.                *)
Request == [kind : Kinds, register : Registers, asker : Nat, id : Nat, text : Nat]
RawJob == [kind : Kinds, register : Registers, asker : Nat, id : Nat, text : Nat,
           epoch : Nat, expect : Nat]

(* What a job handed over for another engine than the one that asked is.   *)
Overtaken(kind, asker, to) == kind \in {"get", "set"} /\ asker < to
Job == {job \in RawJob : job.asker # job.epoch => Overtaken(job.kind, job.asker, job.epoch)}

(* The newest engine, and who asked what is still queued to the loop.      *)
Newest == IF phase = "spawned" THEN epoch + 1 ELSE epoch
AskersAreKnown ==
  /\ \A i \in 1..Len(inbox) : inbox[i].kind \in {"get", "set"} /\ inbox[i].asker <= Newest
  /\ \A i \in 1..Len(redraws) : redraws[i].asker = Newest

Numbers ==
  /\ phase \in {"up", "dead", "stopping", "down", "spawned"}
  /\ epoch \in Nat /\ open \in Nat /\ asked \in Nat /\ copies \in Nat
  /\ shadow \in [Registers -> Nat] /\ dispatched \in [Registers -> Nat]

Queues ==
  /\ inbox \in Seq(Request) /\ redraws \in Seq(Request) /\ jobs \in Seq(Job)
  /\ wired \in BOOLEAN
  /\ ~wired => jobs = <<>> /\ doing = Idle

(* The first n jobs of a channel, run over a shadow map, leave t in r.     *)
CopyOf(job, r) == job.kind \in {"set", "store"} /\ job.register = r
Leaves(map, js, n, r, t) ==
  \/ t = map[r] /\ \A k \in 1..n : ~CopyOf(js[k], r)
  \/ \E j \in 1..n : /\ CopyOf(js[j], r) /\ js[j].text = t
                     /\ \A k \in 1..n : k > j => ~CopyOf(js[k], r)

(* What the worker has yet to carry out, the job in its hands included.    *)
InHand == doing.step \in {"connecting", "connected", "unreachable"}
Backlog == IF InHand THEN <<doing.job>> \o jobs ELSE jobs

(* Every queued job expects what the jobs before it leave in its register, *)
(* and the next one will expect what all of them leave.                    *)
BacklogIsExpected ==
  /\ \A i \in 1..Len(Backlog) :
       Leaves(shadow, Backlog, i - 1, Backlog[i].register, Backlog[i].expect)
  /\ wired => \A r \in Registers : Leaves(shadow, Backlog, Len(Backlog), r, dispatched[r])

(* The worker touches no shadow register while it owes an answer.          *)
ShadowIsRead ==
  /\ (doing.step \in {"idle", "starting", "reading", "answer"} \/ InHand)
  /\ doing.step \notin {"idle", "starting"} => doing.job \in Job
  /\ doing.step = "reading" => shadow[doing.job.register] = doing.job.expect
  /\ doing.step = "answer" /\ doing.source = "shadow" => doing.text = doing.job.expect

LastIsRight ==
  /\ OnlyOvertakenGoAstray
  /\ ShadowIsTheLastCopy

IInv == Numbers /\ Queues /\ AskersAreKnown /\ BacklogIsExpected /\ ShadowIsRead /\ LastIsRight

-----------------------------------------------------------------------------
(* A step that answers nobody says nothing wrong.                          *)
LEMMA SilenceIsRight ==
  ASSUME LastIsRight, last' \in {last, None}
  PROVE  LastIsRight'
BY DEF LastIsRight, OnlyOvertakenGoAstray, ShadowIsTheLastCopy

(* Taking the first job, and storing the copy it may be, leaves the rest   *)
(* of the backlog expecting what it did.                                   *)
LEMMA TakenFromTheFront ==
  ASSUME NEW js \in Seq(Job), js # <<>>, NEW map \in [Registers -> Nat],
         NEW n \in 1..Len(js), NEW r \in Registers, NEW t \in Nat,
         Leaves(map, js, n, r, t),
         NEW new,
         \/ new = [map EXCEPT ![js[1].register] = js[1].text] /\ js[1].kind \in {"set", "store"}
         \/ new = map /\ js[1].kind \notin {"set", "store"}
  PROVE  Leaves(new, Tail(js), n - 1, r, t)
<1> DEFINE tl == Tail(js)
<1>1. /\ js[1] \in Job /\ Len(js) \in Nat /\ n \in Nat
      /\ \A k \in 1..(n - 1) : tl[k] = js[k + 1]
  BY SMTT(30)
<1>2. CopyOf(js[1], r) => new[r] = js[1].text
  BY <1>1 DEF CopyOf, Job, RawJob
<1>3. ~CopyOf(js[1], r) => new[r] = map[r]
  BY <1>1 DEF CopyOf, Job, RawJob
<1>4. CASE t = map[r] /\ \A k \in 1..n : ~CopyOf(js[k], r)
  <2>1. ~CopyOf(js[1], r) /\ \A k \in 1..(n - 1) : ~CopyOf(tl[k], r)
    BY <1>1, <1>4
  <2>2. QED
    BY <2>1, <1>3, <1>4 DEF Leaves
<1>5. CASE \E j \in 1..n : /\ CopyOf(js[j], r) /\ js[j].text = t
                           /\ \A k \in 1..n : k > j => ~CopyOf(js[k], r)
  <2>1. PICK j \in 1..n : /\ CopyOf(js[j], r) /\ js[j].text = t
                          /\ \A k \in 1..n : k > j => ~CopyOf(js[k], r)
    BY <1>5
  <2>2. CASE j = 1
    <3>1. t = new[r]
      BY <2>1, <2>2, <1>2
    <3>2. \A k \in 1..(n - 1) : ~CopyOf(tl[k], r)
      BY <2>1, <2>2, <1>1
    <3>3. QED
      BY <3>1, <3>2 DEF Leaves
  <2>3. CASE j # 1
    <3>1. j - 1 \in 1..(n - 1) /\ tl[j - 1] = js[j]
      BY <2>3, <1>1
    <3>2. \A k \in 1..(n - 1) : k > j - 1 => ~CopyOf(tl[k], r)
      BY <2>1, <1>1
    <3>3. QED
      BY <3>1, <3>2, <2>1 DEF Leaves
  <2>4. QED
    BY <2>2, <2>3
<1>6. QED
  BY <1>4, <1>5 DEF Leaves

(* A job at the back changes nothing for those before it.                  *)
LEMMA AddedAtTheBack ==
  ASSUME NEW js \in Seq(Job), NEW map, NEW job \in Job,
         NEW n \in 0..Len(js), NEW r, NEW t, Leaves(map, js, n, r, t)
  PROVE  Leaves(map, Append(js, job), n, r, t)
<1>1. n \in Nat /\ Len(js) \in Nat /\ \A k \in 1..n : Append(js, job)[k] = js[k]
  BY SMTT(30)
<1>2. QED
  BY <1>1 DEF Leaves

-----------------------------------------------------------------------------
(* The backlog is a sequence of jobs, grows at the back with the worker's  *)
(* channel, and stays what it is when the worker takes a job to its hands. *)
LEMMA BacklogIsSeq == ASSUME Queues, ShadowIsRead PROVE Backlog \in Seq(Job)
<1>1. CASE InHand
  <2>1. doing.job \in Job /\ jobs \in Seq(Job)
    BY <1>1 DEF Queues, ShadowIsRead, InHand
  <2>2. <<doing.job>> \in Seq(Job)
    BY <2>1
  <2>3. QED
    BY <1>1, <2>1, <2>2, ConcatProperties DEF Backlog
<1>2. CASE ~InHand
  BY <1>2 DEF Queues, Backlog
<1>3. QED
  BY <1>1, <1>2

LEMMA BacklogGrows ==
  ASSUME Queues, ShadowIsRead, NEW job \in Job, jobs' = Append(jobs, job), doing' = doing
  PROVE  Backlog' = Append(Backlog, job)
<1>1. InHand' <=> InHand
  BY DEF InHand
<1>2. CASE InHand
  <2>1. doing.job \in Job /\ jobs \in Seq(Job)
    BY <1>2 DEF Queues, ShadowIsRead, InHand
  <2>2. /\ <<doing.job>> \in Seq(Job) /\ <<job>> \in Seq(Job)
        /\ <<doing.job>> \o jobs \in Seq(Job)
    BY <2>1, ConcatProperties
  <2>3. Append(jobs, job) = jobs \o <<job>>
    BY <2>1, AppendIsConcat
  <2>4. Append(<<doing.job>> \o jobs, job) = (<<doing.job>> \o jobs) \o <<job>>
    BY <2>2, AppendIsConcat
  <2>5. (<<doing.job>> \o jobs) \o <<job>> = <<doing.job>> \o (jobs \o <<job>>)
    BY <2>1, <2>2, ConcatAssociative
  <2>6. Backlog = <<doing.job>> \o jobs /\ Backlog' = <<doing.job>> \o Append(jobs, job)
    BY <1>1, <1>2, Zenon DEF Backlog
  <2>7. QED
    BY <2>3, <2>4, <2>5, <2>6
<1>3. CASE ~InHand
  BY <1>1, <1>3 DEF Backlog
<1>4. QED
  BY <1>2, <1>3

LEMMA TakenIsStillOwed ==
  ASSUME Queues, doing = Idle, jobs # <<>>, jobs' = Tail(jobs), doing'.job = Head(jobs), InHand'
  PROVE  Backlog' = Backlog
<1>1. jobs \in Seq(Job) /\ ~InHand
  BY DEF Queues, Idle, InHand
<1>2. jobs = <<Head(jobs)>> \o Tail(jobs)
  BY <1>1
<1>3. QED
  BY <1>1, <1>2 DEF Backlog

-----------------------------------------------------------------------------
(* The initial state. *)
LEMMA InitIInv == Init => IInv
<1> SUFFICES ASSUME Init PROVE IInv
  OBVIOUS
<1>1. Numbers /\ Queues /\ AskersAreKnown /\ LastIsRight
  BY DEF Init, Numbers, Queues, AskersAreKnown, LastIsRight, OnlyOvertakenGoAstray,
     ShadowIsTheLastCopy, None, Idle, Empty
<1>2. doing.step \in {"idle", "starting"} /\ ~InHand
  BY DEF Init, Idle, InHand
<1>3. ShadowIsRead
  BY <1>2 DEF ShadowIsRead
<1>4. Backlog = <<>>
  BY <1>2 DEF Backlog, Init
<1>5. BacklogIsExpected
  BY <1>4 DEF BacklogIsExpected, Leaves, Init
<1>6. QED
  BY <1>1, <1>3, <1>5 DEF IInv

(* Handing over a request queues a job with the expectation it should have. *)
LEMMA HandIInv ==
  ASSUME IInv, NEW q \in Request, Hand(q), inbox' \in Seq(Request), redraws' \in Seq(Request),
         copies' \in Nat, asked' = asked, phase' = phase, epoch' = epoch, wired' = wired,
         UNCHANGED <<workerVars, hostVars>>, AskersAreKnown',
         q.asker # epoch => Overtaken(q.kind, q.asker, epoch)
  PROVE  IInv'
<1> DEFINE job == [kind |-> q.kind, register |-> q.register, asker |-> q.asker, id |-> q.id,
                   text |-> q.text, epoch |-> epoch, expect |-> dispatched[q.register]]
<1> USE DEF IInv
<1>1. /\ job \in Job /\ job.kind = q.kind /\ job.register = q.register /\ job.text = q.text
      /\ job.expect = dispatched[q.register] /\ job.epoch = epoch /\ job.id = q.id
      /\ job.asker = q.asker
  BY DEF Numbers, Request, Job, RawJob
<1>2. /\ dispatched' = IF q.kind \in {"set", "store"}
                       THEN [dispatched EXCEPT ![q.register] = q.text] ELSE dispatched
      /\ IF wired THEN jobs' = Append(jobs, job) /\ UNCHANGED open /\ Silent
         ELSE Undelivered(job) /\ UNCHANGED jobs
  BY DEF Hand
<1>3. /\ doing' = doing /\ shadow' = shadow
  BY DEF workerVars
<1>4. dispatched' \in [Registers -> Nat]
  BY <1>2 DEF Numbers, Request
<1>5. open' \in Nat /\ LastIsRight'
  <2>1. CASE UNCHANGED open /\ Silent
    BY <2>1, SilenceIsRight DEF Numbers, Silent
  <2>2. CASE Reply(job, Empty, "inline")
    <3>1. CASE UNCHANGED open /\ Silent
      BY <3>1, <2>1
    <3>2. CASE /\ open' = IF job.id = open THEN 0 ELSE open
               /\ job.epoch = epoch
               /\ last' = Answered(epoch, job, Empty, "inline")
      <4>1. /\ last'.to = epoch /\ last'.kind = job.kind /\ last'.asker = job.asker
            /\ last'.epoch = epoch /\ ~last'.missed
        BY <3>2 DEF Answered
      <4>2. QED
        BY <4>1, <3>2, <1>1 DEF Numbers, LastIsRight, OnlyOvertakenGoAstray, ShadowIsTheLastCopy,
           Overtaken
    <3>3. QED
      BY <2>2, <3>1, <3>2, Zenon DEF Reply
  <2>3. QED
    BY <1>2, <2>1, <2>2, Zenon DEF Undelivered
<1>6. Numbers'
  BY <1>3, <1>4, <1>5 DEF Numbers
<1>7. Queues'
  <2>1. jobs \in Seq(Job) /\ wired \in BOOLEAN /\ (~wired => jobs = <<>> /\ doing = Idle)
    BY DEF Queues
  <2> HIDE DEF job
  <2>2. Append(jobs, job) \in Seq(Job)
    BY <2>1, <1>1, AppendProperties
  <2>3. jobs' \in Seq(Job) /\ (~wired' => jobs' = <<>> /\ doing' = Idle)
    BY <2>1, <2>2, <1>2, <1>3, Zenon
  <2>4. wired' \in BOOLEAN
    BY <2>1, Zenon
  <2>5. QED
    BY <2>3, <2>4, Zenon DEF Queues
<1>8. ShadowIsRead'
  BY <1>3 DEF ShadowIsRead, InHand
<1>9. BacklogIsExpected'
  <2>1. CASE wired
    <3>0. Backlog' = Append(Backlog, job) /\ Backlog \in Seq(Job)
      BY <1>1, <1>2, <1>3, <2>1, BacklogIsSeq, BacklogGrows
    <3>1. /\ Backlog' = Append(Backlog, job) /\ Backlog \in Seq(Job) /\ Len(Backlog) \in Nat
          /\ Len(Backlog') = Len(Backlog) + 1 /\ Backlog'[Len(Backlog) + 1] = job
          /\ \A i \in 1..Len(Backlog) : Backlog'[i] = Backlog[i]
      BY <3>0, <1>1
    <3>2. q.register \in Registers /\ \A r \in Registers : Leaves(shadow, Backlog, Len(Backlog), r, dispatched[r])
      BY <2>1 DEF BacklogIsExpected, Request
    <3>3. \A r \in Registers : Leaves(shadow, Backlog', Len(Backlog), r, dispatched[r])
      BY <3>1, <3>2, <1>1, AddedAtTheBack
    <3>4. \A i \in 1..Len(Backlog) : Leaves(shadow, Backlog', i - 1, Backlog'[i].register, Backlog'[i].expect)
      <4> SUFFICES ASSUME NEW i \in 1..Len(Backlog)
                   PROVE  Leaves(shadow, Backlog', i - 1, Backlog'[i].register, Backlog'[i].expect)
        OBVIOUS
      <4>1. i - 1 \in 0..Len(Backlog) /\ Leaves(shadow, Backlog, i - 1, Backlog[i].register, Backlog[i].expect)
        BY <3>1 DEF BacklogIsExpected
      <4>2. QED
        BY <4>1, <3>1, <1>1, AddedAtTheBack
    <3>5. \A i \in 1..Len(Backlog') : Leaves(shadow, Backlog', i - 1, Backlog'[i].register, Backlog'[i].expect)
      <4> SUFFICES ASSUME NEW i \in 1..Len(Backlog')
                   PROVE  Leaves(shadow, Backlog', i - 1, Backlog'[i].register, Backlog'[i].expect)
        OBVIOUS
      <4>1. CASE i \in 1..Len(Backlog)
        BY <4>1, <3>4
      <4>2. CASE i = Len(Backlog) + 1
        BY <4>2, <3>1, <3>2, <3>3, <1>1
      <4>3. QED
        BY <4>1, <4>2, <3>1
    <3>6. ASSUME NEW r \in Registers
          PROVE  Leaves(shadow, Backlog', Len(Backlog'), r, dispatched'[r])
      <4>1. CASE CopyOf(job, r)
        <5>1. dispatched'[r] = job.text
          BY <4>1, <1>1, <1>2, <3>2 DEF CopyOf, Numbers
        <5>2. QED
          BY <5>1, <4>1, <3>1, SMTT(30) DEF Leaves
      <4>2. CASE ~CopyOf(job, r)
        <5>1. dispatched'[r] = dispatched[r]
          BY <4>2, <1>1, <1>2, <3>2 DEF CopyOf, Numbers
        <5>2. Leaves(shadow, Backlog', Len(Backlog), r, dispatched[r])
          BY <3>3
        <5> HIDE DEF job
        <5>3. Leaves(shadow, Backlog', Len(Backlog) + 1, r, dispatched[r])
          <6> DEFINE n == Len(Backlog)
                     t == dispatched[r]
          <6>1. n \in Nat /\ ~CopyOf(Backlog'[n + 1], r)
            BY <4>2, <3>1
          <6>2. \A k \in 1..(n + 1) : k \in 1..n \/ k = n + 1
            BY <6>1
          <6> HIDE DEF n, t
          <6>3. QED
            BY <5>2, <6>1, <6>2 DEF Leaves, n, t
        <5>4. QED
          BY <5>1, <5>3, <3>1
      <4>3. QED
        BY <4>1, <4>2
    <3>7. QED
      BY <3>5, <3>6, <1>3 DEF BacklogIsExpected
  <2>2. CASE ~wired
    BY <2>2, <1>2, <1>3 DEF BacklogIsExpected, Queues, Backlog, InHand
  <2>3. QED
    BY <2>1, <2>2 DEF Queues
<1>10. QED
  BY <1>5, <1>6, <1>7, <1>8, <1>9 DEF IInv

(* What the worker does with the job in its hands is the backlog's first.  *)
LEMMA DoneIInv ==
  ASSUME IInv, InHand, ~InHand', UNCHANGED <<jobs, wired, dispatched>>,
         \/ /\ doing.job.kind \in {"set", "store"}
            /\ shadow' = [shadow EXCEPT ![doing.job.register] = doing.job.text]
         \/ /\ doing.job.kind \notin {"set", "store"}
            /\ shadow' = shadow
  PROVE  /\ BacklogIsExpected' /\ doing.job \in Job /\ shadow' \in [Registers -> Nat]
         /\ wired /\ shadow[doing.job.register] = doing.job.expect
<1> USE DEF IInv
<1>1. /\ Backlog \in Seq(Job) /\ Len(Backlog) \in Nat \ {0} /\ Backlog' = Tail(Backlog)
      /\ Backlog[1] = doing.job /\ Backlog[1] \in Job /\ Backlog' \in Seq(Job)
      /\ Len(Backlog') = Len(Backlog) - 1
      /\ \A i \in 1..Len(Backlog') : Backlog'[i] = Backlog[i + 1]
  <2>1. doing.job \in Job /\ jobs \in Seq(Job)
    BY DEF Queues, ShadowIsRead, InHand
  <2>2. Backlog = <<doing.job>> \o jobs /\ Backlog' = jobs
    BY DEF Backlog
  <2> HIDE DEF IInv
  <2>3. QED
    BY <2>1, <2>2, SMTT(30)
<1>2. wired
  BY DEF Queues, InHand, Idle
<1>3. shadow' \in [Registers -> Nat]
  BY <1>1 DEF Numbers, Job, RawJob
<1>4. shadow[doing.job.register] = doing.job.expect
  <2>1. Leaves(shadow, Backlog, 1 - 1, Backlog[1].register, Backlog[1].expect)
    BY <1>1 DEF BacklogIsExpected
  <2>2. QED
    BY <2>1, <1>1 DEF Leaves
<1>5. ASSUME NEW n \in 1..Len(Backlog), NEW r \in Registers, NEW t \in Nat,
             Leaves(shadow, Backlog, n, r, t)
      PROVE  Leaves(shadow', Backlog', n - 1, r, t)
  <2>1. shadow \in [Registers -> Nat]
    BY DEF Numbers
  <2>2. QED
    BY <2>1, <1>5, <1>1, TakenFromTheFront
<1>6. \A i \in 1..Len(Backlog') : Leaves(shadow', Backlog', i - 1, Backlog'[i].register, Backlog'[i].expect)
  <2> SUFFICES ASSUME NEW i \in 1..Len(Backlog')
               PROVE  Leaves(shadow', Backlog', i - 1, Backlog'[i].register, Backlog'[i].expect)
    OBVIOUS
  <2>1. /\ i \in 1..Len(Backlog) /\ i + 1 \in 1..Len(Backlog) /\ Backlog'[i] = Backlog[i + 1]
        /\ Backlog[i + 1] \in Job
    BY <1>1
  <2>2. Leaves(shadow, Backlog, i, Backlog[i + 1].register, Backlog[i + 1].expect)
    BY <2>1 DEF BacklogIsExpected
  <2>3. Backlog[i + 1].register \in Registers /\ Backlog[i + 1].expect \in Nat
    BY <2>1 DEF Job, RawJob
  <2>4. QED
    BY <2>1, <2>2, <2>3, <1>5
<1>7. \A r \in Registers : Leaves(shadow', Backlog', Len(Backlog'), r, dispatched[r])
  <2> SUFFICES ASSUME NEW r \in Registers
               PROVE  Leaves(shadow', Backlog', Len(Backlog'), r, dispatched[r])
    OBVIOUS
  <2>1. Leaves(shadow, Backlog, Len(Backlog), r, dispatched[r]) /\ dispatched[r] \in Nat
    BY <1>2 DEF BacklogIsExpected, Numbers
  <2>2. QED
    BY <2>1, <1>1, <1>5
<1>8. BacklogIsExpected'
  BY <1>6, <1>7 DEF BacklogIsExpected
<1>9. QED
  BY <1>1, <1>2, <1>3, <1>4, <1>8

(* The worker's answer goes through the route. *)
LEMMA AnswerIInv == ASSUME IInv, Answer PROVE IInv'
<1> USE DEF IInv
<1>1. /\ doing.step = "answer" /\ Reply(doing.job, doing.text, doing.source) /\ doing' = Idle
      /\ UNCHANGED <<phase, epoch, asked, queueVars, jobs, wired, shadow, copies, dispatched>>
  BY DEF Answer
<1>2. /\ doing.source = "shadow" => doing.text = doing.job.expect
      /\ doing.job \in Job /\ ~InHand /\ ~InHand'
  BY <1>1 DEF ShadowIsRead, InHand, Idle
<1>3. open' \in Nat /\ LastIsRight'
  <2>1. CASE UNCHANGED open /\ Silent
    BY <2>1, SilenceIsRight DEF Numbers, Silent
  <2>2. CASE /\ open' = IF doing.job.id = open THEN 0 ELSE open
             /\ doing.job.epoch = epoch
             /\ last' = Answered(epoch, doing.job, doing.text, doing.source)
    <3>1. /\ last'.to = epoch /\ last'.kind = doing.job.kind /\ last'.asker = doing.job.asker
          /\ last'.epoch = epoch /\ ~last'.missed
      BY <1>2, <2>2 DEF Answered
    <3>2. doing.job.asker # epoch => Overtaken(doing.job.kind, doing.job.asker, epoch)
      BY <1>2, <2>2 DEF Job
    <3>3. QED
      BY <3>1, <3>2, <2>2 DEF Numbers, LastIsRight, OnlyOvertakenGoAstray, ShadowIsTheLastCopy,
         Overtaken
  <2>3. QED
    BY <1>1, <2>1, <2>2, Zenon DEF Reply
<1>4. Numbers' /\ Queues' /\ AskersAreKnown'
  BY <1>1, <1>3 DEF Numbers, Queues, queueVars, AskersAreKnown, Newest
<1>5. BacklogIsExpected' /\ ShadowIsRead'
  <2>1. Backlog' = Backlog
    BY <1>1, <1>2 DEF Backlog
  <2>2. QED
    BY <1>1, <2>1 DEF BacklogIsExpected, ShadowIsRead, Idle
<1>6. QED
  BY <1>3, <1>4, <1>5

(* A step that leaves the backlog and the answers alone keeps the rest.    *)
LEMMA QuietIInv ==
  ASSUME IInv, UNCHANGED <<engineVars, queueVars, wired, copies, dispatched>>, Silent,
         BacklogIsExpected', ShadowIsRead', jobs' \in Seq(Job), shadow' \in [Registers -> Nat],
         wired
  PROVE  IInv'
<1>1. Numbers' /\ Queues' /\ AskersAreKnown'
  BY DEF IInv, Numbers, Queues, AskersAreKnown, Newest, engineVars, queueVars
<1>2. LastIsRight'
  BY SilenceIsRight DEF IInv, Silent
<1>3. QED
  BY <1>1, <1>2 DEF IInv

-----------------------------------------------------------------------------
(* Every step keeps the invariant. *)
LEMMA AskIInv == ASSUME IInv, NEW kind \in Kinds, NEW r \in Registers, Ask(kind, r) PROVE IInv'
<1> USE DEF IInv
<1> DEFINE q == [kind |-> kind, register |-> r, asker |-> Running, id |-> open', text |-> copies']
<1>1. Running \in Nat /\ Running = Newest
  BY DEF Ask, Running, Newest, Numbers
<1>2. /\ asked' \in Nat /\ open' \in Nat /\ copies' \in Nat
  BY DEF Ask, Numbers
<1>3. q \in Request /\ q.asker = Newest /\ q.kind = kind
  BY <1>1, <1>2 DEF Request
<1>4. UNCHANGED <<phase, epoch, jobs, wired, doing, shadow, dispatched>> /\ Silent
  BY DEF Ask, workerVars
<1>5. /\ \/ kind \in {"get", "set"} /\ inbox' = Append(inbox, q) /\ redraws' = redraws
         \/ redraws' = Append(redraws, q) /\ inbox' = inbox
      /\ inbox \in Seq(Request) /\ redraws \in Seq(Request) /\ Newest \in Nat
  BY DEF Ask, Queues, Newest, Numbers
<1>6. /\ inbox' \in Seq(Request) /\ redraws' \in Seq(Request)
  <2> HIDE DEF q
  <2>1. Append(inbox, q) \in Seq(Request) /\ Append(redraws, q) \in Seq(Request)
    BY <1>3, <1>5, AppendProperties
  <2>2. QED
    BY <1>5, <2>1, Zenon
<1>7. AskersAreKnown'
  <2> HIDE DEF q
  <2>1. Newest' = Newest
    BY <1>4 DEF Newest
  <2>2. CASE kind \in {"get", "set"} /\ inbox' = Append(inbox, q) /\ redraws' = redraws
    <3>1. \A i \in 1..Len(inbox') : (i \in 1..Len(inbox) /\ inbox'[i] = inbox[i]) \/ inbox'[i] = q
      BY <1>3, <1>5, <2>2
    <3>2. QED
      BY <3>1, <1>3, <1>5, <2>1, <2>2 DEF AskersAreKnown
  <2>3. CASE redraws' = Append(redraws, q) /\ inbox' = inbox
    <3>1. \A i \in 1..Len(redraws') :
            (i \in 1..Len(redraws) /\ redraws'[i] = redraws[i]) \/ redraws'[i] = q
      BY <1>3, <1>5, <2>3
    <3>2. QED
      BY <3>1, <1>3, <2>1, <2>3 DEF AskersAreKnown
  <2>4. QED
    BY <1>5, <2>2, <2>3
<1>8. BacklogIsExpected' /\ ShadowIsRead' /\ LastIsRight'
  BY <1>4, SilenceIsRight DEF BacklogIsExpected, ShadowIsRead, Backlog, InHand, Silent
<1>9. Numbers' /\ Queues'
  BY <1>2, <1>4, <1>6 DEF Numbers, Queues
<1>10. QED
  BY <1>7, <1>8, <1>9

(* A replacement steps the epoch over the engine it stands for; the pump    *)
(* of the one before is gone by then.                                       *)
LEMMA ReplaceIInv ==
  ASSUME IInv, Crash \/ BeginReplace \/ Stop \/ Respawn \/ Rebind PROVE IInv'
<1> USE DEF IInv
<1>1. /\ phase' \in {"up", "dead", "stopping", "down", "spawned"}
      /\ epoch' \in Nat /\ open' \in Nat /\ asked' \in Nat
      /\ inbox' = inbox /\ redraws' \in {redraws, <<>>}
      /\ UNCHANGED <<jobs, wired, doing, shadow, copies, dispatched>> /\ Silent
  BY DEF Crash, BeginReplace, Stop, Respawn, Rebind, Numbers, queueVars, workerVars
<1>2. Queues'
  BY <1>1, EmptySeq DEF Queues
<1>3. \/ Newest' = Newest /\ redraws' = redraws
      \/ Newest' = Newest + 1 /\ redraws' = <<>>
  BY DEF Crash, BeginReplace, LoopRuns, Stop, Respawn, Rebind, Newest, Numbers, queueVars
<1>4. AskersAreKnown'
  <2>1. Newest \in Nat
    BY DEF Newest, Numbers
  <2>0. \A i \in 1..Len(inbox) : inbox[i].asker \in Nat
    <3>1. inbox \in Seq(Request)
      BY DEF Queues
    <3>2. \A i \in 1..Len(inbox) : inbox[i] \in Request
      BY <3>1
    <3>3. QED
      BY <3>2 DEF Request
  <2>2. CASE Newest' = Newest /\ redraws' = redraws
    BY <1>1, <2>2 DEF AskersAreKnown
  <2>3. CASE Newest' = Newest + 1 /\ redraws' = <<>>
    <3>1. \A i \in 1..Len(inbox) : inbox[i].kind \in {"get", "set"} /\ inbox[i].asker <= Newest + 1
      BY <2>0, <2>1 DEF AskersAreKnown
    <3>2. QED
      BY <1>1, <2>3, <3>1 DEF AskersAreKnown
  <2>4. QED
    BY <1>3, <2>2, <2>3
<1>5. LastIsRight'
  BY <1>1, SilenceIsRight DEF Silent
<1>6. QED
  BY <1>1, <1>2, <1>4, <1>5 DEF Numbers, BacklogIsExpected, ShadowIsRead, Backlog, InHand

(* The loop hands over only while the route names the newest engine.       *)
LEMMA DispatchIInv ==
  ASSUME IInv, DispatchRequest \/ DispatchRedraw \/ CopySelection PROVE IInv'
<1> USE DEF IInv
<1>1. Newest = epoch /\ Newest' = Newest /\ epoch \in Nat
  BY DEF DispatchRequest, DispatchRedraw, CopySelection, LoopRuns, Newest, Numbers
<1>2. CASE DispatchRequest
  <2>1. /\ inbox \in Seq(Request) /\ inbox # <<>> /\ inbox' = Tail(inbox) /\ redraws' = redraws
        /\ redraws \in Seq(Request)
    BY <1>2 DEF DispatchRequest, Queues
  <2>2. /\ Head(inbox) = inbox[1] /\ Head(inbox) \in Request /\ 1 \in 1..Len(inbox)
        /\ inbox' \in Seq(Request)
        /\ \A i \in 1..Len(inbox') : i + 1 \in 1..Len(inbox) /\ inbox'[i] = inbox[i + 1]
    BY <2>1, SMTT(30)
  <2>3. /\ Hand(Head(inbox)) /\ copies' \in Nat /\ UNCHANGED <<asked, phase, epoch, wired>>
        /\ UNCHANGED <<workerVars, hostVars>>
    BY <1>2 DEF DispatchRequest, Numbers
  <2>4. Head(inbox).asker # epoch => Overtaken(Head(inbox).kind, Head(inbox).asker, epoch)
    BY <1>1, <2>2 DEF AskersAreKnown, Overtaken, Request
  <2>5. AskersAreKnown'
    BY <1>1, <2>1, <2>2 DEF AskersAreKnown
  <2>6. QED
    BY <2>1, <2>2, <2>3, <2>4, <2>5, HandIInv
<1>3. CASE DispatchRedraw
  <2>1. /\ redraws \in Seq(Request) /\ redraws # <<>> /\ redraws' = Tail(redraws)
        /\ inbox' = inbox /\ inbox \in Seq(Request)
    BY <1>3 DEF DispatchRedraw, Queues
  <2>2. /\ Head(redraws) = redraws[1] /\ Head(redraws) \in Request /\ 1 \in 1..Len(redraws)
        /\ redraws' \in Seq(Request)
        /\ \A i \in 1..Len(redraws') : i + 1 \in 1..Len(redraws) /\ redraws'[i] = redraws[i + 1]
    BY <2>1, SMTT(30)
  <2>3. /\ Hand(Head(redraws)) /\ copies' \in Nat /\ UNCHANGED <<asked, phase, epoch, wired>>
        /\ UNCHANGED <<workerVars, hostVars>>
    BY <1>3 DEF DispatchRedraw, Numbers
  <2>4. Head(redraws).asker = epoch
    BY <1>1, <2>2 DEF AskersAreKnown
  <2>5. AskersAreKnown'
    BY <1>1, <2>1, <2>2 DEF AskersAreKnown
  <2>6. QED
    BY <2>1, <2>2, <2>3, <2>4, <2>5, HandIInv
<1>4. CASE CopySelection
  <2>1. PICK r \in Registers :
          Hand([kind |-> "set", register |-> r, asker |-> epoch, id |-> 0, text |-> copies'])
    BY <1>4 DEF CopySelection
  <2>2. /\ copies' \in Nat /\ UNCHANGED <<asked, phase, epoch, wired>>
        /\ UNCHANGED <<queueVars, workerVars, hostVars>>
    BY <1>4 DEF CopySelection, Numbers
  <2>3. [kind |-> "set", register |-> r, asker |-> epoch, id |-> 0, text |-> copies'] \in Request
    BY <1>1, <2>2 DEF Request, Kinds
  <2>4. inbox' \in Seq(Request) /\ redraws' \in Seq(Request) /\ AskersAreKnown'
    BY <1>1, <2>2 DEF queueVars, Queues, AskersAreKnown
  <2>5. QED
    BY <2>1, <2>2, <2>3, <2>4, HandIInv
<1>5. QED
  BY <1>2, <1>3, <1>4

(* The worker takes a job, and reaches its backend or does not.            *)
LEMMA ReachIInv == ASSUME IInv, TakeJob \/ Connect PROVE IInv'
<1> USE DEF IInv
<1>1. /\ UNCHANGED <<engineVars, queueVars, wired, shadow, copies, dispatched>> /\ Silent
      /\ jobs \in Seq(Job) /\ shadow' \in [Registers -> Nat]
  BY DEF TakeJob, Connect, Queues, Numbers
<1>2. CASE TakeJob
  <2>1. /\ doing = Idle /\ jobs # <<>> /\ jobs' = Tail(jobs) /\ doing'.job = Head(jobs)
        /\ doing'.step \in {"connected", "connecting"}
    BY <1>2 DEF TakeJob
  <2>2. Head(jobs) \in Job /\ jobs' \in Seq(Job) /\ wired /\ InHand'
    BY <1>1, <2>1 DEF Queues, InHand
  <2>3. Backlog' = Backlog
    BY <2>1, <2>2, TakenIsStillOwed
  <2>4. BacklogIsExpected'
    BY <1>1, <2>3 DEF BacklogIsExpected
  <2>5. ShadowIsRead'
    BY <2>1, <2>2 DEF ShadowIsRead
  <2>6. QED
    BY <1>1, <2>2, <2>4, <2>5, QuietIInv
<1>3. CASE Connect
  <2>1. /\ doing.step \in {"starting", "connecting"} /\ jobs' = jobs
        /\ doing.step = "starting" => doing' = Idle
        /\ doing.step = "connecting" => doing'.step \in {"connected", "unreachable"}
                                       /\ doing'.job = doing.job
    BY <1>3 DEF Connect, At
  <2>2. wired /\ (InHand' <=> InHand)
    BY <2>1 DEF Queues, InHand, Idle
  <2>3. Backlog' = Backlog
    BY <2>1, <2>2 DEF Backlog, InHand
  <2>4. BacklogIsExpected'
    BY <1>1, <2>3 DEF BacklogIsExpected
  <2>5. ShadowIsRead'
    BY <2>1, <2>2 DEF ShadowIsRead, InHand, Idle
  <2>6. QED
    BY <1>1, <2>1, <2>2, <2>4, <2>5, QuietIInv
<1>4. QED
  BY <1>2, <1>3

(* A copy is stored, or the read of a paste begins.                        *)
LEMMA CarryOutIInv == ASSUME IInv, StoreUnreached \/ SetText \/ StartRead PROVE IInv'
<1> USE DEF IInv
<1>1. /\ UNCHANGED <<engineVars, queueVars, jobs, wired, copies, dispatched>> /\ Silent
      /\ InHand /\ jobs \in Seq(Job)
  BY DEF StoreUnreached, SetText, Store, StartRead, InHand, Queues
<1>2. \/ /\ doing.job.kind \in {"set", "store"}
         /\ shadow' = [shadow EXCEPT ![doing.job.register] = doing.job.text]
         /\ doing' = Done(Empty, "done")
      \/ /\ doing.job.kind \notin {"set", "store"}
         /\ shadow' = shadow
         /\ doing' \in {At("reading"), Done(shadow[doing.job.register], "shadow")}
  BY DEF StoreUnreached, SetText, Store, StartRead
<1>3. /\ doing'.step \in {"reading", "answer"} /\ doing'.job = doing.job /\ ~InHand'
  BY <1>2 DEF At, Done, InHand
<1>4. /\ BacklogIsExpected' /\ doing.job \in Job /\ shadow' \in [Registers -> Nat]
      /\ wired /\ shadow[doing.job.register] = doing.job.expect
  BY <1>1, <1>2, <1>3, DoneIInv
<1>5. ShadowIsRead'
  BY <1>2, <1>3, <1>4 DEF ShadowIsRead, At, Done
<1>6. QED
  BY <1>1, <1>4, <1>5, QuietIInv

LEMMA NextIInv == ASSUME IInv, [Next]_vars PROVE IInv'
<1>1. ASSUME ReadReturns \/ ReadOverruns PROVE IInv'
  <2> USE DEF IInv
  <2>1. /\ doing.step = "reading" /\ doing'.step = "answer" /\ doing'.job = doing.job
        /\ doing'.source = "shadow" => doing'.text = shadow[doing.job.register]
    BY <1>1 DEF ReadReturns, ReadOverruns, Done
  <2>2. UNCHANGED <<engineVars, queueVars, jobs, wired, shadow, copies, dispatched>> /\ Silent
    BY <1>1 DEF ReadReturns, ReadOverruns
  <2>3. ~InHand /\ ~InHand' /\ wired /\ jobs' \in Seq(Job) /\ shadow' \in [Registers -> Nat]
    BY <2>1, <2>2 DEF InHand, Queues, Idle, Numbers
  <2>4. BacklogIsExpected'
    BY <2>2, <2>3 DEF BacklogIsExpected, Backlog
  <2>5. ShadowIsRead'
    BY <2>1, <2>2 DEF ShadowIsRead
  <2>6. QED
    BY <2>2, <2>3, <2>4, <2>5, QuietIInv
<1>2. ASSUME OrphanEnds \/ HostChanges \/ UNCHANGED vars PROVE IInv'
  <2>1. /\ UNCHANGED <<engineVars, queueVars, jobs, wired, doing, shadow, copies, dispatched>>
        /\ last' \in {last, None}
    BY <1>2 DEF OrphanEnds, HostChanges, Silent, vars, workerVars, hostVars
  <2>2. Numbers' /\ Queues' /\ AskersAreKnown' /\ BacklogIsExpected' /\ ShadowIsRead'
    BY <2>1 DEF IInv, Numbers, Queues, AskersAreKnown, Newest, BacklogIsExpected, Backlog, InHand,
       ShadowIsRead, engineVars, queueVars
  <2>3. QED
    BY <2>1, <2>2, SilenceIsRight DEF IInv
<1>3. QED
  BY <1>1, <1>2, AskIInv, ReplaceIInv, DispatchIInv, ReachIInv, CarryOutIInv, AnswerIInv
     DEF Next, Nvim, Loop, Worker, Host, Kinds

LEMMA Invariance == Spec => []IInv
BY InitIInv, NextIInv, PTL DEF Spec

(* An answer goes to the engine that asked, for any number of engines and  *)
(* requests, unless it answers a get or a set that the loop's channel still *)
(* held when its engine was replaced (ReplyRoute::reply, replace_engine).   *)
THEOREM OnlyOvertakenAnswersGoAstray == Spec => []OnlyOvertakenGoAstray
<1>1. IInv => OnlyOvertakenGoAstray
  BY DEF IInv, LastIsRight
<1>2. QED
  BY <1>1, Invariance, PTL

(* Whenever the system clipboard does not answer, a paste gives the last    *)
(* copy queued before it (clipboard.rs, run and read_text), for any         *)
(* registers and any backlog, through any number of restarts.               *)
THEOREM TheShadowIsTheLastCopy == Spec => []ShadowIsTheLastCopy
<1>1. IInv => ShadowIsTheLastCopy
  BY DEF IInv, LastIsRight
<1>2. QED
  BY <1>1, Invariance, PTL
=============================================================================
