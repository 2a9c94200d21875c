----------------------------- MODULE CoreProofs -----------------------------
(***************************************************************************)
(* Proofs about the two folds of view-core: the agent sessions (Agent),    *)
(* for any number of sessions, of commands and of permissions, whatever    *)
(* the user and the agents do; and the holds of submitted lines (Hold),    *)
(* for any number of inputs, of prompts, of clearings and of engines, and  *)
(* any size of the list of lines kept unreported.                          *)
(***************************************************************************)
EXTENDS Agent, Hold, FiniteSetTheorems, TLAPS

-----------------------------------------------------------------------------
(* The agent sessions.                                                     *)


Stages == {"none", "resolving", "watching", "launching", "publishing", "failed", "failing", "done"}

(* A session's record, of which the proofs need these fields.              *)
Fields == {"task", "dropped", "child", "alive", "crashed", "watched"}
HasFields(d) == Fields \subseteq DOMAIN d

Typed ==
  /\ up \in BOOLEAN /\ spawn \in [Sessions -> Stages]
  /\ watch \in [handle : Nat, generation : Nat, stopped : BOOLEAN]
  /\ watch.generation <= MaxSessions /\ watch.handle \in {0, watch.generation}
  /\ DOMAIN sess = Sessions /\ \A s \in Sessions : HasFields(sess[s])
  /\ slot.kind \in {"idle", "spawning", "ready"}
  /\ slot.kind = "ready" => slot.session \in Sessions

(* What an attempt has not launched yet has no child and nobody watching.  *)
Fresh(d) == d.task = "none" /\ d.child = "none" /\ ~d.dropped /\ ~d.alive /\ ~d.crashed
Unlaunched ==
  \A s \in Sessions :
    /\ spawn[s] \in {"none", "resolving", "watching", "launching"} => Fresh(sess[s])
    /\ spawn[s] \in {"none", "resolving", "watching"} => ~sess[s].watched
    /\ spawn[s] \in {"failed", "failing"} => sess[s].task = "none"
    /\ spawn[s] = "publishing" => sess[s].task # "none"
    /\ s > watch.generation => spawn[s] = "none"

(* A session is dropped, and its child is out of the slot, only after it   *)
(* was launched and signalled.                                             *)
Signalled(d) ==
  /\ d.dropped \/ d.child \in {"taken", "collected"} => ~d.alive
  /\ d.task = "none" => Fresh(d)
  /\ d.task # "none" => d.child \in {"slot", "taken", "collected"}
  /\ d.task \in {"reaping", "reporting", "over"} => ~d.alive
AllSignalled == \A s \in Sessions : Signalled(sess[s])

(* While the loop runs there is one attempt at a time, the newest, and the *)
(* session in the slot is the newest.                                      *)
Attempting(g) == spawn[g] \in {"resolving", "watching", "launching", "publishing", "failed"}
OneAttempt ==
  /\ slot.kind = "ready" => spawn[slot.session] = "done" /\ sess[slot.session].task # "none"
  /\ up => /\ \A g \in Sessions : Attempting(g) => g = watch.generation /\ slot.kind = "spawning"
           /\ slot.kind = "ready" => slot.session = watch.generation

(* The newest attempt keeps the watch it took until its session reports.   *)
Watching(s) == sess[s].watched /\ ~sess[s].crashed
WatchIsKept ==
  \A s \in Sessions :
    /\ sess[s].crashed => watch.handle # s
    /\ Watching(s) /\ s = watch.generation
         /\ (spawn[s] \in {"launching", "publishing"} \/ sess[s].task # "none") => watch.handle = s

IInv == Typed /\ Unlaunched /\ AllSignalled /\ OneAttempt /\ WatchIsKept

-----------------------------------------------------------------------------
(* What a task's handlers leave alone: the process, and who has let go of  *)
(* it.                                                                     *)
SameProcess(new, d) ==
  /\ HasFields(new)
  /\ new.dropped = d.dropped /\ new.child = d.child /\ new.alive = d.alive
  /\ new.watched = d.watched
SameTask(new, d) == SameProcess(new, d) /\ new.task = d.task /\ new.crashed = d.crashed

LEMMA WriteKeeps == ASSUME NEW d, HasFields(d), NEW what, NEW n
                    PROVE  SameTask(Write(d, what, n), d)
BY DEF Write, SameTask, SameProcess, HasFields, Fields

LEMMA CommandKeeps == ASSUME NEW d, HasFields(d), NEW c PROVE SameTask(Command(d, c), d)
<1> DEFINE settled == [d EXCEPT !.permissions = {}]
           replied == [d EXCEPT !.permissions = @ \ {c.id}]
           kept == [d EXCEPT !.deferred = Append(@, c)]
<1>1. SameTask(settled, d) /\ SameTask(replied, d) /\ SameTask(kept, d) /\ SameTask(d, d)
  BY DEF SameTask, SameProcess, HasFields, Fields
<1>2. HasFields(settled) /\ HasFields(replied)
  BY <1>1 DEF SameTask, SameProcess
<1>3. /\ SameTask(Write(d, {"prompt"}, c.n), d)
      /\ SameTask(Write(settled, {}, c.n), settled)
      /\ SameTask(Write(replied, {}, c.n), replied)
  BY <1>2, WriteKeeps
<1>4. Command(d, c) \in {kept, Write(d, {"prompt"}, c.n), Write(settled, {}, c.n),
                         Write(replied, {}, c.n), d}
  BY DEF Command
<1>5. QED
  BY <1>1, <1>3, <1>4 DEF SameTask, SameProcess

LEMMA OpenedKeeps == ASSUME NEW d, HasFields(d) PROVE SameTask(Opened(d), d)
BY DEF Opened, SameTask, SameProcess, HasFields, Fields

-----------------------------------------------------------------------------
LEMMA InitIInv == Init => IInv
BY BoundsAreNat DEF Init, IInv, Typed, Unlaunched, AllSignalled, OneAttempt, WatchIsKept, Sessions,
   Stages, Unborn, Idle, HasFields, Fields, Fresh, Signalled, Attempting, Watching

(* A stop is taken by the session that has the watch, and by no other.     *)
LEMMA StopWatchStops ==
  ASSUME Typed, NEW s \in Sessions
  PROVE  /\ StopWatch(s) \in [handle : Nat, generation : Nat, stopped : BOOLEAN]
         /\ StopWatch(s).generation = watch.generation
         /\ StopWatch(s).handle = IF s = watch.generation THEN 0 ELSE watch.handle
BY DEF StopWatch, Typed

(* A step of a launched session's task or agent, after which the session   *)
(* may have reported a crash and stopped its watch.                        *)
LEMMA SessionStep ==
  ASSUME IInv, NEW s \in Sessions, NEW new, sess' = [sess EXCEPT ![s] = new],
         HasFields(new), Signalled(new), new.watched = sess[s].watched,
         sess[s].task # "none", new.task # "none",
         \/ new.crashed = sess[s].crashed /\ watch' = watch
         \/ new.crashed /\ watch' = StopWatch(s),
         UNCHANGED <<up, slot, spawn>>
  PROVE  IInv'
<1> USE DEF IInv
<1>1. /\ DOMAIN sess' = Sessions /\ sess'[s] = new
      /\ \A t \in Sessions : t # s => sess'[t] = sess[t]
  BY DEF Typed
<1>2. /\ watch' \in [handle : Nat, generation : Nat, stopped : BOOLEAN]
      /\ watch'.generation = watch.generation
      /\ watch'.handle \in {0, watch.generation}
      /\ watch'.handle = watch.handle \/ (s = watch.generation /\ watch'.handle = 0)
  <2>1. CASE watch' = watch
    BY <2>1 DEF Typed
  <2>2. CASE watch' = StopWatch(s)
    BY <2>2, StopWatchStops DEF Typed
  <2>3. QED
    BY <2>1, <2>2
<1>3. new.crashed => watch'.handle # s
  <2>1. CASE new.crashed = sess[s].crashed /\ watch' = watch
    BY <2>1 DEF WatchIsKept
  <2>2. CASE watch' = StopWatch(s)
    BY <2>2, StopWatchStops, BoundsAreNat DEF Typed, Sessions
  <2>3. QED
    BY <2>1, <2>2
<1>4. Typed'
  BY <1>1, <1>2 DEF Typed
<1>5. spawn[s] \notin {"none", "resolving", "watching", "launching", "failed", "failing"}
  BY DEF Unlaunched, Fresh
<1>6. Unlaunched'
  BY <1>1, <1>2, <1>5 DEF Unlaunched
<1>7. AllSignalled'
  BY <1>1 DEF AllSignalled
<1>8. OneAttempt'
  BY <1>1, <1>2 DEF OneAttempt, Attempting
<1>9. WatchIsKept'
  <2> SUFFICES ASSUME NEW t \in Sessions
               PROVE  /\ sess'[t].crashed => watch'.handle # t
                      /\ Watching(t)' /\ t = watch'.generation
                           /\ (spawn'[t] \in {"launching", "publishing"} \/ sess'[t].task # "none")
                         => watch'.handle = t
    BY DEF WatchIsKept
  <2>1. CASE t = s
    BY <2>1, <1>1, <1>2, <1>3 DEF WatchIsKept, Watching, StopWatch, Typed
  <2>2. CASE t # s
    BY <2>2, <1>1, <1>2 DEF WatchIsKept, Watching, StopWatch, Typed, Sessions
  <2>3. QED
    BY <2>1, <2>2
<1>10. QED
  BY <1>4, <1>6, <1>7, <1>8, <1>9

(* The same where the session neither reports nor changes its task.        *)
LEMMA QuietStep ==
  ASSUME IInv, NEW s \in Sessions, NEW new, sess' = [sess EXCEPT ![s] = new],
         SameTask(new, sess[s]), sess[s].task # "none", UNCHANGED <<up, slot, spawn, watch>>
  PROVE  IInv'
<1>1. Signalled(sess[s])
  BY DEF IInv, AllSignalled
<1>2. Signalled(new) /\ HasFields(new) /\ new.watched = sess[s].watched
      /\ new.task # "none" /\ new.crashed = sess[s].crashed
  BY <1>1 DEF SameTask, SameProcess, Signalled, Fresh
<1>3. QED
  BY <1>2, SessionStep

-----------------------------------------------------------------------------
(* The session's task and its agent's process.                             *)
LEMMA OnCommandIInv == ASSUME IInv, NEW s \in Sessions, OnCommand(s) PROVE IInv'
<1> DEFINE d == [sess[s] EXCEPT !.commands = Tail(@)]
<1>1. HasFields(sess[s])
  BY DEF IInv, Typed
<1>2. SameTask(d, sess[s]) /\ HasFields(d)
  BY <1>1 DEF SameTask, SameProcess, HasFields, Fields
<1>3. /\ sess' = [sess EXCEPT ![s] = Command(d, Head(sess[s].commands))]
      /\ sess[s].task # "none" /\ UNCHANGED <<up, slot, spawn, watch>>
  BY DEF OnCommand, panelVars
<1> HIDE DEF d
<1>4. SameTask(Command(d, Head(sess[s].commands)), sess[s])
  BY <1>2, CommandKeeps DEF SameTask, SameProcess
<1>5. QED
  BY <1>3, <1>4, QuietStep

LEMMA OnFrameIInv == ASSUME IInv, NEW s \in Sessions, OnFrame(s) PROVE IInv'
<1> DEFINE d == [sess[s] EXCEPT !.frames = Tail(@)]
           Becomes(new) == sess' = [sess EXCEPT ![s] = new] /\ watch' = watch
<1>1. HasFields(sess[s]) /\ Signalled(sess[s])
  BY DEF IInv, Typed, AllSignalled
<1>2. SameTask(d, sess[s]) /\ HasFields(d)
  BY <1>1 DEF SameTask, SameProcess, HasFields, Fields
<1>3. sess[s].task = "driving" /\ UNCHANGED <<up, slot, spawn>>
  BY DEF OnFrame, panelVars
<1>4. \/ Becomes(End(d))
      \/ Becomes(Write(d, {"session/new"}, 0))
      \/ Becomes(Opened(d))
      \/ Becomes(Write([d EXCEPT !.authed = TRUE], {"authenticate"}, 0))
      \/ sess' = [sess EXCEPT ![s] = [d EXCEPT !.crashed = TRUE]] /\ watch' = StopWatch(s)
      \/ Becomes([d EXCEPT !.permissions = {}])
      \/ Becomes([d EXCEPT !.asked = @ + 1, !.permissions = @ \cup {d.asked + 1}])
  BY DEF OnFrame, Emit
<1> HIDE DEF d
<1>5. ASSUME NEW new, SameTask(new, d), Becomes(new) PROVE IInv'
  BY <1>2, <1>3, <1>5, QuietStep DEF SameTask, SameProcess
<1>6. CASE Becomes(End(d))
  <2>1. /\ HasFields(End(d)) /\ Signalled(End(d)) /\ End(d).watched = sess[s].watched
        /\ End(d).task # "none" /\ End(d).crashed = sess[s].crashed
    BY <1>1, <1>2, <1>3 DEF End, SameTask, SameProcess, HasFields, Fields, Signalled
  <2>2. QED
    BY <2>1, <1>3, <1>6, SessionStep
<1>7. CASE sess' = [sess EXCEPT ![s] = [d EXCEPT !.crashed = TRUE]] /\ watch' = StopWatch(s)
  <2> DEFINE new == [d EXCEPT !.crashed = TRUE]
  <2>1. /\ HasFields(new) /\ Signalled(new) /\ new.watched = sess[s].watched
        /\ new.task # "none" /\ new.crashed
    BY <1>1, <1>2, <1>3 DEF SameTask, SameProcess, HasFields, Fields, Signalled
  <2> HIDE DEF new
  <2>2. sess' = [sess EXCEPT ![s] = new] /\ watch' = StopWatch(s)
    BY <1>7 DEF new
  <2>3. QED
    BY <2>1, <2>2, <1>3, SessionStep
<1>8. /\ SameTask(Write(d, {"session/new"}, 0), d)
      /\ SameTask(Opened(d), d)
  BY <1>2, WriteKeeps, OpenedKeeps
<1>9. SameTask(Write([d EXCEPT !.authed = TRUE], {"authenticate"}, 0), d)
  <2>1. SameTask([d EXCEPT !.authed = TRUE], d) /\ HasFields([d EXCEPT !.authed = TRUE])
    BY <1>2 DEF SameTask, SameProcess, HasFields, Fields
  <2>2. SameTask(Write([d EXCEPT !.authed = TRUE], {"authenticate"}, 0), [d EXCEPT !.authed = TRUE])
    BY <2>1, WriteKeeps
  <2>3. QED
    BY <2>1, <2>2 DEF SameTask, SameProcess
<1>10. /\ SameTask([d EXCEPT !.permissions = {}], d)
       /\ SameTask([d EXCEPT !.asked = @ + 1, !.permissions = @ \cup {d.asked + 1}], d)
  BY <1>2 DEF SameTask, SameProcess, HasFields, Fields
<1>11. QED
  BY <1>4, <1>5, <1>6, <1>7, <1>8, <1>9, <1>10

(* The end of a task: the child is signalled where it is taken.            *)
LEMMA TeardownIInv ==
  ASSUME IInv, NEW s \in Sessions, TakeChild(s) \/ Reap(s) \/ Report(s) \/ Abandon(s)
  PROVE  IInv'
<1>1. HasFields(sess[s]) /\ Signalled(sess[s]) /\ DOMAIN sess = Sessions
  BY DEF IInv, Typed, AllSignalled
<1>2. sess[s].task # "none" /\ UNCHANGED <<up, slot, spawn>>
  BY DEF TakeChild, Reap, Report, Abandon, panelVars
<1>3. \E new : /\ sess' = [sess EXCEPT ![s] = new]
               /\ HasFields(new) /\ Signalled(new) /\ new.watched = sess[s].watched
               /\ new.task # "none"
               /\ \/ new.crashed = sess[s].crashed /\ watch' = watch
                  \/ new.crashed /\ watch' = StopWatch(s)
  <2>1. CASE TakeChild(s)
    <3> DEFINE new == IF sess[s].child = "slot"
                      THEN [Kill(sess[s]) EXCEPT !.child = "taken", !.task = "reaping"]
                      ELSE [sess[s] EXCEPT !.task = "reporting"]
    <3>1. sess' = [sess EXCEPT ![s] = new] /\ watch' = watch
      BY <2>1, <1>1 DEF TakeChild
    <3>2. /\ HasFields(new) /\ Signalled(new) /\ new.watched = sess[s].watched
          /\ new.task # "none" /\ new.crashed = sess[s].crashed
      BY <1>1, <1>2 DEF HasFields, Fields, Signalled, Kill
    <3>3. QED
      BY <3>1, <3>2
  <2>2. CASE Reap(s)
    <3> DEFINE new == [sess[s] EXCEPT !.child = "collected", !.task = "reporting"]
    <3>1. sess' = [sess EXCEPT ![s] = new] /\ watch' = watch
      BY <2>2, <1>1 DEF Reap
    <3>2. /\ HasFields(new) /\ new.watched = sess[s].watched
          /\ new.task # "none" /\ new.crashed = sess[s].crashed
      BY <1>1, <1>2 DEF HasFields, Fields
    <3>3. Signalled(new)
      BY <1>1, <1>2, <2>2 DEF HasFields, Fields, Signalled, Reap, IInv
    <3>4. QED
      BY <3>1, <3>2, <3>3
  <2>3. CASE Report(s)
    <3> DEFINE new == [sess[s] EXCEPT !.task = "over", !.crashed = TRUE]
    <3>1. sess' = [sess EXCEPT ![s] = new] /\ watch' = StopWatch(s)
      BY <2>3, <1>1 DEF Report, Emit
    <3>2. ~sess[s].alive
      BY <1>1, <2>3 DEF Report, Signalled
    <3>3. /\ HasFields(new) /\ Signalled(new) /\ new.watched = sess[s].watched
          /\ new.task # "none" /\ new.crashed
      BY <1>1, <1>2, <3>2 DEF HasFields, Fields, Signalled
    <3>4. QED
      BY <3>1, <3>3
  <2>4. CASE Abandon(s)
    <3> DEFINE d == End(sess[s])
               child == IF d.child = "taken" THEN "collected" ELSE d.child
               new == [d EXCEPT !.task = "over", !.child = child]
    <3>1. sess' = [sess EXCEPT ![s] = new] /\ watch' = watch
      BY <2>4, <1>1, Zenon DEF Abandon
    <3>2. ~sess[s].alive
      BY <1>1, <2>4 DEF Abandon, Signalled
    <3>3. /\ HasFields(new) /\ Signalled(new) /\ new.watched = sess[s].watched
          /\ new.task # "none" /\ new.crashed = sess[s].crashed
      BY <1>1, <1>2, <3>2 DEF HasFields, Fields, Signalled, End
    <3>4. QED
      BY <3>1, <3>3
  <2>5. QED
    BY <2>1, <2>2, <2>3, <2>4
<1>4. QED
  BY <1>2, <1>3, SessionStep

LEMMA ProcessIInv == ASSUME IInv, NEW s \in Sessions, Process(s) PROVE IInv'
<1>1. HasFields(sess[s]) /\ Signalled(sess[s]) /\ DOMAIN sess = Sessions
  BY DEF IInv, Typed, AllSignalled
<1>2. sess[s].alive /\ UNCHANGED <<up, slot, spawn, watch>>
  BY DEF Process, AgentReplies, AgentAsks, AgentDies, AgentStopsReading, panelVars
<1>3. sess[s].task # "none"
  BY <1>1, <1>2 DEF Signalled, Fresh
<1>4. ASSUME NEW d, NEW f, HasFields(d) PROVE SameTask(Say(d, f), d)
  BY <1>4 DEF Say, SameTask, SameProcess, HasFields, Fields
<1>5. CASE AgentReplies(s)
  <2>1. PICK request, reply :
          sess' = [sess EXCEPT ![s] = Say([sess[s] EXCEPT !.owed = @ \ {request}], reply)]
    BY <1>5, <1>1, Zenon DEF AgentReplies
  <2>2. SameTask([sess[s] EXCEPT !.owed = @ \ {request}], sess[s])
    BY <1>1 DEF SameTask, SameProcess, HasFields, Fields
  <2>3. SameTask(Say([sess[s] EXCEPT !.owed = @ \ {request}], reply), sess[s])
    BY <2>2, <1>4, ZenonT(60) DEF SameTask, SameProcess
  <2>4. QED
    BY <2>1, <2>3, <1>2, <1>3, QuietStep
<1>6. CASE AgentAsks(s)
  <2>1. sess' = [sess EXCEPT ![s] = Say(sess[s], "permission")]
    BY <1>6, <1>1 DEF AgentAsks
  <2>2. QED
    BY <2>1, <1>1, <1>2, <1>3, <1>4, QuietStep
<1>7. CASE AgentDies(s)
  <2> DEFINE new == Say(Kill(sess[s]), "end")
  <2>1. sess' = [sess EXCEPT ![s] = new]
    BY <1>7, <1>1 DEF AgentDies
  <2>2. /\ HasFields(new) /\ Signalled(new) /\ new.watched = sess[s].watched
        /\ new.task # "none" /\ new.crashed = sess[s].crashed
    BY <1>1, <1>3 DEF Say, Kill, HasFields, Fields, Signalled
  <2>3. QED
    BY <2>1, <2>2, <1>2, <1>3, SessionStep
<1>8. CASE AgentStopsReading(s)
  <2>1. sess' = [sess EXCEPT ![s] = [sess[s] EXCEPT !.stdin = FALSE]]
    BY <1>8, <1>1 DEF AgentStopsReading
  <2>2. SameTask([sess[s] EXCEPT !.stdin = FALSE], sess[s])
    BY <1>1 DEF SameTask, SameProcess, HasFields, Fields
  <2>3. QED
    BY <2>1, <2>2, <1>2, <1>3, QuietStep
<1>9. QED
  BY <1>5, <1>6, <1>7, <1>8 DEF Process

-----------------------------------------------------------------------------
(* The panel and the attempts' threads.                                    *)
LEMMA PanelIInv ==
  ASSUME IInv, Keys \/ Fold \/ UNCHANGED vars
  PROVE  IInv'
<1>1. UNCHANGED <<up, slot, watch, spawn, sess>>
  BY DEF Keys, Submit, CancelTurn, AnswerQuestion, Fold, vars, panelVars
<1>2. QED
  BY <1>1 DEF IInv, Typed, Unlaunched, AllSignalled, OneAttempt, WatchIsKept, Attempting, Watching

LEMMA ResolveIInv == ASSUME IInv, NEW g \in Sessions, Resolve(g) PROVE IInv'
<1> USE DEF IInv
<1>1. /\ spawn[g] = "resolving" /\ UNCHANGED <<up, slot, watch, sess>>
      /\ \E stage \in {"watching", "failed"} : spawn' = [spawn EXCEPT ![g] = stage]
  BY DEF Resolve, Advance, panelVars
<1>2. Typed' /\ AllSignalled'
  BY <1>1 DEF Typed, Stages, AllSignalled
<1>3. Unlaunched'
  BY <1>1 DEF Typed, Unlaunched, Fresh
<1>4. OneAttempt' /\ WatchIsKept'
  BY <1>1 DEF Typed, OneAttempt, WatchIsKept, Attempting, Watching
<1>5. QED
  BY <1>2, <1>3, <1>4

LEMMA StartWatchIInv == ASSUME IInv, NEW g \in Sessions, StartWatch(g) PROVE IInv'
<1> USE DEF IInv
<1> DEFINE d == [sess[g] EXCEPT !.watched = TRUE]
<1>1. /\ spawn[g] = "watching" /\ spawn' = [spawn EXCEPT ![g] = "launching"]
      /\ UNCHANGED <<up, slot>>
  BY DEF StartWatch, Advance, panelVars
<1>2. Fresh(sess[g]) /\ ~sess[g].watched
  BY <1>1 DEF Unlaunched
<1>3. \/ UNCHANGED <<watch, sess>>
      \/ /\ watch.generation = g /\ watch' = [watch EXCEPT !.handle = g]
         /\ sess' = [sess EXCEPT ![g] = d]
  BY DEF StartWatch
<1>4. /\ HasFields(d) /\ Fresh(d) /\ d.watched
  BY <1>2 DEF Typed, HasFields, Fields, Fresh
<1> HIDE DEF d
<1>5. CASE UNCHANGED <<watch, sess>>
  <2>1. Typed' /\ AllSignalled'
    BY <1>1, <1>5 DEF Typed, Stages, AllSignalled
  <2>2. Unlaunched'
    BY <1>1, <1>5 DEF Typed, Unlaunched, Fresh
  <2>3. OneAttempt' /\ WatchIsKept'
    BY <1>1, <1>2, <1>5 DEF Typed, OneAttempt, WatchIsKept, Attempting, Watching
  <2>4. QED
    BY <2>1, <2>2, <2>3
<1>6. CASE /\ watch.generation = g /\ watch' = [watch EXCEPT !.handle = g]
           /\ sess' = [sess EXCEPT ![g] = d]
  <2>1. /\ DOMAIN sess' = Sessions /\ sess'[g] = d
        /\ \A t \in Sessions : t # g => sess'[t] = sess[t]
        /\ watch'.handle = g /\ watch'.generation = g
        /\ watch' \in [handle : Nat, generation : Nat, stopped : BOOLEAN]
    BY <1>6 DEF Typed, Sessions
  <2>2. Typed'
    BY <1>1, <1>4, <1>6, <2>1 DEF Typed, Stages
  <2>3. Unlaunched'
    BY <1>1, <1>4, <1>6, <2>1 DEF Typed, Unlaunched
  <2>4. AllSignalled'
    BY <1>4, <2>1 DEF AllSignalled, Signalled, Fresh
  <2>5. OneAttempt'
    BY <1>1, <1>6, <2>1 DEF Typed, OneAttempt, Attempting
  <2>6. WatchIsKept'
    <3> SUFFICES ASSUME NEW t \in Sessions
                 PROVE  /\ sess'[t].crashed => watch'.handle # t
                        /\ t = watch'.generation => watch'.handle = t
      BY DEF WatchIsKept
    <3>1. CASE t = g
      BY <3>1, <1>4, <2>1 DEF Fresh
    <3>2. CASE t # g
      BY <3>2, <2>1
    <3>3. QED
      BY <3>1, <3>2
  <2>7. QED
    BY <2>2, <2>3, <2>4, <2>5, <2>6
<1>7. QED
  BY <1>3, <1>5, <1>6

LEMMA LaunchIInv == ASSUME IInv, NEW g \in Sessions, Launch(g) PROVE IInv'
<1> USE DEF IInv
<1> DEFINE d == [sess[g] EXCEPT !.task = "driving", !.child = "slot",
                                !.alive = TRUE, !.owed = {"initialize"}]
<1>1. /\ spawn[g] = "launching" /\ UNCHANGED <<up, slot, watch>>
  BY DEF Launch, panelVars
<1>2. Fresh(sess[g])
  BY <1>1 DEF Unlaunched
<1>3. \/ spawn' = [spawn EXCEPT ![g] = "failed"] /\ sess' = sess
      \/ /\ spawn' = [spawn EXCEPT ![g] = "publishing"]
         /\ sess' = [sess EXCEPT ![g] = d]
  BY DEF Launch, Advance
<1>4. /\ HasFields(d) /\ Signalled(d) /\ d.task = "driving" /\ ~d.crashed
      /\ d.watched = sess[g].watched
  BY <1>2 DEF Typed, HasFields, Fields, Fresh, Signalled
<1> HIDE DEF d
<1>5. CASE spawn' = [spawn EXCEPT ![g] = "failed"] /\ sess' = sess
  <2>1. Typed' /\ AllSignalled'
    BY <1>1, <1>5 DEF Typed, Stages, AllSignalled
  <2>2. Unlaunched'
    BY <1>1, <1>2, <1>5 DEF Typed, Unlaunched, Fresh
  <2>3. OneAttempt' /\ WatchIsKept'
    BY <1>1, <1>5 DEF Typed, OneAttempt, WatchIsKept, Attempting, Watching
  <2>4. QED
    BY <2>1, <2>2, <2>3
<1>6. CASE spawn' = [spawn EXCEPT ![g] = "publishing"] /\ sess' = [sess EXCEPT ![g] = d]
  <2>1. /\ DOMAIN sess' = Sessions /\ sess'[g] = d /\ spawn'[g] = "publishing"
        /\ \A t \in Sessions : t # g => sess'[t] = sess[t] /\ spawn'[t] = spawn[t]
    BY <1>6 DEF Typed
  <2>2. Typed'
    BY <1>1, <1>4, <1>6, <2>1 DEF Typed, Stages
  <2>3. Unlaunched'
    BY <1>1, <1>4, <2>1 DEF Unlaunched
  <2>4. AllSignalled'
    BY <1>4, <2>1 DEF AllSignalled
  <2>5. OneAttempt'
    <3>1. slot.kind = "ready" => slot.session # g /\ slot.session \in Sessions
      BY <1>1 DEF Typed, OneAttempt
    <3>2. \A t \in Sessions : Attempting(t)' => Attempting(t)
      BY <1>1, <2>1 DEF Attempting
    <3>3. QED
      BY <1>1, <2>1, <3>1, <3>2 DEF OneAttempt
  <2>6. WatchIsKept'
    BY <1>1, <1>2, <1>4, <2>1 DEF WatchIsKept, Watching, Fresh
  <2>7. QED
    BY <2>2, <2>3, <2>4, <2>5, <2>6
<1>7. QED
  BY <1>3, <1>5, <1>6

(* A handle dropped signals what it finds in the slot.                     *)
LEMMA DropSignals ==
  ASSUME NEW d, HasFields(d), Signalled(d), d.task # "none"
  PROVE  /\ HasFields(Drop(d)) /\ Signalled(Drop(d)) /\ Drop(d).task = d.task
         /\ Drop(d).watched = d.watched /\ Drop(d).crashed = d.crashed
BY DEF Drop, Kill, HasFields, Fields, Signalled

LEMMA SendKeeps == ASSUME NEW d, HasFields(d), NEW cs PROVE SameTask(Send(d, cs), d)
BY DEF Send, SameTask, SameProcess, HasFields, Fields

LEMMA PublishIInv == ASSUME IInv, NEW g \in Sessions, Publish(g) PROVE IInv'
<1> USE DEF IInv
<1>1. /\ spawn[g] = "publishing" /\ spawn' = [spawn EXCEPT ![g] = "done"]
      /\ UNCHANGED <<up, watch>> /\ slot' = Ready(g)
  BY DEF Publish, Advance, panelVars
<1>2. sess[g].task # "none" /\ (slot.kind = "ready" => slot.session # g)
  BY <1>1 DEF Unlaunched, OneAttempt
<1>3. /\ DOMAIN sess' = Sessions
      /\ \A t \in Sessions :
           /\ HasFields(sess'[t]) /\ Signalled(sess'[t]) /\ sess'[t].task = sess[t].task
           /\ sess'[t].watched = sess[t].watched /\ sess'[t].crashed = sess[t].crashed
           /\ t = g \/ sess'[t] = sess[t] \/ (slot.kind = "ready" /\ t = slot.session)
  <2>1. \A t \in Sessions : HasFields(sess[t]) /\ Signalled(sess[t])
    BY DEF Typed, AllSignalled
  <2>2. CASE slot.kind = "idle"
    BY <2>1, <2>2 DEF Publish, Typed
  <2>3. CASE slot.kind = "spawning"
    <3> DEFINE new == Send(sess[g], slot.buffer)
    <3>1. sess' = [sess EXCEPT ![g] = new]
      BY <2>3 DEF Publish
    <3>2. SameTask(new, sess[g])
      BY <2>1, SendKeeps
    <3> HIDE DEF new
    <3>3. Signalled(new) /\ HasFields(new)
      BY <2>1, <3>2 DEF SameTask, SameProcess, Signalled, Fresh
    <3>4. QED
      BY <2>1, <3>1, <3>2, <3>3 DEF Typed, SameTask, SameProcess
  <2>4. CASE slot.kind = "ready"
    <3> DEFINE old == slot.session
               new == Drop(sess[old])
    <3>1. sess' = [sess EXCEPT ![old] = new] /\ old \in Sessions /\ sess[old].task # "none"
      BY <2>4 DEF Publish, Typed, OneAttempt
    <3>2. /\ HasFields(new) /\ Signalled(new) /\ new.task = sess[old].task
          /\ new.watched = sess[old].watched /\ new.crashed = sess[old].crashed
      BY <2>1, <3>1, DropSignals
    <3> HIDE DEF new
    <3>3. QED
      BY <2>1, <2>4, <3>1, <3>2 DEF Typed
  <2>5. QED
    BY <2>2, <2>3, <2>4 DEF Typed
<1>4. Typed' /\ AllSignalled'
  BY <1>1, <1>3 DEF Typed, Stages, Ready, AllSignalled
<1>5. Unlaunched'
  <2> SUFFICES ASSUME NEW s \in Sessions
               PROVE  /\ spawn'[s] \in {"none", "resolving", "watching", "launching"} => Fresh(sess'[s])
                      /\ spawn'[s] \in {"none", "resolving", "watching"} => ~sess'[s].watched
                      /\ spawn'[s] \in {"failed", "failing"} => sess'[s].task = "none"
                      /\ spawn'[s] = "publishing" => sess'[s].task # "none"
                      /\ s > watch'.generation => spawn'[s] = "none"
    BY DEF Unlaunched
  <2>1. CASE s = g
    BY <2>1, <1>1 DEF Typed, Unlaunched
  <2>2. CASE s # g
    BY <2>2, <1>1, <1>3 DEF Typed, Unlaunched, OneAttempt
  <2>3. QED
    BY <2>1, <2>2
<1>6. OneAttempt'
  <2>1. /\ slot'.kind = "ready" /\ slot'.session = g /\ spawn'[g] = "done"
        /\ sess'[g].task # "none"
    BY <1>1, <1>2, <1>3 DEF Ready, Typed
  <2>2. ASSUME up PROVE g = watch.generation /\ \A t \in Sessions : ~Attempting(t)'
    BY <2>2, <1>1 DEF OneAttempt, Attempting, Typed
  <2>3. QED
    BY <2>1, <2>2, <1>1 DEF OneAttempt
<1>7. WatchIsKept'
  BY <1>1, <1>2, <1>3 DEF WatchIsKept, Watching, Typed
<1>8. QED
  BY <1>4, <1>5, <1>6, <1>7

LEMMA FailIInv == ASSUME IInv, NEW g \in Sessions, Fail(g) \/ ReportFailure(g) PROVE IInv'
<1> USE DEF IInv
<1>1. /\ UNCHANGED <<up, sess>>
      /\ \/ /\ spawn[g] = "failed" /\ spawn' = [spawn EXCEPT ![g] = "failing"]
            /\ slot' = (IF slot.kind = "spawning" THEN Idle ELSE slot) /\ watch' = watch
         \/ /\ spawn[g] = "failing" /\ spawn' = [spawn EXCEPT ![g] = "done"]
            /\ slot' = slot /\ watch' = StopWatch(g)
  BY DEF Fail, ReportFailure, Advance, panelVars
<1>2. sess[g].task = "none" /\ (slot.kind = "ready" => slot.session # g)
  BY <1>1 DEF Unlaunched, OneAttempt
<1>3. CASE /\ spawn[g] = "failed" /\ spawn' = [spawn EXCEPT ![g] = "failing"]
           /\ slot' = (IF slot.kind = "spawning" THEN Idle ELSE slot) /\ watch' = watch
  <2>1. /\ slot' = slot \/ slot'.kind = "idle"
        /\ \A t \in Sessions : Attempting(t)' => Attempting(t) /\ t # g
    BY <1>3 DEF Idle, Attempting, Typed
  <2>2. Typed' /\ AllSignalled' /\ Unlaunched'
    BY <1>1, <1>3, <2>1 DEF Typed, Stages, AllSignalled, Unlaunched
  <2>3. OneAttempt'
    <3>1. up => \A t \in Sessions : ~Attempting(t)'
      BY <1>3, <2>1 DEF OneAttempt, Attempting
    <3>2. slot'.kind = "ready" => slot' = slot /\ spawn'[slot.session] = "done"
      BY <1>2, <1>3, <2>1 DEF OneAttempt, Typed
    <3>3. QED
      BY <1>1, <1>3, <3>1, <3>2 DEF OneAttempt
  <2>4. WatchIsKept'
    BY <1>1, <1>2, <1>3 DEF WatchIsKept, Watching, Typed
  <2>5. QED
    BY <2>2, <2>3, <2>4
<1>4. CASE /\ spawn[g] = "failing" /\ spawn' = [spawn EXCEPT ![g] = "done"]
           /\ slot' = slot /\ watch' = StopWatch(g)
  <2>1. /\ watch' \in [handle : Nat, generation : Nat, stopped : BOOLEAN]
        /\ watch'.generation = watch.generation
        /\ watch'.handle = IF g = watch.generation THEN 0 ELSE watch.handle
    BY <1>4, StopWatchStops
  <2>2. Typed' /\ AllSignalled'
    BY <1>1, <1>4, <2>1 DEF Typed, Stages, AllSignalled
  <2>3. Unlaunched'
    BY <1>1, <1>4, <2>1 DEF Typed, Unlaunched
  <2>4. OneAttempt'
    <3>1. \A t \in Sessions : Attempting(t)' => Attempting(t)
      BY <1>4 DEF Attempting, Typed
    <3>2. QED
      BY <1>1, <1>2, <1>4, <2>1, <3>1 DEF OneAttempt, Typed
  <2>5. WatchIsKept'
    <3> SUFFICES ASSUME NEW t \in Sessions
                 PROVE  /\ sess'[t].crashed => watch'.handle # t
                        /\ Watching(t)' /\ t = watch'.generation
                             /\ (spawn'[t] \in {"launching", "publishing"} \/ sess'[t].task # "none")
                           => watch'.handle = t
      BY DEF WatchIsKept
    <3>1. CASE t = g
      BY <3>1, <1>1, <1>2, <1>4, <2>1, BoundsAreNat DEF WatchIsKept, Watching, Typed, Sessions
    <3>2. CASE t # g
      BY <3>2, <1>1, <1>4, <2>1, BoundsAreNat DEF WatchIsKept, Watching, Typed, Sessions
    <3>3. QED
      BY <3>1, <3>2
  <2>6. QED
    BY <2>2, <2>3, <2>4, <2>5
<1>5. QED
  BY <1>1, <1>3, <1>4

LEMMA ShutdownIInv == ASSUME IInv, Shutdown PROVE IInv'
<1> USE DEF IInv
<1>1. up' = FALSE /\ slot'.kind = "idle" /\ UNCHANGED <<watch, spawn>>
  BY DEF Shutdown, Idle
<1>2. /\ DOMAIN sess' = Sessions
      /\ \A t \in Sessions :
           /\ HasFields(sess'[t]) /\ Signalled(sess'[t]) /\ sess'[t].task = sess[t].task
           /\ sess'[t].watched = sess[t].watched /\ sess'[t].crashed = sess[t].crashed
           /\ sess'[t] = sess[t] \/ sess[t].task # "none"
  <2>1. \A t \in Sessions : HasFields(sess[t]) /\ Signalled(sess[t])
    BY DEF Typed, AllSignalled
  <2>2. CASE slot.kind # "ready"
    BY <2>1, <2>2 DEF Shutdown, Typed
  <2>3. CASE slot.kind = "ready"
    <3> DEFINE old == slot.session
               new == Drop(sess[old])
    <3>1. sess' = [sess EXCEPT ![old] = new] /\ old \in Sessions /\ sess[old].task # "none"
      BY <2>3 DEF Shutdown, Typed, OneAttempt
    <3>2. /\ HasFields(new) /\ Signalled(new) /\ new.task = sess[old].task
          /\ new.watched = sess[old].watched /\ new.crashed = sess[old].crashed
      BY <2>1, <3>1, DropSignals
    <3> HIDE DEF new
    <3>3. QED
      BY <2>1, <2>3, <3>1, <3>2 DEF Typed
  <2>4. QED
    BY <2>2, <2>3
<1>3. Typed' /\ AllSignalled'
  BY <1>1, <1>2 DEF Typed, AllSignalled
<1>4. Unlaunched'
  BY <1>1, <1>2 DEF Unlaunched, Fresh
<1>5. OneAttempt' /\ WatchIsKept'
  BY <1>1, <1>2 DEF OneAttempt, WatchIsKept, Watching
<1>6. QED
  BY <1>3, <1>4, <1>5

(* The context worker's job: a session that is closed is dropped, and what *)
(* starts an attempt has no session in the slot any more.                  *)
LEMMA DispatchIdleIInv ==
  ASSUME IInv, NEW command, DispatchIdle(command), up' = up, DOMAIN sess' = Sessions,
         up => \A t \in Sessions : ~Attempting(t),
         \A t \in Sessions :
           /\ HasFields(sess'[t]) /\ Signalled(sess'[t]) /\ sess'[t].task = sess[t].task
           /\ sess'[t].watched = sess[t].watched /\ sess'[t].crashed = sess[t].crashed
           /\ sess'[t] = sess[t] \/ sess[t].task # "none"
  PROVE  IInv'
<1> USE DEF IInv
<1> DEFINE g == watch.generation + 1
<1>1. \/ /\ g \in Sessions /\ slot'.kind = "spawning"
         /\ watch' = [handle |-> 0, generation |-> g, stopped |-> FALSE]
         /\ spawn' = [spawn EXCEPT ![g] = "resolving"]
      \/ /\ g \in Sessions /\ slot'.kind = "idle" /\ spawn' = spawn
         /\ watch' = [handle |-> 0, generation |-> g, stopped |-> FALSE]
      \/ slot'.kind = "idle" /\ spawn' = spawn /\ watch' = watch
  BY BoundsAreNat DEF DispatchIdle, BeginWatch, Spawning, Idle, Typed, Sessions
<1>2. g \in Sessions => spawn[g] = "none"
  BY BoundsAreNat DEF Unlaunched, Typed, Sessions
<1>3. AllSignalled'
  BY DEF AllSignalled
<1>4. CASE slot'.kind = "idle" /\ spawn' = spawn /\ watch' = watch
  BY <1>3, <1>4 DEF Typed, Unlaunched, Fresh, OneAttempt, Attempting, WatchIsKept, Watching
<1>5. CASE /\ g \in Sessions /\ slot'.kind \in {"spawning", "idle"}
           /\ watch' = [handle |-> 0, generation |-> g, stopped |-> FALSE]
           /\ \/ slot'.kind = "spawning" /\ spawn' = [spawn EXCEPT ![g] = "resolving"]
              \/ spawn' = spawn
  <2>1. /\ watch'.handle = 0 /\ watch'.generation = g /\ g \in Nat /\ g <= MaxSessions
        /\ watch' \in [handle : Nat, generation : Nat, stopped : BOOLEAN]
    BY <1>5, BoundsAreNat DEF Typed, Sessions
  <2>2. spawn' \in [Sessions -> Stages] /\ \A t \in Sessions : t # g => spawn'[t] = spawn[t]
    BY <1>5 DEF Typed, Stages
  <2>3. spawn'[g] \in {"none", "resolving"} /\ ~sess[g].watched /\ Fresh(sess[g])
    BY <1>2, <1>5 DEF Typed, Unlaunched
  <2>4. sess'[g] = sess[g]
    BY <2>3, <1>5 DEF Fresh
  <2> HIDE DEF g
  <2>5. Typed'
    BY <1>5, <2>1, <2>2 DEF Typed
  <2>6. Unlaunched'
    <3> SUFFICES ASSUME NEW s \in Sessions
                 PROVE  /\ spawn'[s] \in {"none", "resolving", "watching", "launching"} => Fresh(sess'[s])
                        /\ spawn'[s] \in {"none", "resolving", "watching"} => ~sess'[s].watched
                        /\ spawn'[s] \in {"failed", "failing"} => sess'[s].task = "none"
                        /\ spawn'[s] = "publishing" => sess'[s].task # "none"
                        /\ s > g => spawn'[s] = "none"
      BY <2>1 DEF Unlaunched
    <3>1. CASE s = g
      BY <3>1, <2>1, <2>3, <2>4
    <3>2. CASE s # g
      <4>1. s > g => s > watch.generation
        BY BoundsAreNat DEF g, Typed, Sessions
      <4>2. QED
        BY <3>2, <2>2, <4>1 DEF Unlaunched, Fresh
    <3>3. QED
      BY <3>1, <3>2
  <2>7. OneAttempt'
    BY <1>5, <2>1, <2>2 DEF OneAttempt, Attempting
  <2>8. WatchIsKept'
    <3> SUFFICES ASSUME NEW t \in Sessions
                 PROVE  /\ sess'[t].crashed => watch'.handle # t
                        /\ ~(Watching(t)' /\ t = g)
      BY <2>1 DEF WatchIsKept
    <3>1. watch'.handle # t
      BY <2>1, BoundsAreNat DEF Sessions
    <3>2. t = g => ~Watching(t)'
      BY <2>3, <2>4 DEF Watching
    <3>3. QED
      BY <3>1, <3>2
  <2>9. QED
    BY <1>3, <2>5, <2>6, <2>7, <2>8
<1>6. QED
  BY <1>1, <1>4, <1>5

LEMMA DispatchIInv == ASSUME IInv, Dispatch PROVE IInv'
<1> USE DEF IInv
<1> DEFINE command == Head(jobs)
<1>1. up' = up /\ \A t \in Sessions : HasFields(sess[t]) /\ Signalled(sess[t])
  BY DEF Dispatch, panelVars, Typed, AllSignalled
<1>2. CASE slot.kind = "spawning"
  <2>1. slot'.kind = "spawning" /\ UNCHANGED <<watch, spawn, sess>>
    BY <1>2 DEF Dispatch, Spawning
  <2>2. QED
    BY <1>1, <1>2, <2>1 DEF Typed, Unlaunched, AllSignalled, OneAttempt, WatchIsKept,
       Attempting, Watching
<1>3. CASE slot.kind = "idle"
  <2>1. DispatchIdle(command) /\ sess' = sess
    BY <1>3 DEF Dispatch
  <2>2. up => \A t \in Sessions : ~Attempting(t)
    BY <1>3 DEF OneAttempt
  <2> HIDE DEF command
  <2>3. QED
    BY <1>1, <2>1, <2>2, DispatchIdleIInv DEF Typed
<1>4. CASE slot.kind = "ready"
  <2> DEFINE s == slot.session
  <2>1. s \in Sessions /\ sess[s].task # "none" /\ (up => \A t \in Sessions : ~Attempting(t))
    BY <1>4 DEF Typed, OneAttempt
  <2>2. CASE IsClosed(s)
    <3> DEFINE new == Drop(sess[s])
    <3>1. DispatchIdle(command) /\ sess' = [sess EXCEPT ![s] = new]
      BY <1>4, <2>2 DEF Dispatch
    <3>2. /\ HasFields(new) /\ Signalled(new) /\ new.task = sess[s].task
          /\ new.watched = sess[s].watched /\ new.crashed = sess[s].crashed
      BY <1>1, <2>1, DropSignals
    <3> HIDE DEF new, command
    <3>3. /\ DOMAIN sess' = Sessions
          /\ \A t \in Sessions :
               /\ HasFields(sess'[t]) /\ Signalled(sess'[t]) /\ sess'[t].task = sess[t].task
               /\ sess'[t].watched = sess[t].watched /\ sess'[t].crashed = sess[t].crashed
               /\ sess'[t] = sess[t] \/ sess[t].task # "none"
      BY <1>1, <2>1, <3>1, <3>2 DEF Typed
    <3>4. QED
      BY <1>1, <2>1, <3>1, <3>3, DispatchIdleIInv
  <2>3. CASE ~IsClosed(s)
    <3> DEFINE new == Send(sess[s], <<command>>)
    <3>1. sess' = [sess EXCEPT ![s] = new] /\ UNCHANGED <<slot, watch, spawn>>
      BY <1>4, <2>3 DEF Dispatch
    <3>2. SameTask(new, sess[s])
      BY <1>1, <2>1, SendKeeps
    <3> HIDE DEF new
    <3>3. QED
      BY <1>1, <2>1, <3>1, <3>2, QuietStep
  <2>4. QED
    BY <2>2, <2>3
<1>5. QED
  BY <1>2, <1>3, <1>4 DEF Typed

(* Every step keeps the invariant. *)
LEMMA NextIInv == ASSUME IInv, [Next]_vars PROVE IInv'
<1>1. ASSUME NEW s \in Sessions, Spawner(s) PROVE IInv'
  BY <1>1, ResolveIInv, StartWatchIInv, LaunchIInv, PublishIInv, FailIInv DEF Spawner
<1>2. ASSUME NEW s \in Sessions, Task(s) PROVE IInv'
  BY <1>2, OnCommandIInv, OnFrameIInv, TeardownIInv DEF Task
<1>3. QED
  BY <1>1, <1>2, PanelIInv, DispatchIInv, ShutdownIInv, ProcessIInv DEF Next

LEMMA Invariance == Spec => []IInv
BY InitIInv, NextIInv, PTL DEF Spec

(* However a session ends, its agent has been signalled (run_session and    *)
(* AiSession's drop, whichever reaches the child's lock first), for any     *)
(* number of sessions.                                                      *)
THEOREM NoAgentIsLeftRunning == Spec => []NoAgentOutlivesItsSession
<1>1. IInv => NoAgentOutlivesItsSession
  BY DEF IInv, AllSignalled, Signalled, NoAgentOutlivesItsSession
<1>2. QED
  BY <1>1, Invariance, PTL

(* The watch runs exactly as long as its session (WatchSlot's generation    *)
(* and stopped), whichever attempts fail and whichever sessions crash while *)
(* others start.                                                            *)
THEOREM TheWatchFollowsItsSession == Spec => []WatchFollowsItsSession
<1>1. ASSUME IInv PROVE WatchFollowsItsSession
  <2>1. \A s \in Sessions : sess[s].crashed => watch.handle # s
    BY <1>1 DEF IInv, WatchIsKept
  <2>2. ASSUME up, slot.kind = "ready", sess[slot.session].watched, ~sess[slot.session].crashed
        PROVE  watch.handle = slot.session
    BY <1>1, <2>2 DEF IInv, Typed, OneAttempt, WatchIsKept, Watching
  <2>3. QED
    BY <2>1, <2>2 DEF WatchFollowsItsSession
<1>2. QED
  BY <1>1, Invariance, PTL

-----------------------------------------------------------------------------
(* A set of naturals that is not empty has a least member: of the intervals *)
(* its members end, one contains no other.                                  *)
LEMMA NatMin ==
  ASSUME NEW T \in SUBSET Nat, T # {}
  PROVE  \E x \in T : \A y \in T : x <= y
<1> DEFINE F == {1 .. x : x \in T}
<1>1. \A x \in T : x \in Nat /\ 1 .. x \in FiniteSubsetsOf(Nat)
  <2>1. SUFFICES ASSUME NEW x \in T PROVE x \in Nat /\ 1 .. x \in FiniteSubsetsOf(Nat)
    OBVIOUS
  <2>2. IsFiniteSet(1 .. x)
    BY FS_Interval
  <2>3. QED
    BY <2>2 DEF FiniteSubsetsOf
<1>2. F \subseteq FiniteSubsetsOf(Nat) /\ F # {}
  BY <1>1
<1>3. PICK m \in F : \A y \in F : <<y, m>> \notin StrictSubsetOrdering(Nat)
  <2> HIDE DEF F
  <2>1. IsWellFoundedOn(StrictSubsetOrdering(Nat), FiniteSubsetsOf(Nat))
    BY FS_StrictSubsetOrderingWellFounded
  <2>2. QED
    BY <2>1, <1>2, WFMin
<1>4. PICK x \in T : m = 1 .. x
  BY <1>3
<1>5. \A y \in T : x <= y
  <2>1. SUFFICES ASSUME NEW y \in T, y < x PROVE FALSE
    BY <1>1
  <2>2. x \in Nat /\ y \in Nat
    BY <1>1
  <2>3. (1 .. y) \subseteq (1 .. x) /\ x \in 1 .. x /\ x \notin 1 .. y
    BY <2>1, <2>2
  <2>4. 1 .. y \in F
    BY <2>1
  <2>5. 1 .. y \in SUBSET Nat /\ 1 .. x \in SUBSET Nat
    BY <2>2
  <2>6. 1 .. y # 1 .. x
    BY <2>3
  <2>7. <<1 .. y, 1 .. x>> \in StrictSubsetOrdering(Nat)
    BY <2>3, <2>5, <2>6 DEF StrictSubsetOrdering
  <2>8. QED
    BY <2>7, <2>4, <1>3, <1>4
<1>6. QED
  BY <1>5

-----------------------------------------------------------------------------
(* The order of the commands.  A queue's commands are looked at as the set *)
(* of their numbers: what is in front of what is Below it.                 *)
IsQueue(q) == \E S : q \in Seq(S) /\ \A c \in S : c.n \in Nat
Nrs(q) == {q[i].n : i \in 1..Len(q)}
Below(A, B) == \A a \in A, b \in B : a < b
Rising(q) == \A i, j \in 1..Len(q) : i < j => q[i].n < q[j].n

LEMMA QueueOf == ASSUME NEW S, NEW q \in Seq(S), \A c \in S : c.n \in Nat PROVE IsQueue(q)
BY DEF IsQueue

LEMMA EmptyQ == IsQueue(<<>>) /\ Nrs(<<>>) = {} /\ Rising(<<>>)
<1> DEFINE S == [n : Nat]
<1>1. <<>> \in Seq(S) /\ \A c \in S : c.n \in Nat
  OBVIOUS
<1> HIDE DEF S
<1>2. Len(<<>>) = 0 /\ 1..0 = {}
  OBVIOUS
<1>3. IsQueue(<<>>)
  BY <1>1, QueueOf
<1>4. QED
  BY <1>2, <1>3 DEF Nrs, Rising

LEMMA NrsNat == ASSUME NEW q, IsQueue(q) PROVE Nrs(q) \subseteq Nat /\ Len(q) \in Nat
BY DEF IsQueue, Nrs

(* One more at the end. *)
LEMMA AppendQ ==
  ASSUME NEW q, IsQueue(q), NEW c, c.n \in Nat
  PROVE  /\ IsQueue(Append(q, c)) /\ Nrs(Append(q, c)) = Nrs(q) \cup {c.n}
         /\ Rising(q) /\ Below(Nrs(q), {c.n}) => Rising(Append(q, c))
<1>1. PICK S : q \in Seq(S) /\ \A e \in S : e.n \in Nat
  BY DEF IsQueue
<1> DEFINE T == S \cup {c}
           r == Append(q, c)
<1>2. q \in Seq(T) /\ c \in T /\ \A e \in T : e.n \in Nat
  BY <1>1
<1>3. /\ r \in Seq(T) /\ Len(r) = Len(q) + 1 /\ Len(q) \in Nat
      /\ \A i \in 1..Len(q) : r[i] = q[i] /\ q[i] \in S
      /\ r[Len(q) + 1] = c
  BY <1>1, <1>2
<1> HIDE DEF r
<1>4. IsQueue(r)
  BY <1>2, <1>3 DEF IsQueue
<1>5. Nrs(r) = Nrs(q) \cup {c.n}
  <2>1. \A i \in 1..Len(q) : i \in 1..Len(r) /\ r[i] = q[i]
    BY <1>3
  <2>2. \A i \in 1..Len(r) : i \in 1..Len(q) \/ r[i] = c
    BY <1>3
  <2>3. Len(q) + 1 \in 1..Len(r)
    BY <1>3
  <2>4. Nrs(q) \subseteq Nrs(r) /\ c.n \in Nrs(r)
    <3>1. c.n \in Nrs(r)
      BY <2>3, <1>3, Zenon DEF Nrs
    <3>2. Nrs(q) \subseteq Nrs(r)
      BY <2>1 DEF Nrs
    <3>3. QED
      BY <3>1, <3>2
  <2>5. Nrs(r) \subseteq Nrs(q) \cup {c.n}
    BY <2>1, <2>2 DEF Nrs
  <2>6. QED
    BY <2>4, <2>5
<1>6. ASSUME Rising(q), Below(Nrs(q), {c.n}) PROVE Rising(r)
  <2>1. \A i \in 1..Len(q) : q[i].n < c.n
    BY <1>6 DEF Below, Nrs
  <2> SUFFICES ASSUME NEW i \in 1..Len(r), NEW j \in 1..Len(r), i < j PROVE r[i].n < r[j].n
    BY DEF Rising
  <2>2. CASE j = Len(q) + 1
    BY <2>1, <2>2, <1>3
  <2>3. CASE j # Len(q) + 1
    BY <2>3, <1>3, <1>6 DEF Rising
  <2>4. QED
    BY <2>2, <2>3
<1>7. QED
  BY <1>4, <1>5, <1>6 DEF r

(* The first one taken off. *)
LEMMA TailQ ==
  ASSUME NEW q, IsQueue(q), q # <<>>
  PROVE  /\ IsQueue(Tail(q)) /\ Nrs(q) = {Head(q).n} \cup Nrs(Tail(q)) /\ Head(q).n \in Nat
         /\ Rising(q) => Rising(Tail(q)) /\ Below({Head(q).n}, Nrs(Tail(q)))
<1>1. PICK S : q \in Seq(S) /\ \A e \in S : e.n \in Nat
  BY DEF IsQueue
<1> DEFINE r == Tail(q)
<1>3. /\ r \in Seq(S) /\ Len(q) \in Nat \ {0} /\ Len(r) = Len(q) - 1
      /\ \A i \in 1..Len(r) : r[i] = q[i + 1] /\ i + 1 \in 1..Len(q)
      /\ \A i \in 1..Len(q) : q[i] \in S
      /\ Head(q) = q[1]
  BY <1>1
<1>4. \A i \in 1..Len(q) : i # 1 => i - 1 \in 1..Len(r) /\ r[i - 1] = q[i]
  BY <1>3
<1> HIDE DEF r
<1>5. IsQueue(r) /\ Head(q).n \in Nat
  BY <1>1, <1>3 DEF IsQueue
<1>6. Nrs(q) = {Head(q).n} \cup Nrs(r)
  <2>1. \A i \in 1..Len(q) : q[i].n = Head(q).n \/ q[i].n \in Nrs(r)
    BY <1>3, <1>4 DEF Nrs
  <2>2. Head(q).n \in Nrs(q) /\ Nrs(r) \subseteq Nrs(q)
    BY <1>3 DEF Nrs
  <2>3. QED
    BY <2>1, <2>2 DEF Nrs
<1>7. Rising(q) => Rising(r) /\ Below({Head(q).n}, Nrs(r))
  BY <1>3, SMTT(30) DEF Rising, Below, Nrs
<1>8. QED
  BY <1>5, <1>6, <1>7 DEF r

(* One queue after another. *)
LEMMA ConcatQ ==
  ASSUME NEW p, IsQueue(p), NEW q, IsQueue(q)
  PROVE  IsQueue(p \o q) /\ (p = <<>> => p \o q = q)
<1>1. PICK S : p \in Seq(S) /\ \A e \in S : e.n \in Nat
  BY DEF IsQueue
<1>2. PICK T : q \in Seq(T) /\ \A e \in T : e.n \in Nat
  BY DEF IsQueue
<1> DEFINE U == S \cup T
<1>3. p \in Seq(U) /\ q \in Seq(U) /\ \A e \in U : e.n \in Nat
  BY <1>1, <1>2
<1>4. p \o q \in Seq(U)
  BY <1>3
<1>5. p = <<>> => p \o q = q
  BY <1>3
<1>6. QED
  BY <1>3, <1>4, <1>5 DEF IsQueue

-----------------------------------------------------------------------------
(* What a session does with its commands.                                  *)
LineFields == {"alive", "task", "heard", "deferred", "commands", "open"}
HasLine(d) == LineFields \subseteq DOMAIN d

(* Its queues are where they were. *)
SameQueues(new, d) ==
  /\ HasLine(new) /\ new.alive = d.alive /\ new.task = d.task
  /\ new.deferred = d.deferred /\ new.commands = d.commands /\ new.open = d.open

LEMMA WriteLine ==
  ASSUME NEW d, HasLine(d), NEW what, NEW n
  PROVE  /\ SameQueues(Write(d, what, n), d)
         /\ Write(d, what, n).heard \in {d.heard, n}
         /\ n = 0 \/ ~d.alive => Write(d, what, n).heard = d.heard
BY DEF Write, SameQueues, HasLine, LineFields

(* Before the session exists a command is kept, afterwards it is written   *)
(* or has nobody left to answer.                                           *)
LEMMA CommandLine ==
  ASSUME NEW d, HasLine(d), NEW c
  PROVE  LET new == Command(d, c)
         IN  /\ HasLine(new) /\ new.alive = d.alive /\ new.task = d.task
             /\ new.commands = d.commands /\ new.open = d.open
             /\ ~d.open => new.deferred = Append(d.deferred, c) /\ new.heard = d.heard
             /\ d.open => new.deferred = d.deferred /\ new.heard \in {d.heard, c.n}
             /\ ~d.alive => new.heard = d.heard
<1> DEFINE new == Command(d, c)
           settled == [d EXCEPT !.permissions = {}]
           replied == [d EXCEPT !.permissions = @ \ {c.id}]
<1>1. CASE ~d.open
  BY <1>1 DEF Command, HasLine, LineFields
<1>2. CASE d.open
  <2>1. /\ SameQueues(settled, d) /\ settled.heard = d.heard
        /\ SameQueues(replied, d) /\ replied.heard = d.heard
    BY DEF SameQueues, HasLine, LineFields
  <2>2. HasLine(settled) /\ HasLine(replied)
    BY <2>1 DEF SameQueues
  <2>3. new \in {Write(d, {"prompt"}, c.n), Write(settled, {}, c.n), Write(replied, {}, c.n), d}
    BY <1>2 DEF Command
  <2> HIDE DEF new, settled, replied
  <2>4. ASSUME NEW e, SameQueues(e, d), e.heard = d.heard, NEW what
        PROVE  /\ SameQueues(Write(e, what, c.n), d)
               /\ Write(e, what, c.n).heard \in {d.heard, c.n}
               /\ ~d.alive => Write(e, what, c.n).heard = d.heard
    BY <2>4, WriteLine DEF SameQueues
  <2>5. SameQueues(d, d)
    BY DEF SameQueues
  <2>6. /\ SameQueues(new, d) /\ new.heard \in {d.heard, c.n}
        /\ ~d.alive => new.heard = d.heard
    BY <2>1, <2>3, <2>4, <2>5
  <2>7. QED
    BY <1>2, <2>6 DEF SameQueues, new
<1>3. QED
  BY <1>1, <1>2

(* The commands replayed are the ones deferred, and the last one heard is   *)
(* one of them: Replayed is defined for every queue, one command after the  *)
(* other.                                                                  *)
Replays(d, g, k) ==
  g = [i \in 0..k |-> IF i = 0 THEN [d EXCEPT !.open = TRUE, !.deferred = <<>>]
                      ELSE Command(g[i - 1], d.deferred[i])]

LEMMA ReplaysExist ==
  ASSUME NEW d, NEW n \in Nat
  PROVE  \E g : Replays(d, g, n)
<1> DEFINE T == {k \in Nat : ~\E g : Replays(d, g, k)}
<1>1. SUFFICES ASSUME T # {} PROVE FALSE
  BY <1>1
<1>2. PICK k \in T : \A j \in T : k <= j
  BY <1>1, NatMin
<1>3. CASE k = 0
  <2> DEFINE g == [i \in 0..0 |-> [d EXCEPT !.open = TRUE, !.deferred = <<>>]]
  <2>1. Replays(d, g, 0)
    BY DEF Replays
  <2>2. QED
    BY <2>1, <1>2, <1>3
<1>4. CASE k # 0
  <2>1. k \in Nat /\ k - 1 \in Nat /\ k - 1 \notin T
    BY <1>2, <1>4
  <2>2. PICK g : Replays(d, g, k - 1)
    BY <2>1
  <2> DEFINE h == [i \in 0..k |-> IF i = k THEN Command(g[k - 1], d.deferred[k]) ELSE g[i]]
  <2>3. \A i \in 0..k : i # k => i \in 0..k - 1
    BY <2>1
  <2>4. \A i \in 0..k : i # 0 => i - 1 \in 0..k /\ i - 1 # k
    BY <2>1
  <2>5. \A i \in 0..k - 1 : g[i] = IF i = 0 THEN [d EXCEPT !.open = TRUE, !.deferred = <<>>]
                                   ELSE Command(g[i - 1], d.deferred[i])
    BY <2>2 DEF Replays
  <2>6. \A i \in 0..k : h[i] = IF i = 0 THEN [d EXCEPT !.open = TRUE, !.deferred = <<>>]
                               ELSE Command(h[i - 1], d.deferred[i])
    <3>1. SUFFICES ASSUME NEW i \in 0..k
                   PROVE  h[i] = IF i = 0 THEN [d EXCEPT !.open = TRUE, !.deferred = <<>>]
                                 ELSE Command(h[i - 1], d.deferred[i])
      OBVIOUS
    <3>2. CASE i = k
      BY <3>2, <2>4, <1>4
    <3>3. CASE i # k
      BY <3>3, <2>3, <2>4, <2>5
    <3>4. QED
      BY <3>2, <3>3
  <2>7. Replays(d, h, k)
    <3>1. h = [i \in 0..k |-> h[i]]
      OBVIOUS
    <3> HIDE DEF h
    <3>2. QED
      BY <2>6, <3>1 DEF Replays
  <2>8. QED
    BY <2>7, <1>2
<1>5. QED
  BY <1>3, <1>4

LEMMA ReplayedReplays ==
  ASSUME NEW d, Len(d.deferred) \in Nat
  PROVE  Replays(d, Replayed(d), Len(d.deferred))
<1>1. \E g : Replays(d, g, Len(d.deferred))
  BY ReplaysExist
<1>2. Replayed(d) = CHOOSE g : Replays(d, g, Len(d.deferred))
  BY Zenon DEF Replayed, Replays
<1>3. QED
  BY <1>1, <1>2

LEMMA OpenedLine ==
  ASSUME NEW d, HasLine(d), IsQueue(d.deferred)
  PROVE  LET new == Opened(d)
         IN  /\ HasLine(new) /\ new.alive = d.alive /\ new.task = d.task
             /\ new.commands = d.commands /\ new.deferred = <<>>
             /\ new.heard \in {d.heard} \cup Nrs(d.deferred)
             /\ ~d.alive => new.heard = d.heard
<1> DEFINE n == Len(d.deferred)
           f == Replayed(d)
           Good(e) == /\ HasLine(e) /\ e.open /\ e.alive = d.alive
                      /\ e.heard \in {d.heard} \cup Nrs(d.deferred)
                      /\ ~d.alive => e.heard = d.heard
           T == {k \in 0..n : ~Good(f[k])}
<1>1. n \in Nat /\ \A i \in 1..n : d.deferred[i].n \in Nrs(d.deferred)
  BY DEF IsQueue, Nrs
<1>2. \A i \in 0..n : f[i] = IF i = 0 THEN [d EXCEPT !.open = TRUE, !.deferred = <<>>]
                             ELSE Command(f[i - 1], d.deferred[i])
  <2>1. Replays(d, f, n)
    BY <1>1, ReplayedReplays
  <2> HIDE DEF f, n
  <2>2. QED
    BY <2>1 DEF Replays
<1> HIDE DEF f
<1>3. Good(f[n])
  <2>1. SUFFICES ASSUME T # {} PROVE FALSE
    BY <1>1
  <2>2. PICK k \in T : \A j \in T : k <= j
    <3>1. T \in SUBSET Nat
      BY <1>1
    <3> HIDE DEF T
    <3>2. QED
      BY <2>1, <3>1, NatMin
  <2>3. k \in 0..n
    BY <2>2
  <2>4. CASE k = 0
    <3>1. f[0] = [d EXCEPT !.open = TRUE, !.deferred = <<>>]
      BY <1>1, <1>2
    <3>2. Good(f[0])
      BY <3>1 DEF HasLine, LineFields
    <3>3. QED
      BY <3>2, <2>2, <2>4
  <2>5. CASE k # 0
    <3>1. k - 1 \in 0..n /\ k \in 1..n /\ ~(k <= k - 1)
      BY <1>1, <2>3, <2>5
    <3>2. Good(f[k - 1])
      BY <3>1, <2>2
    <3>3. f[k] = Command(f[k - 1], d.deferred[k])
      BY <1>2, <2>3, <2>5
    <3> DEFINE e == f[k - 1]
               c == d.deferred[k]
    <3>4. Good(f[k])
      <4>1. Good(e) /\ f[k] = Command(e, c) /\ c.n \in Nrs(d.deferred)
        BY <3>1, <3>2, <3>3, <1>1
      <4> HIDE DEF e, c
      <4>2. /\ HasLine(Command(e, c)) /\ Command(e, c).alive = e.alive
            /\ Command(e, c).open = e.open
            /\ Command(e, c).heard \in {e.heard, c.n}
            /\ ~e.alive => Command(e, c).heard = e.heard
        BY <4>1, CommandLine
      <4>3. QED
        BY <4>1, <4>2
    <3>5. QED
      BY <3>4, <2>2
  <2>6. QED
    BY <2>4, <2>5
<1>4. QED
  <2> DEFINE drained == f[n]
  <2>1. Opened(d) = [d EXCEPT !.open = TRUE, !.deferred = <<>>, !.permissions = drained.permissions,
                              !.owed = drained.owed, !.heard = drained.heard, !.frames = drained.frames]
    BY DEF Opened, f
  <2>2. Good(drained)
    BY <1>3
  <2> HIDE DEF drained
  <2>3. QED
    BY <2>1, <2>2 DEF HasLine, LineFields

-----------------------------------------------------------------------------
(* What waits is ahead of everything heard, has been issued, and stands in *)
(* the order of issue: the deferred commands, the session's channel, the   *)
(* slot's buffer, the context queue.  Only the session in the slot has     *)
(* commands waiting while its agent lives.                                 *)
Heard == {sess[t].heard : t \in Sessions}
Upcoming(q, heard, n) ==
  IsQueue(q) /\ Rising(q) /\ Below(heard, Nrs(q)) /\ Below(Nrs(q), {n + 1})

Line(d, heard, n, J) ==
  /\ Upcoming(d.deferred, heard, n) /\ Upcoming(d.commands, heard, n)
  /\ Below(Nrs(d.deferred), Nrs(d.commands))
  /\ Below(Nrs(d.deferred), J) /\ Below(Nrs(d.commands), J)
  /\ d.open => d.deferred = <<>>
Owes(d) == d.alive /\ ~(d.deferred = <<>> /\ d.commands = <<>>)
Buffered(buffer, heard, n, J) == Upcoming(buffer, heard, n) /\ Below(Nrs(buffer), J)

SessionInLine(s) ==
  /\ HasLine(sess[s]) /\ sess[s].heard \in 0..nr
  /\ IsQueue(sess[s].deferred) /\ IsQueue(sess[s].commands)
  /\ sess[s].task = "none" => sess[s].deferred = <<>> /\ sess[s].commands = <<>>
  /\ sess[s].alive => Line(sess[s], Heard, nr, Nrs(jobs))
  /\ Owes(sess[s]) => slot.kind = "ready" /\ slot.session = s
InLine ==
  /\ nr \in Nat /\ Upcoming(jobs, Heard, nr)
  /\ slot.kind = "spawning" => Buffered(slot.buffer, Heard, nr, Nrs(jobs))
  /\ \A s \in Sessions : SessionInLine(s)

(* What CommandsKeepTheirOrder asks of a step. *)
Rises == \A s, t \in Sessions : sess'[s].heard # sess[s].heard => sess'[s].heard > sess[t].heard
LineStep == InLine' /\ Rises

LEMMA InitInLine == ASSUME Init PROVE InLine
<1>1. nr = 0 /\ jobs = <<>> /\ slot.kind = "idle" /\ \A s \in Sessions : sess[s] = Unborn
  BY DEF Init, Idle
<1>2. Upcoming(<<>>, Heard, 0)
  BY EmptyQ DEF Upcoming, Below
<1>3. /\ HasLine(Unborn) /\ Unborn.heard = 0 /\ Unborn.deferred = <<>> /\ Unborn.commands = <<>>
      /\ ~Unborn.alive
  BY DEF Unborn, HasLine, LineFields
<1>4. ASSUME NEW s \in Sessions PROVE SessionInLine(s)
  BY <1>1, <1>3, EmptyQ DEF SessionInLine, Owes
<1>5. QED
  BY <1>1, <1>2, <1>4 DEF InLine

LEMMA UpcomingEmpty == ASSUME NEW heard, NEW n PROVE Upcoming(<<>>, heard, n)
BY EmptyQ DEF Upcoming, Below

(* A step in which no session is told anything and none takes a command.   *)
Quiet(new, d) ==
  /\ HasLine(new) /\ new.heard = d.heard
  /\ IsQueue(new.deferred) /\ IsQueue(new.commands)
  /\ new.task = "none" => new.deferred = <<>> /\ new.commands = <<>>
  /\ new.alive => /\ new.deferred = <<>> \/ (d.alive /\ new.deferred = d.deferred)
                  /\ new.commands = <<>> \/ (d.alive /\ new.commands = d.commands)
                  /\ new.open => new.deferred = <<>>

LEMMA SelfQuiet == ASSUME InLine, NEW s \in Sessions PROVE Quiet(sess[s], sess[s])
BY DEF InLine, SessionInLine, Quiet, Line

LEMMA TailUpcoming ==
  ASSUME NEW q, NEW heard, NEW n, Upcoming(q, heard, n), q # <<>>
  PROVE  Upcoming(Tail(q), heard, n) /\ Nrs(Tail(q)) \subseteq Nrs(q)
<1>1. IsQueue(Tail(q)) /\ Rising(Tail(q)) /\ Nrs(Tail(q)) \subseteq Nrs(q)
  BY TailQ DEF Upcoming
<1>2. QED
  BY <1>1 DEF Upcoming, Below

LEMMA QuietLine ==
  ASSUME InLine, nr' = nr, \A s \in Sessions : Quiet(sess'[s], sess[s]),
         jobs' = jobs \/ (jobs # <<>> /\ jobs' = Tail(jobs)),
         \A s \in Sessions : Owes(sess'[s]) => slot'.kind = "ready" /\ slot'.session = s,
         slot'.kind = "spawning" => Buffered(slot'.buffer, Heard, nr, Nrs(jobs'))
  PROVE  LineStep
<1>1. Heard' = Heard /\ Rises
  BY DEF Quiet, Heard, Rises
<1>2. Upcoming(jobs', Heard, nr) /\ Nrs(jobs') \subseteq Nrs(jobs)
  BY TailUpcoming DEF InLine
<1>3. ASSUME NEW s \in Sessions PROVE SessionInLine(s)'
  <2> DEFINE d == sess[s]
             new == sess'[s]
  <2>1. /\ HasLine(d) /\ d.heard \in 0..nr /\ (d.alive => Line(d, Heard, nr, Nrs(jobs)))
        /\ Quiet(new, d)
    BY DEF InLine, SessionInLine
  <2> HIDE DEF d, new
  <2>2. new.alive => Line(new, Heard, nr, Nrs(jobs'))
    BY <2>1, <1>2, UpcomingEmpty, EmptyQ DEF Quiet, Line, Below
  <2>3. /\ HasLine(new) /\ new.heard \in 0..nr /\ IsQueue(new.deferred) /\ IsQueue(new.commands)
        /\ new.task = "none" => new.deferred = <<>> /\ new.commands = <<>>
    BY <2>1 DEF Quiet
  <2>4. QED
    BY <2>2, <2>3, <1>1 DEF SessionInLine, new
<1>4. QED
  BY <1>1, <1>2, <1>3 DEF InLine, LineStep

(* The panel issues a command. *)
LEMMA IssueLine ==
  ASSUME InLine, NEW kind, NEW id, Issue(kind, id), UNCHANGED <<slot, sess>>
  PROVE  LineStep
<1> DEFINE c == [kind |-> kind, id |-> id, n |-> nr + 1]
<1>1. nr \in Nat /\ nr' = nr + 1 /\ jobs' = Append(jobs, c) /\ c.n = nr + 1 /\ c.n \in Nat
  BY DEF Issue, InLine
<1> HIDE DEF c
<1>2. Heard' = Heard /\ Rises /\ Below(Heard, {nr + 1}) /\ Heard \subseteq Nat
  <2>1. Heard' = Heard /\ Rises
    BY DEF Heard, Rises
  <2>2. \A s \in Sessions : sess[s].heard \in 0..nr
    BY DEF InLine, SessionInLine
  <2>3. \A h \in Heard : h \in Nat /\ h < nr + 1
    BY <2>2, <1>1 DEF Heard
  <2>4. QED
    BY <2>1, <2>3 DEF Below
<1>3. ASSUME NEW q, Upcoming(q, Heard, nr) PROVE Upcoming(q, Heard, nr')
  BY <1>3, <1>1, NrsNat DEF Upcoming, Below
<1>4. /\ Nrs(jobs') = Nrs(jobs) \cup {nr + 1} /\ Upcoming(jobs', Heard, nr')
  <2>1. Upcoming(jobs, Heard, nr)
    BY DEF InLine
  <2>2. IsQueue(jobs) /\ Rising(jobs) /\ Below(Nrs(jobs), {c.n})
    BY <2>1, <1>1 DEF Upcoming
  <2>3. IsQueue(jobs') /\ Rising(jobs') /\ Nrs(jobs') = Nrs(jobs) \cup {c.n}
    BY <2>2, <1>1, AppendQ
  <2>4. Below(Heard, Nrs(jobs')) /\ Below(Nrs(jobs'), {nr' + 1})
    BY <2>1, <2>2, <2>3, <1>1, <1>2, NrsNat DEF Upcoming, Below
  <2>5. QED
    BY <2>3, <2>4, <1>1 DEF Upcoming
<1>5. ASSUME NEW q, Upcoming(q, Heard, nr), Below(Nrs(q), Nrs(jobs)) PROVE Below(Nrs(q), Nrs(jobs'))
  BY <1>4, <1>5 DEF Upcoming, Below
<1>6. ASSUME NEW s \in Sessions PROVE SessionInLine(s)'
  <2> DEFINE d == sess[s]
  <2>1. sess' = sess /\ slot' = slot /\ SessionInLine(s)
    BY DEF InLine
  <2>2. d.alive => Line(d, Heard, nr', Nrs(jobs'))
    BY <2>1, <1>3, <1>5 DEF SessionInLine, Line
  <2>3. QED
    BY <2>1, <2>2, <1>1, <1>2 DEF SessionInLine
<1>7. slot'.kind = "spawning" => Buffered(slot'.buffer, Heard', nr', Nrs(jobs'))
  BY <1>2, <1>3, <1>5 DEF InLine, Buffered
<1>8. QED
  BY <1>1, <1>2, <1>4, <1>6, <1>7 DEF InLine, LineStep

(* A step in which one session, the one in the slot, takes commands or     *)
(* hears one.                                                              *)
LEMMA FewerHeard ==
  ASSUME NEW q, NEW n, NEW heard, NEW G, G \subseteq heard, Upcoming(q, heard, n)
  PROVE  Upcoming(q, G, n)
BY DEF Upcoming, Below

LEMMA OneLine ==
  ASSUME InLine, DOMAIN sess = Sessions, NEW s \in Sessions, NEW new,
         sess' = [sess EXCEPT ![s] = new], nr' = nr,
         slot'.kind = "ready", slot'.session = s, \A t \in Sessions : Owes(sess[t]) => t = s,
         HasLine(new), new.task # "none",
         Line(new, Heard \cup {new.heard}, nr, Nrs(jobs')),
         Upcoming(jobs', Heard \cup {new.heard}, nr),
         new.heard = sess[s].heard \/ (new.heard \in 0..nr /\ Below(Heard, {new.heard}))
  PROVE  LineStep
<1>1. sess'[s] = new /\ \A t \in Sessions : t # s => sess'[t] = sess[t]
  OBVIOUS
<1>2. Heard' \subseteq Heard \cup {new.heard}
  BY <1>1 DEF Heard
<1>3. Rises
  <2>1. SUFFICES ASSUME NEW t \in Sessions, new.heard # sess[s].heard PROVE new.heard > sess[t].heard
    BY <1>1 DEF Rises
  <2>2. sess[t].heard \in Heard /\ sess[t].heard \in Nat /\ new.heard \in Nat
    <3>1. sess[t].heard \in 0..nr /\ nr \in Nat
      BY DEF InLine, SessionInLine
    <3>2. sess[t].heard \in Heard
      BY DEF Heard
    <3>3. QED
      BY <2>1, <3>1, <3>2
  <2>3. sess[t].heard < new.heard
    BY <2>1, <2>2 DEF Below
  <2>4. QED
    BY <2>2, <2>3
<1>4. Upcoming(jobs', Heard', nr)
  BY <1>2, FewerHeard
<1>5. SessionInLine(s)'
  <2>1. new.heard \in 0..nr
    BY DEF InLine, SessionInLine
  <2>2. Line(new, Heard', nr, Nrs(jobs'))
    BY <1>2, FewerHeard DEF Line
  <2>3. IsQueue(new.deferred) /\ IsQueue(new.commands)
    BY DEF Line, Upcoming
  <2>4. QED
    BY <1>1, <2>1, <2>2, <2>3 DEF SessionInLine
<1>6. ASSUME NEW t \in Sessions, t # s PROVE SessionInLine(t)'
  <2> DEFINE d == sess[t]
  <2>1. sess'[t] = d /\ SessionInLine(t) /\ ~Owes(d)
    BY <1>1, <1>6 DEF InLine
  <2>2. d.alive => d.deferred = <<>> /\ d.commands = <<>>
    BY <2>1 DEF Owes
  <2>3. d.alive => Line(d, Heard', nr, Nrs(jobs'))
    BY <2>2, UpcomingEmpty, EmptyQ DEF Line, Below
  <2> HIDE DEF d
  <2>4. /\ HasLine(d) /\ d.heard \in 0..nr /\ IsQueue(d.deferred) /\ IsQueue(d.commands)
        /\ d.task = "none" => d.deferred = <<>> /\ d.commands = <<>>
    BY <2>1 DEF SessionInLine, d
  <2>5. QED
    BY <2>1, <2>3, <2>4 DEF SessionInLine
<1>7. QED
  BY <1>3, <1>4, <1>5, <1>6 DEF InLine, LineStep

LEMMA HeadUpcoming ==
  ASSUME NEW q, NEW heard, NEW n, Upcoming(q, heard, n), q # <<>>
  PROVE  /\ Head(q).n \in Nat /\ Head(q).n < n + 1
         /\ Below(heard, {Head(q).n}) /\ Below({Head(q).n}, Nrs(Tail(q)))
         /\ Head(q).n \in Nrs(q)
<1>1. Head(q).n \in Nrs(q) /\ Head(q).n \in Nat /\ Below({Head(q).n}, Nrs(Tail(q)))
  BY TailQ DEF Upcoming
<1>2. QED
  BY <1>1 DEF Upcoming, Below

(* Only the session in the slot has commands waiting. *)
LEMMA OneOwes ==
  ASSUME InLine, NEW s \in Sessions, Owes(sess[s])
  PROVE  slot.kind = "ready" /\ slot.session = s /\ \A t \in Sessions : Owes(sess[t]) => t = s
BY DEF InLine, SessionInLine

(* A step that changes one session and leaves it quiet.                    *)
LEMMA QuietSession ==
  ASSUME InLine, DOMAIN sess = Sessions, NEW s \in Sessions, NEW new,
         sess' = [sess EXCEPT ![s] = new], Quiet(new, sess[s]),
         UNCHANGED <<nr, jobs>>, slot' = slot
  PROVE  LineStep
<1>1. sess'[s] = new /\ \A t \in Sessions : t # s => sess'[t] = sess[t]
  OBVIOUS
<1>2. \A t \in Sessions : Quiet(sess'[t], sess[t])
  BY <1>1, SelfQuiet
<1>3. ASSUME NEW t \in Sessions, Owes(sess'[t]) PROVE slot'.kind = "ready" /\ slot'.session = t
  <2>1. Owes(sess[t])
    BY <1>2, <1>3 DEF Quiet, Owes
  <2>2. QED
    BY <2>1, OneOwes
<1>4. slot'.kind = "spawning" => Buffered(slot'.buffer, Heard, nr, Nrs(jobs'))
  BY DEF InLine
<1>5. QED
  BY <1>2, <1>3, <1>4, QuietLine

LEMMA OnCommandLine ==
  ASSUME IInv, InLine, NEW s \in Sessions, OnCommand(s)
  PROVE  LineStep
<1> DEFINE d == [sess[s] EXCEPT !.commands = Tail(@)]
           c == Head(sess[s].commands)
           new == Command(d, c)
           q == sess[s].commands
           p == sess[s].deferred
<1>1. /\ sess[s].task = "driving" /\ q # <<>> /\ UNCHANGED <<nr, jobs, slot>>
      /\ sess' = [sess EXCEPT ![s] = new]
  BY DEF OnCommand, panelVars
<1>2. DOMAIN sess = Sessions /\ SessionInLine(s)
  BY DEF IInv, Typed, InLine
<1>3. /\ HasLine(d) /\ d.commands = Tail(q) /\ d.deferred = p /\ d.heard = sess[s].heard
      /\ d.alive = sess[s].alive /\ d.open = sess[s].open /\ d.task = "driving"
  BY <1>1, <1>2 DEF SessionInLine, HasLine, LineFields
<1> HIDE DEF d, c
<1>4. /\ HasLine(new) /\ new.alive = d.alive /\ new.task = d.task
      /\ new.commands = d.commands /\ new.open = d.open
      /\ ~d.open => new.deferred = Append(d.deferred, c) /\ new.heard = d.heard
      /\ d.open => new.deferred = d.deferred /\ new.heard \in {d.heard, c.n}
      /\ ~d.alive => new.heard = d.heard
  BY <1>3, CommandLine
<1>5. IsQueue(p) /\ IsQueue(q) /\ IsQueue(Tail(q)) /\ c.n \in Nat /\ IsQueue(Append(p, c))
  BY <1>1, <1>2, TailQ, AppendQ DEF SessionInLine, c
<1> HIDE DEF new
<1>6. CASE ~sess[s].alive
  <2>1. IsQueue(new.deferred)
    BY <1>3, <1>4, <1>5
  <2>2. Quiet(new, sess[s])
    BY <1>1, <1>3, <1>4, <1>5, <1>6, <2>1 DEF Quiet
  <2>3. QED
    BY <1>1, <1>2, <2>2, QuietSession
<1>7. CASE sess[s].alive
  <2>1. Line(sess[s], Heard, nr, Nrs(jobs)) /\ Owes(sess[s])
    BY <1>1, <1>2, <1>7 DEF SessionInLine, Owes
  <2>2. Upcoming(p, Heard, nr) /\ Upcoming(q, Heard, nr) /\ Upcoming(jobs, Heard, nr) /\ nr \in Nat
    BY <2>1 DEF Line, InLine
  <2>3. Below(Nrs(p), Nrs(q)) /\ Below(Nrs(p), Nrs(jobs)) /\ Below(Nrs(q), Nrs(jobs))
        /\ (sess[s].open => p = <<>>)
    BY <2>1 DEF Line
  <2>4. /\ Upcoming(Tail(q), Heard, nr) /\ Nrs(Tail(q)) \subseteq Nrs(q)
        /\ c.n < nr + 1 /\ Below(Heard, {c.n}) /\ Below({c.n}, Nrs(Tail(q))) /\ c.n \in Nrs(q)
    BY <1>1, <2>2, TailUpcoming, HeadUpcoming DEF c
  <2>5. slot'.kind = "ready" /\ slot'.session = s /\ \A t \in Sessions : Owes(sess[t]) => t = s
    BY <1>1, <2>1, OneOwes
  <2> DEFINE heard == Heard \cup {new.heard}
  <2>6. CASE d.open
    <3>1. new.heard \in {sess[s].heard, c.n} /\ new.deferred = <<>> /\ new.commands = Tail(q)
      BY <1>3, <1>4, <2>3, <2>6
    <3>2. sess[s].heard \in Heard
      BY DEF Heard
    <3>3. \A a \in heard : a \in Heard \/ a = c.n
      BY <3>1, <3>2
    <3> HIDE DEF heard
    <3>4. Upcoming(Tail(q), heard, nr) /\ Upcoming(jobs, heard, nr)
      BY <2>2, <2>3, <2>4, <3>3 DEF Upcoming, Below
    <3>5. Line(new, heard, nr, Nrs(jobs))
      BY <2>3, <2>4, <3>1, <3>4, UpcomingEmpty, EmptyQ DEF Line, Below
    <3>6. new.heard = sess[s].heard \/ (new.heard \in 0..nr /\ Below(Heard, {new.heard}))
      <4>1. c.n \in 0..nr
        BY <1>5, <2>2, <2>4
      <4>2. QED
        BY <4>1, <2>4, <3>1
    <3>7. QED
      BY <1>1, <1>2, <1>3, <1>4, <2>5, <3>4, <3>5, <3>6, OneLine DEF heard
  <2>7. CASE ~d.open
    <3>1. new.heard = sess[s].heard /\ new.deferred = Append(p, c) /\ new.commands = Tail(q)
          /\ ~new.open
      BY <1>3, <1>4, <2>7
    <3>2. heard = Heard
      BY <3>1 DEF Heard
    <3>3. /\ Nrs(Append(p, c)) = Nrs(p) \cup {c.n} /\ Rising(Append(p, c))
      <4>1. Rising(p) /\ Below(Nrs(p), {c.n})
        BY <2>2, <2>3, <2>4 DEF Upcoming, Below
      <4>2. QED
        BY <4>1, <1>5, AppendQ
    <3>4. Upcoming(Append(p, c), Heard, nr)
      BY <1>5, <2>2, <2>4, <3>3 DEF Upcoming, Below
    <3>5. Line(new, Heard, nr, Nrs(jobs))
      <4>1. /\ Below(Nrs(Append(p, c)), Nrs(Tail(q))) /\ Below(Nrs(Append(p, c)), Nrs(jobs))
            /\ Below(Nrs(Tail(q)), Nrs(jobs))
        BY <2>3, <2>4, <3>3 DEF Below
      <4>2. QED
        BY <2>4, <3>1, <3>4, <4>1 DEF Line
    <3> HIDE DEF heard
    <3>6. QED
      BY <1>1, <1>2, <1>3, <1>4, <2>2, <2>5, <3>1, <3>2, <3>5, OneLine DEF heard
  <2>8. QED
    BY <2>6, <2>7
<1>8. QED
  BY <1>6, <1>7

(* What a handler leaves of a session's queues: all of it, dead or alive.  *)
SameLine(new, d) ==
  /\ HasLine(new) /\ new.heard = d.heard
  /\ new.deferred = d.deferred /\ new.commands = d.commands /\ new.open = d.open
  /\ new.alive => d.alive
  /\ new.task = "none" => d.task = "none"

LEMMA SameIsQuiet ==
  ASSUME InLine, NEW s \in Sessions, NEW new, SameLine(new, sess[s])
  PROVE  Quiet(new, sess[s])
BY DEF InLine, SessionInLine, SameLine, Quiet, Line

LEMMA OpenedInLine ==
  ASSUME IInv, InLine, NEW s \in Sessions, NEW d, SameLine(d, sess[s]), d.alive = sess[s].alive,
         d.task # "none", sess' = [sess EXCEPT ![s] = Opened(d)], UNCHANGED <<nr, jobs, slot>>
  PROVE  LineStep
<1> DEFINE new == Opened(d)
           p == sess[s].deferred
           q == sess[s].commands
<1>1. DOMAIN sess = Sessions /\ SessionInLine(s) /\ IsQueue(p) /\ IsQueue(q) /\ nr \in Nat
  BY DEF IInv, Typed, InLine, SessionInLine
<1>2. /\ HasLine(new) /\ new.alive = sess[s].alive /\ new.task # "none"
      /\ new.commands = q /\ new.deferred = <<>>
      /\ new.heard \in {sess[s].heard} \cup Nrs(p)
      /\ ~sess[s].alive => new.heard = sess[s].heard
  BY <1>1, OpenedLine DEF SameLine
<1> HIDE DEF new
<1>3. CASE ~Owes(sess[s])
  <2>1. new.heard = sess[s].heard
    BY <1>2, <1>3, EmptyQ DEF Owes
  <2>2. Quiet(new, sess[s])
    BY <1>1, <1>2, <2>1, EmptyQ DEF Quiet
  <2>3. QED
    BY <1>1, <2>2, QuietSession DEF new
<1>4. CASE Owes(sess[s])
  <2>1. slot'.kind = "ready" /\ slot'.session = s /\ \A t \in Sessions : Owes(sess[t]) => t = s
    BY <1>4, OneOwes
  <2>2. /\ Upcoming(p, Heard, nr) /\ Upcoming(q, Heard, nr) /\ Upcoming(jobs, Heard, nr)
        /\ Below(Nrs(p), Nrs(q)) /\ Below(Nrs(p), Nrs(jobs)) /\ Below(Nrs(q), Nrs(jobs))
    BY <1>1, <1>4 DEF SessionInLine, Owes, Line, InLine
  <2> DEFINE heard == Heard \cup {new.heard}
  <2>3. \A a \in heard : a \in Heard \/ a \in Nrs(p)
    BY <1>2 DEF Heard
  <2> HIDE DEF heard
  <2>4. Upcoming(q, heard, nr) /\ Upcoming(jobs, heard, nr)
    BY <2>2, <2>3 DEF Upcoming, Below
  <2>5. Line(new, heard, nr, Nrs(jobs))
    BY <1>2, <2>2, <2>4, UpcomingEmpty, EmptyQ DEF Line, Below
  <2>6. new.heard = sess[s].heard \/ (new.heard \in 0..nr /\ Below(Heard, {new.heard}))
    <3>1. ASSUME NEW x \in Nrs(p) PROVE x \in 0..nr /\ Below(Heard, {x})
      <4>1. x \in Nat /\ x < nr + 1
        BY <1>1, <2>2, NrsNat DEF Upcoming, Below
      <4>2. QED
        BY <4>1, <1>1, <2>2 DEF Upcoming, Below
    <3>2. QED
      BY <1>2, <3>1
  <2>7. QED
    BY <1>1, <1>2, <2>1, <2>4, <2>5, <2>6, OneLine DEF heard, new
<1>5. QED
  BY <1>3, <1>4

LEMMA OnFrameLine ==
  ASSUME IInv, InLine, NEW s \in Sessions, OnFrame(s)
  PROVE  LineStep
<1> DEFINE d == [sess[s] EXCEPT !.frames = Tail(@)]
           Becomes(new) == sess' = [sess EXCEPT ![s] = new]
<1>1. /\ DOMAIN sess = Sessions /\ HasLine(sess[s]) /\ sess[s].task = "driving"
      /\ UNCHANGED <<nr, jobs, slot>>
  BY DEF IInv, Typed, InLine, SessionInLine, OnFrame, panelVars
<1>2. SameLine(d, sess[s]) /\ HasLine(d) /\ d.alive = sess[s].alive /\ d.task = "driving"
  BY <1>1 DEF SameLine, HasLine, LineFields
<1>3. \/ Becomes(End(d))
      \/ Becomes(Write(d, {"session/new"}, 0))
      \/ Becomes(Opened(d))
      \/ Becomes(Write([d EXCEPT !.authed = TRUE], {"authenticate"}, 0))
      \/ Becomes([d EXCEPT !.crashed = TRUE])
      \/ Becomes([d EXCEPT !.permissions = {}])
      \/ Becomes([d EXCEPT !.asked = @ + 1, !.permissions = @ \cup {d.asked + 1}])
  BY DEF OnFrame
<1> HIDE DEF d
<1>4. ASSUME NEW new, SameLine(new, d), Becomes(new) PROVE LineStep
  <2>1. SameLine(new, sess[s])
    BY <1>2, <1>4 DEF SameLine
  <2>2. QED
    BY <2>1, <1>1, <1>4, SameIsQuiet, QuietSession
<1>5. CASE Becomes(End(d))
  <2>1. /\ HasLine(End(d)) /\ End(d).task = "ended" /\ End(d).commands = <<>>
        /\ End(d).deferred = <<>> /\ End(d).heard = sess[s].heard
    BY <1>2 DEF End, HasLine, LineFields, SameLine
  <2>2. Quiet(End(d), sess[s])
    BY <2>1, EmptyQ DEF Quiet
  <2>3. QED
    BY <2>2, <1>1, <1>5, QuietSession
<1>6. CASE Becomes(Opened(d))
  BY <1>1, <1>2, <1>6, OpenedInLine
<1>7. SameLine(Write(d, {"session/new"}, 0), d)
  BY <1>2, WriteLine DEF SameQueues, SameLine
<1>8. SameLine(Write([d EXCEPT !.authed = TRUE], {"authenticate"}, 0), d)
  <2> DEFINE e == [d EXCEPT !.authed = TRUE]
  <2>1. SameLine(e, d)
    BY <1>2 DEF SameLine, HasLine, LineFields
  <2> HIDE DEF e
  <2>2. HasLine(e)
    BY <2>1 DEF SameLine
  <2>3. SameQueues(Write(e, {"authenticate"}, 0), e) /\ Write(e, {"authenticate"}, 0).heard = e.heard
    BY <2>2, WriteLine
  <2>4. SameLine(Write(e, {"authenticate"}, 0), d)
    BY <2>1, <2>3 DEF SameLine, SameQueues
  <2>5. QED
    BY <2>4 DEF e
<1>9. /\ SameLine([d EXCEPT !.crashed = TRUE], d) /\ SameLine([d EXCEPT !.permissions = {}], d)
      /\ SameLine([d EXCEPT !.asked = @ + 1, !.permissions = @ \cup {d.asked + 1}], d)
  BY <1>2 DEF SameLine, HasLine, LineFields
<1>10. QED
  BY <1>3, <1>4, <1>5, <1>6, <1>7, <1>8, <1>9

LEMMA TeardownLine ==
  ASSUME IInv, InLine, NEW s \in Sessions, TakeChild(s) \/ Reap(s) \/ Report(s) \/ Abandon(s)
  PROVE  LineStep
<1>1. /\ DOMAIN sess = Sessions /\ HasLine(sess[s]) /\ UNCHANGED <<nr, jobs, slot>>
  BY DEF IInv, Typed, InLine, SessionInLine, TakeChild, Reap, Report, Abandon, panelVars
<1>2. ASSUME NEW new, SameLine(new, sess[s]), sess' = [sess EXCEPT ![s] = new] PROVE LineStep
  BY <1>2, <1>1, SameIsQuiet, QuietSession
<1>3. CASE TakeChild(s)
  <2> DEFINE new == IF sess[s].child = "slot"
                    THEN [Kill(sess[s]) EXCEPT !.child = "taken", !.task = "reaping"]
                    ELSE [sess[s] EXCEPT !.task = "reporting"]
  <2>1. sess' = [sess EXCEPT ![s] = new]
    BY <1>3, <1>1 DEF TakeChild
  <2>2. SameLine(new, sess[s])
    BY <1>1 DEF SameLine, HasLine, LineFields, Kill
  <2>3. QED
    BY <2>1, <2>2, <1>2
<1>4. CASE Reap(s)
  <2> DEFINE new == [sess[s] EXCEPT !.child = "collected", !.task = "reporting"]
  <2>1. sess' = [sess EXCEPT ![s] = new]
    BY <1>4, <1>1 DEF Reap
  <2>2. SameLine(new, sess[s])
    BY <1>1 DEF SameLine, HasLine, LineFields
  <2>3. QED
    BY <2>1, <2>2, <1>2
<1>5. CASE Report(s)
  <2> DEFINE new == [sess[s] EXCEPT !.task = "over", !.crashed = TRUE]
  <2>1. sess' = [sess EXCEPT ![s] = new]
    BY <1>5, <1>1 DEF Report
  <2>2. SameLine(new, sess[s])
    BY <1>1 DEF SameLine, HasLine, LineFields
  <2>3. QED
    BY <2>1, <2>2, <1>2
<1>6. CASE Abandon(s)
  <2> DEFINE d == End(sess[s])
             child == IF d.child = "taken" THEN "collected" ELSE d.child
             new == [d EXCEPT !.task = "over", !.child = child]
  <2>1. sess' = [sess EXCEPT ![s] = new]
    BY <1>6, <1>1, Zenon DEF Abandon
  <2>2. /\ HasLine(new) /\ new.task = "over" /\ new.commands = <<>>
        /\ new.deferred = <<>> /\ new.heard = sess[s].heard
    BY <1>1 DEF End, HasLine, LineFields
  <2> HIDE DEF new
  <2>3. Quiet(new, sess[s])
    BY <2>2, EmptyQ DEF Quiet
  <2>4. QED
    BY <2>1, <2>3, <1>1, QuietSession
<1>7. QED
  BY <1>3, <1>4, <1>5, <1>6

LEMMA ProcessLine ==
  ASSUME IInv, InLine, NEW s \in Sessions, Process(s)
  PROVE  LineStep
<1>1. /\ DOMAIN sess = Sessions /\ HasLine(sess[s]) /\ UNCHANGED <<nr, jobs, slot>>
  BY DEF IInv, Typed, InLine, SessionInLine, Process, AgentReplies, AgentAsks, AgentDies,
         AgentStopsReading, panelVars
<1>2. ASSUME NEW new, SameLine(new, sess[s]), sess' = [sess EXCEPT ![s] = new] PROVE LineStep
  BY <1>2, <1>1, SameIsQuiet, QuietSession
<1>3. CASE AgentReplies(s)
  <2>1. PICK request, reply :
          sess' = [sess EXCEPT ![s] = Say([sess[s] EXCEPT !.owed = @ \ {request}], reply)]
    BY <1>3, <1>1, Zenon DEF AgentReplies
  <2>2. SameLine(Say([sess[s] EXCEPT !.owed = @ \ {request}], reply), sess[s])
    BY <1>1 DEF SameLine, HasLine, LineFields, Say
  <2>3. QED
    BY <2>1, <2>2, <1>2
<1>4. CASE AgentAsks(s)
  <2>1. sess' = [sess EXCEPT ![s] = Say(sess[s], "permission")]
    BY <1>4, <1>1 DEF AgentAsks
  <2>2. SameLine(Say(sess[s], "permission"), sess[s])
    BY <1>1 DEF SameLine, HasLine, LineFields, Say
  <2>3. QED
    BY <2>1, <2>2, <1>2
<1>5. CASE AgentDies(s)
  <2>1. sess' = [sess EXCEPT ![s] = Say(Kill(sess[s]), "end")]
    BY <1>5, <1>1 DEF AgentDies
  <2>2. SameLine(Say(Kill(sess[s]), "end"), sess[s])
    BY <1>1 DEF SameLine, HasLine, LineFields, Say, Kill
  <2>3. QED
    BY <2>1, <2>2, <1>2
<1>6. CASE AgentStopsReading(s)
  <2>1. sess' = [sess EXCEPT ![s] = [sess[s] EXCEPT !.stdin = FALSE]]
    BY <1>6, <1>1 DEF AgentStopsReading
  <2>2. SameLine([sess[s] EXCEPT !.stdin = FALSE], sess[s])
    BY <1>1 DEF SameLine, HasLine, LineFields
  <2>3. QED
    BY <2>1, <2>2, <1>2
<1>7. QED
  BY <1>3, <1>4, <1>5, <1>6 DEF Process

(* A step in which the commands and those who hear them do not move.       *)
LEMMA RestLine ==
  ASSUME InLine, UNCHANGED <<nr, jobs, sess>>, slot' = slot
  PROVE  LineStep
<1>1. \A s \in Sessions : Quiet(sess'[s], sess[s])
  BY SelfQuiet
<1>2. \A s \in Sessions : Owes(sess'[s]) => slot'.kind = "ready" /\ slot'.session = s
  BY OneOwes
<1>3. slot'.kind = "spawning" => Buffered(slot'.buffer, Heard, nr, Nrs(jobs'))
  BY DEF InLine
<1>4. QED
  BY <1>1, <1>2, <1>3, QuietLine

LEMMA PanelLine ==
  ASSUME InLine, Keys \/ Fold \/ UNCHANGED vars
  PROVE  LineStep
<1>1. UNCHANGED <<slot, sess>>
  BY DEF Keys, Submit, CancelTurn, AnswerQuestion, Fold, vars, panelVars
<1>2. \/ \E kind, id : Issue(kind, id)
      \/ UNCHANGED <<nr, jobs>>
  <2>1. ASSUME Keys PROVE \E kind, id : Issue(kind, id)
    BY <2>1, Zenon DEF Keys, Submit, CancelTurn, AnswerQuestion
  <2>2. ASSUME Fold PROVE (\E kind, id : Issue(kind, id)) \/ UNCHANGED <<nr, jobs>>
    <3> DEFINE m == Head(msgs)
    <3>1. CASE m.kind = "permission"
      <4>1. FoldPermission(m.id)
        BY <2>2, <3>1 DEF Fold
      <4>2. QED
        BY <4>1 DEF FoldPermission
    <3>2. CASE m.kind # "permission"
      BY <2>2, <3>2 DEF Fold
    <3>3. QED
      BY <3>1, <3>2
  <2>3. QED
    BY <2>1, <2>2 DEF vars, panelVars
<1>3. QED
  BY <1>1, <1>2, IssueLine, RestLine

LEMMA AttemptLine ==
  ASSUME IInv, InLine, NEW g \in Sessions, Resolve(g) \/ StartWatch(g) \/ Launch(g)
  PROVE  LineStep
<1>1. /\ DOMAIN sess = Sessions /\ HasLine(sess[g]) /\ UNCHANGED <<nr, jobs, slot>>
  BY DEF IInv, Typed, InLine, SessionInLine, Resolve, StartWatch, Launch, panelVars
<1>2. CASE Resolve(g)
  <2>1. sess' = sess
    BY <1>2 DEF Resolve
  <2>2. QED
    BY <1>1, <2>1, RestLine
<1>3. CASE StartWatch(g)
  <2> DEFINE new == [sess[g] EXCEPT !.watched = TRUE]
  <2>1. sess' = sess \/ sess' = [sess EXCEPT ![g] = new]
    BY <1>3 DEF StartWatch
  <2>2. SameLine(new, sess[g])
    BY <1>1 DEF SameLine, HasLine, LineFields
  <2>3. QED
    BY <1>1, <2>1, <2>2, RestLine, SameIsQuiet, QuietSession
<1>4. CASE Launch(g)
  <2> DEFINE new == [sess[g] EXCEPT !.task = "driving", !.child = "slot",
                                    !.alive = TRUE, !.owed = {"initialize"}]
  <2>1. sess' = sess \/ sess' = [sess EXCEPT ![g] = new]
    BY <1>4 DEF Launch
  <2>2. sess[g].task = "none"
    BY <1>4 DEF Launch, IInv, Unlaunched, Fresh
  <2>3. sess[g].deferred = <<>> /\ sess[g].commands = <<>>
    BY <2>2 DEF InLine, SessionInLine
  <2>4. /\ HasLine(new) /\ new.heard = sess[g].heard /\ new.task = "driving"
        /\ new.deferred = <<>> /\ new.commands = <<>>
    BY <1>1, <2>3 DEF HasLine, LineFields
  <2> HIDE DEF new
  <2>5. Quiet(new, sess[g])
    BY <2>4, EmptyQ DEF Quiet
  <2>6. QED
    BY <1>1, <2>1, <2>5, RestLine, QuietSession
<1>5. QED
  BY <1>2, <1>3, <1>4

LEMMA FailLine ==
  ASSUME InLine, NEW g \in Sessions, Fail(g) \/ ReportFailure(g)
  PROVE  LineStep
<1>1. /\ UNCHANGED <<nr, jobs, sess>>
      /\ slot' = slot \/ (slot.kind = "spawning" /\ slot'.kind = "idle")
  BY DEF Fail, ReportFailure, panelVars, Idle
<1>2. \A s \in Sessions : Quiet(sess'[s], sess[s])
  BY <1>1, SelfQuiet
<1>3. \A s \in Sessions : Owes(sess'[s]) => slot'.kind = "ready" /\ slot'.session = s
  BY <1>1, OneOwes
<1>4. slot'.kind = "spawning" => Buffered(slot'.buffer, Heard, nr, Nrs(jobs'))
  BY <1>1 DEF InLine
<1>5. QED
  BY <1>1, <1>2, <1>3, <1>4, QuietLine

(* A handle dropped leaves no living session with commands. *)
LEMMA DropLine ==
  ASSUME IInv, InLine, NEW s \in Sessions, sess[s].task # "none"
  PROVE  Quiet(Drop(sess[s]), sess[s]) /\ ~Drop(sess[s]).alive
<1>1. HasFields(sess[s]) /\ Signalled(sess[s]) /\ HasLine(sess[s])
  BY DEF IInv, Typed, AllSignalled, InLine, SessionInLine
<1>2. SameLine(Drop(sess[s]), sess[s])
  BY <1>1 DEF SameLine, HasLine, LineFields, Drop, Kill
<1>3. Drop(sess[s]).dropped /\ Signalled(Drop(sess[s]))
  BY <1>1, DropSignals DEF Drop, Kill, HasFields, Fields
<1>4. QED
  BY <1>2, <1>3, SameIsQuiet DEF Signalled

LEMMA ShutdownLine == ASSUME IInv, InLine, Shutdown PROVE LineStep
<1>1. /\ UNCHANGED <<nr, jobs>> /\ slot'.kind = "idle" /\ DOMAIN sess = Sessions
      /\ sess' = IF slot.kind = "ready" THEN [sess EXCEPT ![slot.session] = Drop(@)] ELSE sess
  BY DEF Shutdown, Idle, IInv, Typed
<1>2. slot.kind = "ready" => slot.session \in Sessions /\ sess[slot.session].task # "none"
  BY DEF IInv, Typed, OneAttempt
<1>3. \A s \in Sessions : Quiet(sess'[s], sess[s]) /\ ~Owes(sess'[s])
  <2> SUFFICES ASSUME NEW s \in Sessions PROVE Quiet(sess'[s], sess[s]) /\ ~Owes(sess'[s])
    OBVIOUS
  <2>1. CASE slot.kind = "ready" /\ s = slot.session
    BY <1>1, <1>2, <2>1, DropLine DEF Owes
  <2>2. CASE ~(slot.kind = "ready" /\ s = slot.session)
    BY <1>1, <1>2, <2>2, SelfQuiet, OneOwes
  <2>3. QED
    BY <2>1, <2>2
<1>4. QED
  BY <1>1, <1>3, QuietLine

(* Commands sent to a session's channel go behind those it has. *)
LEMMA SendLine ==
  ASSUME InLine, NEW s \in Sessions, sess[s].task # "none", NEW cs, IsQueue(cs)
  PROVE  LET new == Send(sess[s], cs)
         IN  /\ HasLine(new) /\ new.heard = sess[s].heard /\ new.task = sess[s].task
             /\ new.alive = sess[s].alive /\ new.deferred = sess[s].deferred
             /\ new.open = sess[s].open /\ IsQueue(new.commands)
             /\ new.commands = IF sess[s].task = "driving" THEN sess[s].commands \o cs
                               ELSE sess[s].commands
             /\ ~new.alive => Quiet(new, sess[s])
<1> DEFINE d == sess[s]
           new == Send(d, cs)
<1>1. HasLine(d) /\ IsQueue(d.commands) /\ IsQueue(d.deferred)
  BY DEF InLine, SessionInLine
<1>2. IsQueue(d.commands \o cs)
  BY <1>1, ConcatQ
<1> HIDE DEF d
<1>3. /\ HasLine(new) /\ new.heard = d.heard /\ new.task = d.task
      /\ new.alive = d.alive /\ new.deferred = d.deferred /\ new.open = d.open
      /\ new.commands = IF d.task = "driving" THEN d.commands \o cs ELSE d.commands
  BY <1>1 DEF Send, HasLine, LineFields
<1> HIDE DEF new
<1>4. d.task # "none"
  BY DEF d
<1>5. ~new.alive => Quiet(new, d)
  BY <1>1, <1>2, <1>3, <1>4 DEF Quiet
<1>6. QED
  BY <1>1, <1>2, <1>3, <1>5 DEF d, new

LEMMA PublishLine == ASSUME IInv, InLine, NEW g \in Sessions, Publish(g) PROVE LineStep
<1>1. /\ UNCHANGED <<nr, jobs>> /\ slot'.kind = "ready" /\ slot'.session = g
      /\ DOMAIN sess = Sessions /\ slot.kind \in {"idle", "spawning", "ready"}
      /\ slot.kind = "ready" => slot.session \in Sessions /\ sess[slot.session].task # "none"
  <2>1. UNCHANGED <<nr, jobs>> /\ slot' = Ready(g)
    BY DEF Publish, panelVars
  <2>2. slot'.kind = "ready" /\ slot'.session = g
    BY <2>1 DEF Ready
  <2>3. QED
    BY <2>1, <2>2 DEF IInv, Typed, OneAttempt
<1>2. sess[g].task # "none" /\ (slot.kind = "ready" => slot.session # g)
  BY DEF Publish, IInv, Unlaunched, OneAttempt
<1>3. CASE slot.kind = "idle"
  <2>1. sess' = sess /\ \A t \in Sessions : ~Owes(sess[t])
    BY <1>3, OneOwes DEF Publish
  <2>2. QED
    BY <1>1, <2>1, SelfQuiet, QuietLine
<1>4. CASE slot.kind = "ready"
  <2>1. sess' = [sess EXCEPT ![slot.session] = Drop(sess[slot.session])]
    BY <1>4 DEF Publish
  <2>2. \A t \in Sessions : Quiet(sess'[t], sess[t]) /\ ~Owes(sess'[t])
    <3> SUFFICES ASSUME NEW t \in Sessions PROVE Quiet(sess'[t], sess[t]) /\ ~Owes(sess'[t])
      OBVIOUS
    <3>1. CASE t = slot.session
      BY <1>1, <1>4, <2>1, <3>1, DropLine DEF Owes
    <3>2. CASE t # slot.session
      BY <1>1, <1>4, <2>1, <3>2, SelfQuiet, OneOwes
    <3>3. QED
      BY <3>1, <3>2
  <2>3. QED
    BY <1>1, <2>2, QuietLine
<1>5. CASE slot.kind = "spawning"
  <2> DEFINE new == Send(sess[g], slot.buffer)
             b == slot.buffer
  <2>1. sess' = [sess EXCEPT ![g] = new] /\ \A t \in Sessions : ~Owes(sess[t])
    BY <1>5, OneOwes DEF Publish
  <2>2. Upcoming(b, Heard, nr) /\ Below(Nrs(b), Nrs(jobs)) /\ IsQueue(b)
        /\ Upcoming(jobs, Heard, nr)
    BY <1>5 DEF InLine, Buffered, Upcoming
  <2>3. /\ HasLine(new) /\ new.heard = sess[g].heard /\ new.task # "none"
        /\ new.alive = sess[g].alive /\ new.deferred = sess[g].deferred
        /\ new.commands = IF sess[g].task = "driving" THEN sess[g].commands \o b ELSE sess[g].commands
        /\ ~new.alive => Quiet(new, sess[g])
    BY <1>2, <2>2, SendLine
  <2> HIDE DEF new
  <2>4. CASE ~new.alive
    <3>1. \A t \in Sessions : Quiet(sess'[t], sess[t]) /\ ~Owes(sess'[t])
      BY <1>1, <2>1, <2>3, <2>4, SelfQuiet DEF Owes
    <3>2. QED
      BY <1>1, <3>1, QuietLine
  <2>5. CASE new.alive
    <3>1. new.deferred = <<>> /\ sess[g].commands = <<>> /\ IsQueue(sess[g].commands)
      BY <2>1, <2>3, <2>5, EmptyQ DEF Owes
    <3>2. new.commands \in {<<>>, b}
      BY <2>2, <2>3, <3>1, ConcatQ
    <3>3. Heard \cup {new.heard} = Heard
      BY <2>3 DEF Heard
    <3>4. Line(new, Heard, nr, Nrs(jobs))
      BY <2>2, <3>1, <3>2, UpcomingEmpty, EmptyQ DEF Line, Below
    <3>5. QED
      BY <1>1, <2>1, <2>2, <2>3, <3>3, <3>4, OneLine
  <2>6. QED
    BY <2>4, <2>5
<1>6. QED
  BY <1>1, <1>3, <1>4, <1>5

(* The context worker's next job is the earliest there is.                 *)
LEMMA FirstJob ==
  ASSUME InLine, jobs # <<>>
  PROVE  /\ Head(jobs).n \in Nat /\ Head(jobs).n \in Nrs(jobs)
         /\ Below({Head(jobs).n}, Nrs(Tail(jobs))) /\ Nrs(Tail(jobs)) \subseteq Nrs(jobs)
         /\ Upcoming(Tail(jobs), Heard, nr)
         /\ \A q : Upcoming(q, Heard, nr) /\ Below(Nrs(q), Nrs(jobs)) =>
              /\ Upcoming(Append(q, Head(jobs)), Heard, nr)
              /\ Nrs(Append(q, Head(jobs))) = Nrs(q) \cup {Head(jobs).n}
              /\ Below(Nrs(Append(q, Head(jobs))), Nrs(Tail(jobs)))
<1> DEFINE c == Head(jobs)
<1>1. Upcoming(jobs, Heard, nr) /\ nr \in Nat
  BY DEF InLine
<1>2. /\ c.n \in Nat /\ c.n < nr + 1 /\ Below(Heard, {c.n}) /\ Below({c.n}, Nrs(Tail(jobs)))
      /\ c.n \in Nrs(jobs)
      /\ Upcoming(Tail(jobs), Heard, nr) /\ Nrs(Tail(jobs)) \subseteq Nrs(jobs)
  BY <1>1, HeadUpcoming, TailUpcoming
<1> HIDE DEF c
<1>3. ASSUME NEW q, Upcoming(q, Heard, nr), Below(Nrs(q), Nrs(jobs))
      PROVE  /\ Upcoming(Append(q, c), Heard, nr) /\ Nrs(Append(q, c)) = Nrs(q) \cup {c.n}
             /\ Below(Nrs(Append(q, c)), Nrs(Tail(jobs)))
  <2>1. IsQueue(q) /\ Rising(q) /\ Below(Nrs(q), {c.n})
    BY <1>2, <1>3 DEF Upcoming, Below
  <2>2. /\ IsQueue(Append(q, c)) /\ Nrs(Append(q, c)) = Nrs(q) \cup {c.n} /\ Rising(Append(q, c))
    BY <1>2, <2>1, AppendQ
  <2>3. Upcoming(Append(q, c), Heard, nr)
    BY <1>2, <1>3, <2>2 DEF Upcoming, Below
  <2>4. Below(Nrs(Append(q, c)), Nrs(Tail(jobs)))
    BY <1>2, <1>3, <2>2 DEF Below
  <2>5. QED
    BY <2>2, <2>3, <2>4
<1>4. QED
  BY <1>2, <1>3 DEF c

(* A command with no session to go to begins the buffer of a new attempt,  *)
(* or goes nowhere.                                                        *)
LEMMA DispatchIdleLine ==
  ASSUME InLine, jobs # <<>>, jobs' = Tail(jobs), nr' = nr, DispatchIdle(Head(jobs)),
         \A s \in Sessions : Quiet(sess'[s], sess[s]) /\ ~Owes(sess'[s])
  PROVE  LineStep
<1> DEFINE c == Head(jobs)
<1>1. (slot' = Spawning(<<c>>)) \/ slot' = Idle
  BY DEF DispatchIdle
<1>2. slot'.kind = "spawning" => slot'.buffer = <<c>>
  BY <1>1 DEF Spawning, Idle
<1>3. <<c>> = Append(<<>>, c)
  OBVIOUS
<1>4. Upcoming(<<>>, Heard, nr) /\ Below(Nrs(<<>>), Nrs(jobs))
  BY UpcomingEmpty, EmptyQ DEF Below
<1>5. Upcoming(Append(<<>>, c), Heard, nr) /\ Below(Nrs(Append(<<>>, c)), Nrs(Tail(jobs)))
  BY <1>4, FirstJob
<1>6. Buffered(<<c>>, Heard, nr, Nrs(Tail(jobs)))
  BY <1>3, <1>5, Zenon DEF Buffered
<1> HIDE DEF c
<1>7. slot'.kind = "spawning" => Buffered(slot'.buffer, Heard, nr, Nrs(jobs'))
  BY <1>2, <1>6
<1>8. QED
  BY <1>7, QuietLine

LEMMA DispatchLine == ASSUME IInv, InLine, Dispatch PROVE LineStep
<1> DEFINE c == Head(jobs)
<1>1. /\ jobs # <<>> /\ jobs' = Tail(jobs) /\ nr' = nr /\ DOMAIN sess = Sessions
      /\ slot.kind \in {"idle", "spawning", "ready"}
  BY DEF Dispatch, panelVars, IInv, Typed
<1>2. CASE slot.kind = "spawning"
  <2>1. slot' = Spawning(Append(slot.buffer, c)) /\ sess' = sess
    BY <1>2 DEF Dispatch
  <2>2. slot'.kind = "spawning" /\ slot'.buffer = Append(slot.buffer, c)
    BY <2>1 DEF Spawning
  <2>3. Upcoming(slot.buffer, Heard, nr) /\ Below(Nrs(slot.buffer), Nrs(jobs))
    BY <1>2 DEF InLine, Buffered
  <2>4. Buffered(Append(slot.buffer, c), Heard, nr, Nrs(Tail(jobs)))
    BY <1>1, <2>3, FirstJob DEF Buffered
  <2>5. \A s \in Sessions : Quiet(sess'[s], sess[s]) /\ ~Owes(sess'[s])
    BY <1>2, <2>1, SelfQuiet, OneOwes
  <2> HIDE DEF c
  <2>6. QED
    BY <1>1, <2>2, <2>4, <2>5, QuietLine
<1>3. CASE slot.kind = "idle"
  <2>1. DispatchIdle(c) /\ sess' = sess
    BY <1>3 DEF Dispatch
  <2>2. \A s \in Sessions : Quiet(sess'[s], sess[s]) /\ ~Owes(sess'[s])
    BY <1>3, <2>1, SelfQuiet, OneOwes
  <2>3. QED
    BY <1>1, <2>1, <2>2, DispatchIdleLine
<1>4. CASE slot.kind = "ready"
  <2> DEFINE s == slot.session
  <2>1. s \in Sessions /\ sess[s].task # "none"
    BY <1>4 DEF IInv, Typed, OneAttempt
  <2>2. CASE IsClosed(s)
    <3>1. DispatchIdle(c) /\ sess' = [sess EXCEPT ![s] = Drop(sess[s])]
      BY <1>4, <2>2 DEF Dispatch
    <3>2. \A t \in Sessions : Quiet(sess'[t], sess[t]) /\ ~Owes(sess'[t])
      <4> SUFFICES ASSUME NEW t \in Sessions PROVE Quiet(sess'[t], sess[t]) /\ ~Owes(sess'[t])
        OBVIOUS
      <4>1. CASE t = s
        BY <1>1, <2>1, <3>1, <4>1, DropLine DEF Owes
      <4>2. CASE t # s
        BY <1>1, <3>1, <4>2, SelfQuiet, OneOwes
      <4>3. QED
        BY <4>1, <4>2
    <3>3. QED
      BY <1>1, <3>1, <3>2, DispatchIdleLine
  <2>3. CASE ~IsClosed(s)
    <3> DEFINE new == Send(sess[s], <<c>>)
               q == sess[s].commands
               p == sess[s].deferred
    <3>1. sess' = [sess EXCEPT ![s] = new] /\ slot' = slot /\ sess[s].task = "driving"
      BY <1>4, <2>3 DEF Dispatch, IsClosed
    <3>2. IsQueue(<<c>>) /\ <<c>> = Append(<<>>, c)
      <4>1. <<c>> = Append(<<>>, c)
        OBVIOUS
      <4>2. IsQueue(Append(<<>>, c))
        BY <1>1, EmptyQ, AppendQ, FirstJob
      <4>3. QED
        BY <4>1, <4>2
    <3>3. /\ HasLine(new) /\ new.heard = sess[s].heard /\ new.task # "none"
          /\ new.alive = sess[s].alive /\ new.deferred = p /\ new.open = sess[s].open
          /\ new.commands = q \o <<c>>
          /\ ~new.alive => Quiet(new, sess[s])
      BY <2>1, <3>1, <3>2, SendLine
    <3>4. \A t \in Sessions : t # s => ~Owes(sess[t])
      BY OneOwes
    <3> HIDE DEF new
    <3>5. CASE ~new.alive
      <4>1. \A t \in Sessions : Quiet(sess'[t], sess[t]) /\ ~Owes(sess'[t])
        BY <1>1, <3>1, <3>3, <3>4, <3>5, SelfQuiet DEF Owes
      <4>2. QED
        BY <1>1, <1>4, <3>1, <4>1, QuietLine
    <3>6. CASE new.alive
      <4>1. Line(sess[s], Heard, nr, Nrs(jobs)) /\ IsQueue(q)
        BY <2>1, <3>3, <3>6 DEF InLine, SessionInLine
      <4>2. q \o <<c>> = Append(q, c)
        <5>1. PICK S : q \in Seq(S)
          BY <4>1 DEF IsQueue
        <5>2. QED
          BY <5>1
      <4>3. /\ Upcoming(Append(q, c), Heard, nr) /\ Nrs(Append(q, c)) = Nrs(q) \cup {c.n}
            /\ Below(Nrs(Append(q, c)), Nrs(Tail(jobs)))
            /\ c.n \in Nrs(jobs) /\ Nrs(Tail(jobs)) \subseteq Nrs(jobs)
            /\ Upcoming(Tail(jobs), Heard, nr)
        BY <1>1, <4>1, FirstJob DEF Line
      <4>4. Heard \cup {new.heard} = Heard
        BY <2>1, <3>3 DEF Heard
      <4> HIDE DEF c
      <4>5. Line(new, Heard, nr, Nrs(Tail(jobs)))
        <5>1. /\ Upcoming(p, Heard, nr) /\ (new.open => p = <<>>)
              /\ Below(Nrs(p), Nrs(q)) /\ Below(Nrs(p), Nrs(jobs))
          BY <4>1, <3>3 DEF Line
        <5>2. Below(Nrs(p), Nrs(Append(q, c))) /\ Below(Nrs(p), Nrs(Tail(jobs)))
          BY <4>3, <5>1 DEF Below
        <5>3. QED
          BY <3>3, <4>2, <4>3, <5>1, <5>2 DEF Line
      <4>6. QED
        BY <1>1, <1>4, <2>1, <3>1, <3>3, <3>4, <4>3, <4>4, <4>5, OneLine
    <3>7. QED
      BY <3>5, <3>6
  <2>4. QED
    BY <2>2, <2>3
<1>5. QED
  BY <1>1, <1>2, <1>3, <1>4

-----------------------------------------------------------------------------
LEMMA NextLine == ASSUME IInv, InLine, [Next]_vars PROVE LineStep
<1>1. ASSUME NEW s \in Sessions, Spawner(s) PROVE LineStep
  BY <1>1, AttemptLine, PublishLine, FailLine DEF Spawner
<1>2. ASSUME NEW s \in Sessions, Task(s) PROVE LineStep
  BY <1>2, OnCommandLine, OnFrameLine, TeardownLine DEF Task
<1>3. QED
  BY <1>1, <1>2, PanelLine, DispatchLine, ShutdownLine, ProcessLine DEF Next

(* What the panel issues reaches agents in the order it was issued: no      *)
(* command overtakes another, in the context queue, the slot's buffer, the  *)
(* session's channel or the commands deferred until the session exists      *)
(* (AiContextJob, spawn_in_background, Driver::deferred), whatever sessions *)
(* fail, crash and are replaced, for any number of sessions and commands.   *)
THEOREM CommandsStayInOrder == Spec => CommandsKeepTheirOrder
<1>1. Init => InLine
  BY InitInLine
<1>2. IInv /\ InLine /\ [Next]_vars => InLine' /\ [Rises]_vars
  BY NextLine DEF LineStep
<1>3. Rises <=> \A s, t \in Sessions : sess'[s].heard # sess[s].heard => sess'[s].heard > sess[t].heard
  BY DEF Rises
<1>4. QED
  BY <1>1, <1>2, <1>3, Invariance, PTL DEF Spec, CommandsKeepTheirOrder

-----------------------------------------------------------------------------
(* The holds of submitted lines.                                           *)

(* What the variables range over.  Line 0 is one no hold was armed for.    *)
Lines == ViewLines \cup {Expanded, Other, None, Clear}
Message ==
  {m \in [is : {"ran", "prompt", "restored"}, line : Lines, seq : Nat, epoch : Nat] :
     m.is = "ran" => IF m.seq = 0 THEN m.line = Other ELSE m.line \in ViewLines \cup {Expanded}}
Keystroke == {k \in [is : Inputs, seq : Nat] : k.seq = 0 <=> k.is \notin ViewLines}
Running == {r \in [line : ViewLines \cup {Clear}, seq : Nat, reports : BOOLEAN, at : {"run", "prompt"}] :
              r.seq = 0 <=> r.line = Clear}
Unreported == [line : ViewLines, seq : Nat]
Input == [is : Inputs, at : Nat]

HoldTyped ==
  /\ channel \in Seq(Message) /\ typeahead \in Seq(Keystroke) /\ held \in Seq(Input)
  /\ timedOut \in Seq(Unreported) /\ restores \in Seq(Nat)
  /\ running = None \/ running \in Running
  /\ linesArmed \in Nat /\ epoch \in Nat /\ evicted \in Nat /\ typed \in Nat
  /\ standing \in BOOLEAN /\ registered \in BOOLEAN /\ misled \in BOOLEAN
  /\ armedLine \in ViewLines \cup {None}
  /\ standing => armedLine \in ViewLines /\ linesArmed > 0
  /\ answered \subseteq 0..linesArmed

(* The reports, the line running and the lines to be read, oldest first.   *)
Ran(m) == m.is = "ran" /\ m.seq > 0
Waiting == {i \in DOMAIN channel : Ran(channel[i])}
Keyed == {i \in DOMAIN typeahead : typeahead[i].seq > 0}
Runs == running # None /\ running.seq > 0
Ahead == {channel[i].seq : i \in Waiting} \cup {typeahead[i].seq : i \in Keyed}
           \cup (IF Runs THEN {running.seq} ELSE {})

InOrder ==
  /\ \A i, j \in Waiting : i < j => channel[i].seq < channel[j].seq
  /\ \A i, j \in Keyed : i < j => typeahead[i].seq < typeahead[j].seq
  /\ \A i \in Waiting, j \in Keyed : channel[i].seq < typeahead[j].seq
  /\ Runs => /\ \A i \in Waiting : channel[i].seq < running.seq
             /\ \A j \in Keyed : running.seq < typeahead[j].seq
  /\ \A s \in Ahead : s <= linesArmed

(* What an answer or a report counts was armed, by an engine there was.    *)
InRange ==
  /\ \A i \in DOMAIN channel : channel[i].epoch <= epoch
  /\ \A i \in DOMAIN channel : channel[i].is = "restored" => channel[i].seq <= linesArmed
  /\ \A i \in DOMAIN restores : restores[i] <= linesArmed

(* A line ahead is known by the text it was armed with.                    *)
KnownAs(s, text) ==
  /\ \A j \in DOMAIN timedOut : timedOut[j].seq = s => timedOut[j].line = text
  /\ standing /\ s = linesArmed => armedLine = text
OneText ==
  /\ \A i \in Waiting : channel[i].line = Expanded \/ KnownAs(channel[i].seq, channel[i].line)
  /\ Runs => KnownAs(running.seq, running.line)
  /\ \A i \in Keyed : KnownAs(typeahead[i].seq, typeahead[i].is)

(* The lines kept are older than the armed one, in the order they were     *)
(* armed, and those that made room for them are older still.               *)
KeptInOrder ==
  /\ \A i, j \in DOMAIN timedOut : i < j => timedOut[i].seq < timedOut[j].seq
  /\ \A i \in DOMAIN timedOut : /\ timedOut[i].seq \in 1..linesArmed
                                /\ standing => timedOut[i].seq < linesArmed
  /\ evicted > 0 => timedOut # <<>>

(* A line answered and still kept or armed had an older one's text, whose  *)
(* report is not to come any more.                                         *)
Passed(k) == \E j \in 1..k - 1 : j \notin answered /\ j \notin Ahead
NoneStale ==
  /\ \A i \in DOMAIN timedOut : timedOut[i].seq \in answered => Passed(timedOut[i].seq)
  /\ standing /\ linesArmed \in answered => Passed(linesArmed)

(* The reports this engine may still send, and those of them that are of   *)
(* lines that made room.                                                   *)
Coming == {channel[i].seq : i \in {j \in Waiting : channel[j].epoch = epoch}} \cup (ToReport \ {0})
IsKept(s) == \E i \in DOMAIN timedOut : timedOut[i].seq = s
Dropped == {s \in Coming : timedOut # <<>> /\ s < timedOut[1].seq}
Covered == \A s \in Coming : IsKept(s) \/ s \in Dropped \/ (standing /\ s = linesArmed)
Counted == Cardinality(Dropped) <= evicted
RestoredFirst ==
  \A i \in DOMAIN channel :
    channel[i].is = "restored" /\ channel[i].epoch = epoch
      => /\ \A j \in Waiting : i < j => channel[i].seq < channel[j].seq
         /\ \A s \in ToReport \ {0} : channel[i].seq < s
Owed == Covered /\ Counted /\ RestoredFirst

HoldInv == HoldTyped /\ InOrder /\ InRange /\ OneText /\ KeptInOrder /\ NoneStale /\ (~misled => Owed)

LEMMA Apart ==
  /\ Key \notin ViewLines /\ Clear \notin ViewLines /\ Expanded \notin ViewLines
  /\ Other \notin ViewLines /\ None \notin ViewLines
  /\ Expanded # Other /\ Expanded # None /\ Other # None /\ Key # Clear
<1> DEFINE five == {Key, Clear, Expanded, Other, None}
<1>1. five \cap ViewLines = {} /\ Cardinality(five) = 5
  BY HoldAssumption
<1>2. ASSUME NEW a, NEW b, NEW c, NEW d, five = {a, b, c, d} PROVE FALSE
  <2>1. IsFiniteSet({}) /\ Cardinality({}) = 0
    BY FS_EmptySet
  <2>2. IsFiniteSet({} \cup {a}) /\ Cardinality({} \cup {a}) \in 0..1
    BY <2>1, FS_AddElement
  <2>0. {} \cup {a} = {a}
    OBVIOUS
  <2>3. IsFiniteSet({a} \cup {b}) /\ Cardinality({a} \cup {b}) \in 0..2
    BY <2>0, <2>2, FS_AddElement
  <2>4. IsFiniteSet({a} \cup {b} \cup {c}) /\ Cardinality({a} \cup {b} \cup {c}) \in 0..3
    BY <2>3, FS_AddElement
  <2>5. IsFiniteSet({a} \cup {b} \cup {c} \cup {d}) /\ Cardinality({a} \cup {b} \cup {c} \cup {d}) \in 0..4
    BY <2>4, FS_AddElement
  <2>6. {a} \cup {b} \cup {c} \cup {d} = five
    BY <1>2
  <2>7. QED
    BY <2>5, <2>6, <1>1
<1>3. Expanded # Other
  BY <1>2
<1>4. Expanded # None
  BY <1>2
<1>5. Other # None
  BY <1>2
<1>6. Key # Clear
  BY <1>2
<1>7. QED
  BY <1>1, <1>3, <1>4, <1>5, <1>6

LEMMA MinOf ==
  ASSUME NEW T \in SUBSET Nat, T # {}
  PROVE  Min(T) \in T /\ \A y \in T : Min(T) <= y
BY NatMin DEF Min

(* What Deliver does to the hold and to the typeahead.                     *)
Opens(waiting, line) ==
  /\ typeahead' \in Seq(Keystroke) /\ held' \in Seq(Input)
  /\ standing' \in BOOLEAN /\ linesArmed' \in Nat
  /\ standing' => linesArmed' = linesArmed + 1 /\ armedLine' \in ViewLines
  /\ ~standing' => linesArmed' = linesArmed /\ armedLine' = line /\ held' = <<>>
  /\ Len(waiting) <= Len(typeahead')
  /\ \A i \in DOMAIN typeahead' :
       IF i \in DOMAIN waiting THEN typeahead'[i] = waiting[i]
       ELSE typeahead'[i].seq > 0
              => /\ standing' /\ i = Len(typeahead')
                 /\ typeahead'[i] = [is |-> armedLine', seq |-> linesArmed']

LEMMA DeliverOpens ==
  ASSUME linesArmed \in Nat, NEW inputs \in Seq(Input), NEW waiting \in Seq(Keystroke), NEW line,
         Deliver(inputs, waiting, line)
  PROVE  Opens(waiting, line)
<1> DEFINE lines == {i \in DOMAIN inputs : inputs[i].is \in ViewLines}
           arms == lines # {}
           last == IF arms THEN Min(lines) ELSE Len(inputs)
           next == linesArmed + 1
           keys == [i \in 1..last |-> [is |-> inputs[i].is, seq |-> IF arms /\ i = last THEN next ELSE 0]]
<1>1. /\ typeahead' = waiting \o keys
      /\ standing' <=> arms
      /\ held' = SubSeq(inputs, last + 1, Len(inputs))
      /\ linesArmed' = IF arms THEN next ELSE linesArmed
      /\ armedLine' = IF arms THEN inputs[last].is ELSE line
  BY DEF Deliver
<1>0. standing' \in BOOLEAN
  BY DEF Deliver
<1>2. last \in 0..Len(inputs) /\ (arms => last \in lines)
  <2>1. CASE arms
    <3>1. lines \in SUBSET Nat
      OBVIOUS
    <3>2. last \in lines
      BY <2>1, <3>1, MinOf
    <3>3. QED
      BY <3>2, <2>1
  <2>2. CASE ~arms
    BY <2>2
  <2>3. QED
    BY <2>1, <2>2
<1>3. \A i \in 1..last : inputs[i].is \in ViewLines <=> arms /\ i = last
  <2>1. CASE arms
    <3>1. lines \in SUBSET Nat
      OBVIOUS
    <3>2. last \in lines /\ \A y \in lines : last <= y
      BY <2>1, <3>1, MinOf
    <3>3. ASSUME NEW i \in 1..last, inputs[i].is \in ViewLines PROVE i = last
      <4>1. i \in lines
        BY <3>3, <1>2
      <4>2. last <= i
        BY <4>1, <3>2
      <4>3. last \in Nat
        BY <1>2
      <4> HIDE DEF last
      <4>4. QED
        BY <4>2, <4>3
    <3>4. inputs[last].is \in ViewLines
      BY <3>2
    <3>5. QED
      BY <3>3, <3>4, <2>1
  <2>2. CASE ~arms
    BY <2>2, <1>2
  <2>3. QED
    BY <2>1, <2>2
<1>4. \A i \in 1..last : inputs[i] \in Input
  BY <1>2
<1> HIDE DEF last, arms
<1>5. keys \in Seq(Keystroke) /\ Len(keys) = last
  <2>1. \A i \in 1..last : keys[i] \in Keystroke
    <3>1. SUFFICES ASSUME NEW i \in 1..last PROVE keys[i] \in Keystroke
      OBVIOUS
    <3>2. keys[i] = [is |-> inputs[i].is, seq |-> IF arms /\ i = last THEN next ELSE 0]
      OBVIOUS
    <3>3. inputs[i].is \in Inputs /\ next \in Nat /\ next # 0
      BY <1>4 DEF Input
    <3>4. QED
      BY <3>2, <3>3, <1>3 DEF Keystroke
  <2>2. last \in Nat
    BY <1>2
  <2>3. QED
    BY <2>1, <2>2
<1> HIDE DEF keys
<1>6. /\ typeahead' \in Seq(Keystroke) /\ Len(typeahead') = Len(waiting) + last
      /\ \A i \in 1..Len(typeahead') : typeahead'[i] = IF i <= Len(waiting) THEN waiting[i] ELSE keys[i - Len(waiting)]
  <2>1. waiting \o keys \in Seq(Keystroke)
    BY <1>5
  <2>2. Len(waiting \o keys) = Len(waiting) + last
    BY <1>5
  <2>3. \A i \in 1..(Len(waiting) + last) : (waiting \o keys)[i] = IF i <= Len(waiting) THEN waiting[i] ELSE keys[i - Len(waiting)]
    BY <1>5
  <2> DEFINE both == waiting \o keys
  <2>4. both \in Seq(Keystroke) /\ Len(both) = Len(waiting) + last /\ typeahead' = both
    BY <2>1, <2>2, <1>1
  <2>5. \A i \in 1..Len(both) : both[i] = IF i <= Len(waiting) THEN waiting[i] ELSE keys[i - Len(waiting)]
    BY <2>2, <2>3
  <2> HIDE DEF both
  <2>6. QED
    BY <2>4, <2>5
<1>7. held' \in Seq(Input) /\ (~arms => held' = <<>>)
  <2>1. CASE ~arms
    <3>1. last = Len(inputs)
      BY <2>1 DEF last
    <3>2. SubSeq(inputs, Len(inputs) + 1, Len(inputs)) = <<>>
      OBVIOUS
    <3>3. QED
      BY <1>1, <3>1, <3>2
  <2>2. CASE arms
    BY <1>1, <1>2, <2>2
  <2>3. QED
    BY <2>1, <2>2
<1>8. arms => inputs[last].is \in ViewLines
  BY <1>2 DEF lines
<1>9. ASSUME NEW i \in DOMAIN typeahead'
      PROVE  IF i \in DOMAIN waiting THEN typeahead'[i] = waiting[i]
             ELSE typeahead'[i].seq > 0
                    => /\ arms /\ i = Len(typeahead')
                       /\ typeahead'[i] = [is |-> inputs[last].is, seq |-> next]
  <2>1. i \in 1..(Len(waiting) + last)
    BY <1>6
  <2>2. CASE i \in DOMAIN waiting
    BY <2>2, <1>6
  <2>3. CASE i \notin DOMAIN waiting
    <3>1. i - Len(waiting) \in 1..last
      BY <2>1, <2>3, <1>2
    <3>2. typeahead'[i] = keys[i - Len(waiting)]
      BY <3>1, <1>6, <2>1, <2>3
    <3>3. keys[i - Len(waiting)] = [is |-> inputs[i - Len(waiting)].is, seq |-> IF arms /\ i - Len(waiting) = last THEN next ELSE 0]
      BY <3>1 DEF keys
    <3>4. CASE arms /\ i - Len(waiting) = last
      <4>1. i = Len(typeahead')
        BY <1>6, <3>4, <1>2, <2>1
      <4>2. QED
        BY <4>1, <3>2, <3>3, <3>4, <2>3
    <3>5. CASE ~(arms /\ i - Len(waiting) = last)
      BY <3>2, <3>3, <3>5, <2>3
    <3>6. QED
      BY <3>4, <3>5
  <2>4. QED
    BY <2>2, <2>3
<1>10. next \in Nat /\ Len(waiting) <= Len(typeahead')
  BY <1>6, <1>2
<1>12. next > 0 /\ next = linesArmed + 1
  OBVIOUS
<1> HIDE DEF next
<1>11. QED
  BY <1>0, <1>1, <1>6, <1>7, <1>8, <1>9, <1>10, <1>12 DEF Opens

LEMMA KeptAreLines ==
  ASSUME timedOut \in Seq(Unreported)
  PROVE  \A i \in DOMAIN timedOut : timedOut[i].seq \in Nat /\ timedOut[i].line \in ViewLines
<1>1. \A i \in DOMAIN timedOut : timedOut[i] \in Unreported
  OBVIOUS
<1>2. QED
  BY <1>1 DEF Unreported

LEMMA MessagesAre ==
  ASSUME channel \in Seq(Message)
  PROVE  \A i \in DOMAIN channel :
           /\ channel[i] \in Message /\ channel[i].seq \in Nat /\ channel[i].epoch \in Nat
           /\ channel[i].is = "ran"
                => /\ channel[i].seq = 0 => channel[i].line = Other
                   /\ channel[i].seq > 0 => channel[i].line \in ViewLines \cup {Expanded}
<1>1. \A i \in DOMAIN channel : channel[i] \in Message
  OBVIOUS
<1>2. QED
  BY <1>1 DEF Message

LEMMA KeystrokesAre ==
  ASSUME typeahead \in Seq(Keystroke)
  PROVE  \A i \in DOMAIN typeahead :
           /\ typeahead[i] \in Keystroke /\ typeahead[i].seq \in Nat
           /\ typeahead[i].seq > 0 => typeahead[i].is \in ViewLines
<1>1. \A i \in DOMAIN typeahead : typeahead[i] \in Keystroke
  OBVIOUS
<1>2. QED
  BY <1>1 DEF Keystroke

(* What is left of the lines kept when the first k of them are gone.       *)
IsRest(q, k) ==
  /\ q \in Seq(Unreported) /\ k \in Nat /\ Len(q) + k = Len(timedOut)
  /\ \A i \in 1..Len(q) : q[i] = timedOut[i + k]

LEMMA RestOf ==
  ASSUME timedOut \in Seq(Unreported), NEW k \in 1..Len(timedOut)
  PROVE  IsRest(SubSeq(timedOut, k, Len(timedOut)), k - 1)
<1> DEFINE q == SubSeq(timedOut, k, Len(timedOut))
<1>1. q \in Seq(Unreported)
  OBVIOUS
<1>2. Len(q) = Len(timedOut) - k + 1
  OBVIOUS
<1>3. \A i \in 1..(Len(timedOut) - k + 1) : q[i] = timedOut[i + (k - 1)]
  OBVIOUS
<1> HIDE DEF q
<1>4. QED
  BY <1>1, <1>2, <1>3 DEF IsRest

LEMMA WholeRest ==
  ASSUME timedOut \in Seq(Unreported)
  PROVE  IsRest(timedOut, 0) /\ IsRest(<<>>, Len(timedOut))
BY DEF IsRest

LEMMA TailRest ==
  ASSUME timedOut \in Seq(Unreported), timedOut # <<>>
  PROVE  IsRest(Tail(timedOut), 1)
BY DEF IsRest

LEMMA AfterRest ==
  ASSUME timedOut \in Seq(Unreported), KeptInOrder, linesArmed \in Nat, NEW n \in Nat
  PROVE  \E k \in 0..Len(timedOut) :
           /\ IsRest(After(n), k)
           /\ \A i \in 1..k : timedOut[i].seq <= n
           /\ \A i \in (k + 1)..Len(timedOut) : timedOut[i].seq > n
<1> DEFINE left == {i \in DOMAIN timedOut : timedOut[i].seq > n}
<1>0. \A i \in DOMAIN timedOut : timedOut[i].seq \in Nat
  BY KeptAreLines
<1>1. CASE left = {}
  <2>1. After(n) = <<>>
    BY <1>1 DEF After
  <2>2. IsRest(After(n), Len(timedOut))
    BY <2>1, WholeRest
  <2>3. \A i \in 1..Len(timedOut) : timedOut[i].seq <= n
    BY <1>1, <1>0
  <2>4. Len(timedOut) \in 0..Len(timedOut)
    OBVIOUS
  <2>5. QED
    BY <2>2, <2>3, <2>4
<1>2. CASE left # {}
  <2>1. left \in SUBSET Nat
    OBVIOUS
  <2> DEFINE m == Min(left)
  <2>2. m \in left /\ \A y \in left : m <= y
    BY <2>1, <1>2, MinOf
  <2>3. m \in 1..Len(timedOut) /\ timedOut[m].seq > n
    BY <2>2
  <2>4. After(n) = SubSeq(timedOut, m, Len(timedOut))
    BY <1>2 DEF After
  <2> HIDE DEF m
  <2>5. IsRest(After(n), m - 1)
    BY <2>3, <2>4, RestOf
  <2>6. ASSUME NEW i \in 1..(m - 1) PROVE timedOut[i].seq <= n
    <3>1. i \in DOMAIN timedOut /\ ~(m <= i)
      BY <2>3
    <3>2. i \notin left
      BY <3>1, <2>2
    <3>3. QED
      BY <3>1, <3>2, <1>0
  <2>7. ASSUME NEW i \in m..Len(timedOut) PROVE timedOut[i].seq > n
    <3>1. i \in DOMAIN timedOut /\ m \in DOMAIN timedOut /\ (i = m \/ m < i)
      BY <2>3
    <3>2. i = m \/ timedOut[m].seq < timedOut[i].seq
      BY <3>1 DEF KeptInOrder
    <3>3. QED
      BY <3>1, <3>2, <2>3, <1>0
  <2>8. m - 1 \in 0..Len(timedOut) /\ (m - 1) + 1 = m
    BY <2>3
  <2>9. QED
    BY <2>5, <2>6, <2>7, <2>8
<1>3. QED
  BY <1>1, <1>2

LEMMA AfterFacts ==
  ASSUME timedOut \in Seq(Unreported), KeptInOrder, linesArmed \in Nat, NEW n \in Nat, timedOut' = After(n)
  PROVE  /\ \E k \in Nat : IsRest(timedOut', k)
         /\ \A j \in DOMAIN timedOut : timedOut[j].seq > n => \E i \in DOMAIN timedOut' : timedOut'[i] = timedOut[j]
         /\ \A i \in DOMAIN timedOut' : timedOut'[i].seq > n
<1>1. PICK k \in 0..Len(timedOut) :
           /\ IsRest(timedOut', k)
           /\ \A i \in 1..k : timedOut[i].seq <= n
           /\ \A i \in (k + 1)..Len(timedOut) : timedOut[i].seq > n
  BY AfterRest
<1>0. \A i \in DOMAIN timedOut : timedOut[i].seq \in Nat
  BY KeptAreLines
<1>2. ASSUME NEW j \in DOMAIN timedOut, timedOut[j].seq > n
      PROVE  \E i \in DOMAIN timedOut' : timedOut'[i] = timedOut[j]
  <2>1. j \notin 1..k
    BY <1>1, <1>2, <1>0
  <2>2. j - k \in 1..Len(timedOut') /\ (j - k) + k = j
    BY <2>1, <1>1 DEF IsRest
  <2>3. timedOut'[j - k] = timedOut[j]
    BY <2>2, <1>1 DEF IsRest
  <2>4. DOMAIN timedOut' = 1..Len(timedOut')
    BY <1>1 DEF IsRest
  <2>5. QED
    BY <2>2, <2>3, <2>4
<1>3. ASSUME NEW i \in DOMAIN timedOut' PROVE timedOut'[i].seq > n
  <2>1. i \in 1..Len(timedOut') /\ i + k \in (k + 1)..Len(timedOut)
    BY <1>1 DEF IsRest
  <2>2. QED
    BY <2>1, <1>1 DEF IsRest
<1>4. k \in Nat
  OBVIOUS
<1>5. QED
  BY <1>1, <1>2, <1>3, <1>4

(* What a report leaves of the lines kept.                                 *)
LEMMA NoteLeavesRest ==
  ASSUME HoldTyped, KeptInOrder, NEW text, NoteReported(text)
  PROVE  /\ \E k \in Nat : IsRest(timedOut', k)
         /\ evicted' \in Nat /\ (evicted' > 0 => timedOut' # <<>>)
<1>0. timedOut \in Seq(Unreported) /\ linesArmed \in Nat /\ evicted \in Nat
  BY DEF HoldTyped
<1>1. \A i \in DOMAIN timedOut : timedOut[i].seq \in Nat
  BY <1>0, KeptAreLines
<1>2. IsRest(timedOut, 0)
  BY <1>0, WholeRest
<1>3. CASE timedOut' = After(ReportedLine(text)) /\ evicted' = 0
  <2>1. ReportedLine(text) \in Nat
    <3>1. CASE OfText(text) # {}
      <4>1. OfText(text) \in SUBSET Nat
        BY <1>0 DEF OfText
      <4>2. Min(OfText(text)) \in OfText(text)
        BY <4>1, <3>1, MinOf
      <4>3. Min(OfText(text)) \in DOMAIN timedOut
        BY <4>2 DEF OfText
      <4>4. ReportedLine(text) = timedOut[Min(OfText(text))].seq
        BY <3>1 DEF ReportedLine
      <4>5. QED
        BY <4>3, <4>4, <1>1
    <3>2. CASE OfText(text) = {}
      <4>1. ReportedLine(text) = linesArmed
        BY <3>2 DEF ReportedLine
      <4>2. QED
        BY <4>1, <1>0
    <3>3. QED
      BY <3>1, <3>2
  <2>2. QED
    BY <2>1, <1>0, <1>3, AfterFacts
<1>4. CASE timedOut' = timedOut /\ evicted' \in Nat /\ evicted' <= evicted
  <2>1. evicted' > 0 => evicted > 0
    BY <1>4, <1>0
  <2>2. QED
    BY <2>1, <1>4, <1>2 DEF KeptInOrder
<1>5. CASE timedOut # <<>> /\ timedOut' = Tail(timedOut) /\ evicted' = 0
  <2>1. IsRest(timedOut', 1)
    BY <1>0, <1>5, TailRest
  <2>2. QED
    BY <2>1, <1>5
<1>6. \/ timedOut' = After(ReportedLine(text)) /\ evicted' = 0
      \/ timedOut' = timedOut /\ evicted' \in Nat /\ evicted' <= evicted
      \/ timedOut # <<>> /\ timedOut' = Tail(timedOut) /\ evicted' = 0
  BY <1>0 DEF NoteReported
<1>7. QED
  BY <1>3, <1>4, <1>5, <1>6

(* What a hold that ends unreported adds to them.                          *)
Keeps ==
  /\ standing /\ timedOut' \in Seq(Unreported) /\ evicted' \in Nat
  /\ \E k, q :
       /\ k \in {0, 1} /\ IsRest(q, k) /\ timedOut' = Append(q, [line |-> armedLine, seq |-> linesArmed])
       /\ evicted' = evicted + k

LEMMA KeepUnreportedKeeps ==
  ASSUME HoldTyped, standing, KeepUnreported
  PROVE  Keeps
<1> DEFINE full == Len(timedOut) = Kept
           q == IF full THEN Tail(timedOut) ELSE timedOut
           k == IF full THEN 1 ELSE 0
           new == [line |-> armedLine, seq |-> linesArmed]
<1>0. timedOut \in Seq(Unreported) /\ evicted \in Nat /\ new \in Unreported
  BY DEF HoldTyped, Unreported
<1>1. timedOut' = Append(q, new) /\ evicted' = evicted + k
  <2>1. timedOut' = Append(q, new) /\ evicted' = IF full THEN evicted + 1 ELSE evicted
    BY DEF KeepUnreported
  <2>2. QED
    BY <2>1, <1>0
<1>2. IsRest(q, k) /\ k \in {0, 1}
  <2>1. CASE full
    <3>1. timedOut # <<>>
      BY <2>1, HoldAssumption
    <3>2. IsRest(Tail(timedOut), 1)
      BY <3>1, <1>0, TailRest
    <3>3. QED
      BY <3>2, <2>1
  <2>2. CASE ~full
    <3>1. IsRest(timedOut, 0)
      BY <1>0, WholeRest
    <3>2. QED
      BY <3>1, <2>2
  <2>3. QED
    BY <2>1, <2>2
<1> HIDE DEF q, k, new
<1>3. q \in Seq(Unreported)
  BY <1>2 DEF IsRest
<1>4. timedOut' \in Seq(Unreported) /\ evicted' \in Nat
  BY <1>0, <1>1, <1>2, <1>3
<1>5. QED
  BY <1>1, <1>2, <1>4 DEF Keeps, new

(* How a fold moves the messages, the typeahead and the lines kept.        *)
ReadOn == channel' = channel \/ (channel # <<>> /\ channel' = Tail(channel))
ShiftedBy(d) ==
  /\ d \in {0, 1} /\ channel' \in Seq(Message) /\ Len(channel') + d = Len(channel)
  /\ \A i \in DOMAIN channel' : i + d \in DOMAIN channel /\ channel'[i] = channel[i + d]

LEMMA ChannelShifts ==
  ASSUME HoldTyped, ReadOn
  PROVE  \E d : ShiftedBy(d) /\ (channel' # channel => d = 1)
<1>0. channel \in Seq(Message)
  BY DEF HoldTyped
<1>1. CASE channel' = channel
  <2>1. ShiftedBy(0)
    BY <1>0, <1>1 DEF ShiftedBy
  <2>2. QED
    BY <2>1, <1>1
<1>2. CASE channel # <<>> /\ channel' = Tail(channel)
  <2>1. channel' \in Seq(Message) /\ Len(channel') + 1 = Len(channel)
    BY <1>0, <1>2
  <2>2. \A i \in 1..Len(channel') : i + 1 \in 1..Len(channel) /\ channel'[i] = channel[i + 1]
    BY <1>0, <1>2
  <2>3. ShiftedBy(1)
    BY <2>1, <2>2, <1>0 DEF ShiftedBy
  <2>4. QED
    BY <2>3
<1>3. QED
  BY <1>1, <1>2 DEF ReadOn

Stays == UNCHANGED <<standing, armedLine, linesArmed, typeahead>>
MovesOn == Stays \/ \E line : Opens(typeahead, line)
NewlyArmed(j) ==
  /\ standing' /\ linesArmed' = linesArmed + 1 /\ j = Len(typeahead') /\ j > Len(typeahead)
  /\ typeahead'[j] = [is |-> armedLine', seq |-> linesArmed']

LEMMA TypeaheadGrows ==
  ASSUME HoldTyped, MovesOn
  PROVE  /\ typeahead' \in Seq(Keystroke) /\ linesArmed' \in Nat
         /\ linesArmed' = linesArmed \/ (standing' /\ linesArmed' = linesArmed + 1)
         /\ \A j \in Keyed' : (j \in Keyed /\ typeahead'[j] = typeahead[j]) \/ NewlyArmed(j)
<1>0. typeahead \in Seq(Keystroke) /\ linesArmed \in Nat
  BY DEF HoldTyped
<1>1. CASE Stays
  BY <1>0, <1>1 DEF Stays, Keyed
<1>2. ASSUME NEW line, Opens(typeahead, line)
      PROVE  /\ typeahead' \in Seq(Keystroke) /\ linesArmed' \in Nat
             /\ linesArmed' = linesArmed \/ (standing' /\ linesArmed' = linesArmed + 1)
             /\ \A j \in Keyed' : (j \in Keyed /\ typeahead'[j] = typeahead[j]) \/ NewlyArmed(j)
  <2>1. typeahead' \in Seq(Keystroke) /\ linesArmed' \in Nat
    BY <1>2 DEF Opens
  <2>2. linesArmed' = linesArmed \/ (standing' /\ linesArmed' = linesArmed + 1)
    BY <1>2 DEF Opens
  <2>3. ASSUME NEW j \in Keyed' PROVE (j \in Keyed /\ typeahead'[j] = typeahead[j]) \/ NewlyArmed(j)
    <3>1. j \in DOMAIN typeahead' /\ typeahead'[j].seq > 0
      BY DEF Keyed
    <3>2. CASE j \in DOMAIN typeahead
      <4>1. typeahead'[j] = typeahead[j]
        BY <3>1, <3>2, <1>2 DEF Opens
      <4>2. QED
        BY <4>1, <3>1, <3>2 DEF Keyed
    <3>3. CASE j \notin DOMAIN typeahead
      <4>1. /\ standing' /\ j = Len(typeahead')
            /\ typeahead'[j] = [is |-> armedLine', seq |-> linesArmed']
        BY <3>1, <3>3, <1>2 DEF Opens
      <4>2. linesArmed' = linesArmed + 1
        BY <4>1, <1>2 DEF Opens
      <4>3. j > Len(typeahead)
        BY <3>1, <3>3, <2>1, <1>0
      <4>4. QED
        BY <4>1, <4>2, <4>3 DEF NewlyArmed
    <3>4. QED
      BY <3>2, <3>3
  <2>4. QED
    BY <2>1, <2>2, <2>3
<1>3. QED
  BY <1>1, <1>2 DEF MovesOn

LEMMA AheadIsNat ==
  ASSUME HoldTyped
  PROVE  /\ \A i \in Waiting : i \in DOMAIN channel /\ i \in Nat /\ channel[i].seq \in Nat /\ channel[i].seq > 0
         /\ \A i \in Keyed : i \in DOMAIN typeahead /\ i \in Nat /\ typeahead[i].seq \in Nat /\ typeahead[i].seq > 0
         /\ Runs => running.seq \in Nat /\ running.seq > 0
         /\ \A s \in Ahead : s \in Nat /\ s > 0
<1>0. channel \in Seq(Message) /\ typeahead \in Seq(Keystroke)
  BY DEF HoldTyped
<1>1. \A i \in Waiting : i \in DOMAIN channel /\ i \in Nat /\ channel[i].seq \in Nat /\ channel[i].seq > 0
  BY <1>0, MessagesAre DEF Waiting, Ran
<1>2. \A i \in Keyed : i \in DOMAIN typeahead /\ i \in Nat /\ typeahead[i].seq \in Nat /\ typeahead[i].seq > 0
  BY <1>0, KeystrokesAre DEF Keyed
<1>3. Runs => running.seq \in Nat /\ running.seq > 0
  BY DEF HoldTyped, Runs, Running
<1>4. QED
  BY <1>1, <1>2, <1>3 DEF Ahead

LEMMA OrderMoves ==
  ASSUME HoldTyped, InOrder, ReadOn, MovesOn, running' = running
  PROVE  /\ InOrder'
         /\ \A s \in Ahead' : s \in Ahead \/ (standing' /\ linesArmed' = linesArmed + 1 /\ s = linesArmed')
<1>1. PICK d : ShiftedBy(d)
  BY ChannelShifts
<1>2. \A i \in Waiting' : i + d \in Waiting /\ channel'[i] = channel[i + d] /\ i \in Nat
  <2>1. SUFFICES ASSUME NEW i \in Waiting' PROVE i + d \in Waiting /\ channel'[i] = channel[i + d] /\ i \in Nat
    OBVIOUS
  <2>2. i \in DOMAIN channel' /\ Ran(channel'[i])
    BY DEF Waiting
  <2>3. channel'[i] = channel[i + d] /\ i + d \in DOMAIN channel
    BY <2>2, <1>1 DEF ShiftedBy
  <2>4. i \in Nat
    BY <2>2, <1>1 DEF ShiftedBy
  <2>5. QED
    BY <2>2, <2>3, <2>4 DEF Waiting
<1>3. d \in {0, 1}
  BY <1>1 DEF ShiftedBy
<1>4. /\ \A j \in Keyed' : (j \in Keyed /\ typeahead'[j] = typeahead[j]) \/ NewlyArmed(j)
      /\ linesArmed \in Nat /\ linesArmed' \in Nat /\ linesArmed <= linesArmed'
      /\ typeahead' \in Seq(Keystroke)
  BY TypeaheadGrows DEF HoldTyped
<1>5. /\ Runs' <=> Runs
      /\ \A i \in Waiting : channel[i].seq \in Nat
      /\ \A i \in Keyed : typeahead[i].seq \in Nat
      /\ Runs => running.seq \in Nat
      /\ \A i \in Keyed' : i \in 1..Len(typeahead')
  <2>1. Runs' <=> Runs
    BY DEF Runs
  <2>2. \A i \in Keyed' : i \in 1..Len(typeahead')
    BY <1>4 DEF Keyed
  <2>3. QED
    BY <2>1, <2>2, AheadIsNat
<1>6. /\ \A i \in Waiting : channel[i].seq <= linesArmed
      /\ \A i \in Keyed : typeahead[i].seq <= linesArmed
      /\ Runs => running.seq <= linesArmed
  BY DEF InOrder, Ahead
<1>7. \A i, j \in Waiting' : i < j => channel'[i].seq < channel'[j].seq
  <2>1. SUFFICES ASSUME NEW i \in Waiting', NEW j \in Waiting', i < j PROVE channel'[i].seq < channel'[j].seq
    OBVIOUS
  <2>2. i + d < j + d
    BY <1>2, <1>3, <2>1
  <2>3. QED
    BY <2>2, <1>2 DEF InOrder
<1>8. \A i, j \in Keyed' : i < j => typeahead'[i].seq < typeahead'[j].seq
  <2>1. SUFFICES ASSUME NEW i \in Keyed', NEW j \in Keyed', i < j PROVE typeahead'[i].seq < typeahead'[j].seq
    OBVIOUS
  <2>2. ~NewlyArmed(i)
    BY <2>1, <1>4, <1>5 DEF NewlyArmed
  <2>3. i \in Keyed /\ typeahead'[i] = typeahead[i]
    BY <2>2, <1>4
  <2>4. CASE j \in Keyed /\ typeahead'[j] = typeahead[j]
    BY <2>3, <2>4, <2>1 DEF InOrder
  <2>5. CASE NewlyArmed(j)
    <3>1. typeahead'[j].seq = linesArmed + 1
      BY <2>5 DEF NewlyArmed
    <3>2. QED
      BY <3>1, <2>3, <1>4, <1>5, <1>6
  <2>6. QED
    BY <2>4, <2>5, <1>4
<1>9. \A i \in Waiting', j \in Keyed' : channel'[i].seq < typeahead'[j].seq
  <2>1. SUFFICES ASSUME NEW i \in Waiting', NEW j \in Keyed' PROVE channel'[i].seq < typeahead'[j].seq
    OBVIOUS
  <2>4. CASE j \in Keyed /\ typeahead'[j] = typeahead[j]
    BY <2>4, <1>2 DEF InOrder
  <2>5. CASE NewlyArmed(j)
    <3>1. typeahead'[j].seq = linesArmed + 1
      BY <2>5 DEF NewlyArmed
    <3>2. QED
      BY <3>1, <1>2, <1>4, <1>5, <1>6
  <2>6. QED
    BY <2>4, <2>5, <1>4
<1>10. Runs' => /\ \A i \in Waiting' : channel'[i].seq < running'.seq
                /\ \A j \in Keyed' : running'.seq < typeahead'[j].seq
  <2>1. SUFFICES ASSUME Runs PROVE /\ \A i \in Waiting' : channel'[i].seq < running.seq
                                   /\ \A j \in Keyed' : running.seq < typeahead'[j].seq
    BY <1>5
  <2>2. \A i \in Waiting' : channel'[i].seq < running.seq
    BY <2>1, <1>2 DEF InOrder
  <2>3. ASSUME NEW j \in Keyed' PROVE running.seq < typeahead'[j].seq
    <3>1. CASE j \in Keyed /\ typeahead'[j] = typeahead[j]
      BY <3>1, <2>1 DEF InOrder
    <3>2. CASE NewlyArmed(j)
      <4>1. typeahead'[j].seq = linesArmed + 1
        BY <3>2 DEF NewlyArmed
      <4>2. QED
        BY <4>1, <2>1, <1>4, <1>5, <1>6
    <3>3. QED
      BY <3>1, <3>2, <1>4
  <2>4. QED
    BY <2>2, <2>3
<1>11. \A s \in Ahead' : s \in Ahead \/ (standing' /\ linesArmed' = linesArmed + 1 /\ s = linesArmed')
  <2>1. \A i \in Waiting' : channel'[i].seq \in Ahead
    BY <1>2 DEF Ahead
  <2>2. Runs' => running'.seq \in Ahead
    BY <1>5 DEF Ahead
  <2>3. ASSUME NEW j \in Keyed'
        PROVE  \/ typeahead'[j].seq \in Ahead
               \/ standing' /\ linesArmed' = linesArmed + 1 /\ typeahead'[j].seq = linesArmed'
    BY <1>4 DEF Ahead, NewlyArmed
  <2>4. QED
    BY <2>1, <2>2, <2>3 DEF Ahead
<1>12. \A s \in Ahead' : s <= linesArmed'
  <2>1. \A s \in Ahead : s \in Nat /\ s <= linesArmed
    BY AheadIsNat DEF InOrder
  <2>2. QED
    BY <2>1, <1>11, <1>4
<1>13. InOrder'
  BY <1>7, <1>8, <1>9, <1>10, <1>12 DEF InOrder
<1>14. QED
  BY <1>11, <1>13

(* Where the lines kept come from.                                         *)
FromOld ==
  \A i \in DOMAIN timedOut' :
    \/ \E j \in DOMAIN timedOut : timedOut'[i] = timedOut[j]
    \/ standing /\ timedOut'[i] = [line |-> armedLine, seq |-> linesArmed]

LEMMA RestIsOld ==
  ASSUME NEW k, IsRest(timedOut', k), timedOut \in Seq(Unreported)
  PROVE  FromOld
<1>1. ASSUME NEW i \in DOMAIN timedOut' PROVE \E j \in DOMAIN timedOut : timedOut'[i] = timedOut[j]
  <2>1. i \in 1..Len(timedOut') /\ i + k \in DOMAIN timedOut
    BY DEF IsRest
  <2>2. timedOut'[i] = timedOut[i + k]
    BY <2>1 DEF IsRest
  <2>3. QED
    BY <2>1, <2>2
<1>2. QED
  BY <1>1 DEF FromOld

LEMMA KeepsIsOld ==
  ASSUME timedOut \in Seq(Unreported), Keeps
  PROVE  FromOld
<1>1. PICK k, q : /\ k \in {0, 1} /\ IsRest(q, k)
                  /\ timedOut' = Append(q, [line |-> armedLine, seq |-> linesArmed])
  BY DEF Keeps
<1>2. timedOut' \in Seq(Unreported) /\ q \in Seq(Unreported)
  BY <1>1 DEF Keeps, IsRest
<1> DEFINE new == [line |-> armedLine, seq |-> linesArmed]
<1> HIDE DEF new
<1>3. timedOut' = Append(q, new)
  BY <1>1 DEF new
<1>4. Len(timedOut') = Len(q) + 1 /\ \A i \in 1..(Len(q) + 1) : timedOut'[i] = IF i <= Len(q) THEN q[i] ELSE new
  BY <1>2, <1>3
<1>5. ASSUME NEW i \in DOMAIN timedOut'
      PROVE  (\E j \in DOMAIN timedOut : timedOut'[i] = timedOut[j]) \/ timedOut'[i] = new
  <2>1. i \in 1..(Len(q) + 1)
    BY <1>2, <1>4
  <2>2. CASE i <= Len(q)
    <3>1. i \in 1..Len(q) /\ timedOut'[i] = q[i]
      BY <2>1, <2>2, <1>4
    <3>2. i + k \in DOMAIN timedOut /\ q[i] = timedOut[i + k]
      BY <3>1, <1>1 DEF IsRest
    <3>3. QED
      BY <3>1, <3>2
  <2>3. CASE ~(i <= Len(q))
    BY <2>1, <2>3, <1>4
  <2>4. QED
    BY <2>2, <2>3
<1>6. QED
  BY <1>5 DEF FromOld, Keeps, new

StillKnownAs(s, text) ==
  /\ \A j \in DOMAIN timedOut' : timedOut'[j].seq = s => timedOut'[j].line = text
  /\ standing' /\ s = linesArmed' => armedLine' = text

LEMMA TextMoves ==
  ASSUME HoldTyped, InOrder, OneText, KeptInOrder, ReadOn, MovesOn, running' = running, FromOld
  PROVE  OneText'
<1>1. PICK d : ShiftedBy(d)
  BY ChannelShifts
<1>2. linesArmed \in Nat
  BY DEF HoldTyped
<1>3. /\ \A j \in Keyed' : (j \in Keyed /\ typeahead'[j] = typeahead[j]) \/ NewlyArmed(j)
      /\ linesArmed' \in Nat
      /\ standing' => \/ standing /\ armedLine' = armedLine /\ linesArmed' = linesArmed
                      \/ linesArmed' = linesArmed + 1
  <2>1. standing' => \/ standing /\ armedLine' = armedLine /\ linesArmed' = linesArmed
                     \/ linesArmed' = linesArmed + 1
    BY Zenon DEF MovesOn, Stays, Opens
  <2>2. QED
    BY <2>1, TypeaheadGrows
<1>4. ASSUME NEW s \in Ahead, NEW text, KnownAs(s, text) PROVE StillKnownAs(s, text)
  <2>1. s \in Nat /\ s <= linesArmed
    BY AheadIsNat DEF InOrder
  <2>2. ASSUME standing', s = linesArmed' PROVE armedLine' = text
    <3>1. linesArmed' # linesArmed + 1
      BY <2>1, <2>2, <1>2
    <3>2. standing /\ armedLine' = armedLine /\ linesArmed' = linesArmed
      BY <3>1, <2>2, <1>3
    <3>3. QED
      BY <3>2, <2>2, <1>4 DEF KnownAs
  <2>3. ASSUME NEW j \in DOMAIN timedOut', timedOut'[j].seq = s PROVE timedOut'[j].line = text
    <3>1. CASE \E i \in DOMAIN timedOut : timedOut'[j] = timedOut[i]
      BY <3>1, <2>3, <1>4 DEF KnownAs
    <3>2. CASE standing /\ timedOut'[j] = [line |-> armedLine, seq |-> linesArmed]
      <4>1. standing /\ s = linesArmed /\ timedOut'[j].line = armedLine
        BY <3>2, <2>3
      <4>2. QED
        BY <4>1, <1>4 DEF KnownAs
    <3>3. QED
      BY <3>1, <3>2 DEF FromOld
  <2>4. QED
    BY <2>2, <2>3 DEF StillKnownAs
<1>5. ASSUME NEW i \in Waiting'
      PROVE  channel'[i].line = Expanded \/ StillKnownAs(channel'[i].seq, channel'[i].line)
  <2>1. i + d \in Waiting /\ channel'[i] = channel[i + d]
    BY <1>1 DEF Waiting, ShiftedBy
  <2>2. channel[i + d].seq \in Ahead
    BY <2>1 DEF Ahead
  <2>3. channel[i + d].line = Expanded \/ KnownAs(channel[i + d].seq, channel[i + d].line)
    BY <2>1 DEF OneText
  <2>4. channel[i + d].line = Expanded \/ StillKnownAs(channel[i + d].seq, channel[i + d].line)
    BY <2>2, <2>3, <1>4
  <2>5. QED
    BY <2>1, <2>4
<1>6. Runs' => StillKnownAs(running'.seq, running'.line)
  <2>1. Runs' => Runs /\ running.seq \in Ahead
    BY DEF Runs, Ahead
  <2>2. Runs => KnownAs(running.seq, running.line)
    BY DEF OneText
  <2>3. Runs' => StillKnownAs(running.seq, running.line)
    BY <2>1, <2>2, <1>4
  <2>4. QED
    BY <2>3
<1>7. ASSUME NEW i \in Keyed' PROVE StillKnownAs(typeahead'[i].seq, typeahead'[i].is)
  <2>1. CASE i \in Keyed /\ typeahead'[i] = typeahead[i]
    <3>1. typeahead[i].seq \in Ahead
      BY <2>1 DEF Ahead
    <3>2. KnownAs(typeahead[i].seq, typeahead[i].is)
      BY <2>1 DEF OneText
    <3>3. StillKnownAs(typeahead[i].seq, typeahead[i].is)
      BY <3>1, <3>2, <1>4
    <3>4. QED
      BY <3>3, <2>1
  <2>2. CASE NewlyArmed(i)
    <3>1. typeahead'[i].seq = linesArmed + 1 /\ linesArmed' = linesArmed + 1 /\ typeahead'[i].is = armedLine'
      BY <2>2 DEF NewlyArmed
    <3>2. \A j \in DOMAIN timedOut' : timedOut'[j].seq # linesArmed + 1
      <4>1. \A j \in DOMAIN timedOut : timedOut[j].seq \in 1..linesArmed
        BY DEF KeptInOrder
      <4>2. QED
        BY <4>1, <1>2 DEF FromOld
    <3>3. QED
      BY <3>1, <3>2 DEF StillKnownAs
  <2>3. QED
    BY <2>1, <2>2, <1>3
<1>8. QED
  BY <1>5, <1>6, <1>7 DEF OneText, KnownAs, StillKnownAs

HoldMoves ==
  /\ linesArmed' \in Nat
  /\ linesArmed' = linesArmed \/ (standing' /\ linesArmed' = linesArmed + 1)
  /\ standing' => \/ standing /\ armedLine' = armedLine /\ linesArmed' = linesArmed
                  \/ linesArmed' = linesArmed + 1

LEMMA HoldOnMoves ==
  ASSUME HoldTyped, MovesOn
  PROVE  HoldMoves
<1>1. linesArmed' \in Nat /\ (linesArmed' = linesArmed \/ (standing' /\ linesArmed' = linesArmed + 1))
  BY TypeaheadGrows
<1>2. standing' => \/ standing /\ armedLine' = armedLine /\ linesArmed' = linesArmed
                   \/ linesArmed' = linesArmed + 1
  BY Zenon DEF MovesOn, Stays, Opens
<1>3. QED
  BY <1>1, <1>2 DEF HoldMoves

LEMMA KeptOfRest ==
  ASSUME HoldTyped, KeptInOrder, HoldMoves, NEW k, IsRest(timedOut', k), evicted' > 0 => timedOut' # <<>>
  PROVE  KeptInOrder'
<1>0. timedOut \in Seq(Unreported) /\ linesArmed \in Nat
  BY DEF HoldTyped
<1>1. ASSUME NEW i \in DOMAIN timedOut'
      PROVE  i \in Nat /\ i + k \in DOMAIN timedOut /\ timedOut'[i] = timedOut[i + k]
  BY <1>0 DEF IsRest
<1>2. k \in Nat
  BY DEF IsRest
<1>3. ASSUME NEW i \in DOMAIN timedOut', NEW j \in DOMAIN timedOut', i < j PROVE timedOut'[i].seq < timedOut'[j].seq
  <2>1. i + k < j + k
    BY <1>1, <1>2, <1>3
  <2>2. QED
    BY <2>1, <1>1 DEF KeptInOrder
<1>4. ASSUME NEW i \in DOMAIN timedOut' PROVE timedOut'[i].seq \in 1..linesArmed' /\ (standing' => timedOut'[i].seq < linesArmed')
  <2>1. timedOut'[i].seq \in 1..linesArmed /\ (standing => timedOut'[i].seq < linesArmed)
    BY <1>1 DEF KeptInOrder
  <2>2. QED
    BY <2>1, <1>0 DEF HoldMoves
<1>5. QED
  BY <1>3, <1>4 DEF KeptInOrder

LEMMA KeptOfKeeps ==
  ASSUME HoldTyped, KeptInOrder, HoldMoves, standing' => linesArmed' = linesArmed + 1, Keeps
  PROVE  KeptInOrder'
<1>0. timedOut \in Seq(Unreported) /\ linesArmed \in Nat /\ standing /\ linesArmed > 0
  BY DEF HoldTyped, Keeps
<1>1. PICK k, q : /\ k \in {0, 1} /\ IsRest(q, k)
                  /\ timedOut' = Append(q, [line |-> armedLine, seq |-> linesArmed])
  BY DEF Keeps
<1> k \in {0, 1}
  BY <1>1
<1> DEFINE new == [line |-> armedLine, seq |-> linesArmed]
<1>2. timedOut' \in Seq(Unreported) /\ q \in Seq(Unreported) /\ new.seq = linesArmed /\ timedOut' = Append(q, new)
  BY <1>1 DEF Keeps, IsRest
<1> HIDE DEF new
<1>3. Len(timedOut') = Len(q) + 1 /\ \A i \in 1..(Len(q) + 1) : timedOut'[i] = IF i <= Len(q) THEN q[i] ELSE new
  BY <1>2
<1>4. \A i \in DOMAIN timedOut' : /\ i \in 1..(Len(q) + 1)
                                  /\ i <= Len(q) => timedOut'[i] = q[i]
                                  /\ ~(i <= Len(q)) => timedOut'[i].seq = linesArmed /\ i = Len(q) + 1
  BY <1>2, <1>3
<1>5. \A i \in 1..Len(q) : i + k \in DOMAIN timedOut /\ q[i] = timedOut[i + k]
  BY <1>1, <1>0 DEF IsRest
<1>6. \A i \in 1..Len(q) : q[i].seq \in 1..linesArmed /\ q[i].seq < linesArmed
  BY <1>5, <1>0 DEF KeptInOrder
<1>7. Len(q) \in Nat
  BY <1>2
<1>8. ASSUME NEW i \in DOMAIN timedOut', NEW j \in DOMAIN timedOut', i < j PROVE timedOut'[i].seq < timedOut'[j].seq
  <2>1. i \in 1..Len(q) /\ timedOut'[i] = q[i]
    BY <1>4, <1>7, <1>8
  <2>2. CASE j <= Len(q)
    <3>1. j \in 1..Len(q) /\ timedOut'[j] = q[j]
      BY <1>4, <1>7, <2>2
    <3>2. i + k < j + k
      BY <2>1, <3>1, <1>8
    <3>3. QED
      BY <2>1, <3>1, <3>2, <1>5 DEF KeptInOrder
  <2>3. CASE ~(j <= Len(q))
    BY <2>1, <2>3, <1>4, <1>6
  <2>4. QED
    BY <2>2, <2>3
<1>9. ASSUME NEW i \in DOMAIN timedOut' PROVE timedOut'[i].seq \in 1..linesArmed' /\ (standing' => timedOut'[i].seq < linesArmed')
  <2>1. timedOut'[i].seq \in 1..linesArmed
    <3>1. CASE i <= Len(q)
      BY <3>1, <1>4, <1>6, <1>7
    <3>2. CASE ~(i <= Len(q))
      BY <3>2, <1>4, <1>0
    <3>3. QED
      BY <3>1, <3>2
  <2>2. linesArmed' \in Nat /\ linesArmed <= linesArmed' /\ (standing' => linesArmed < linesArmed')
    BY <1>0 DEF HoldMoves
  <2>3. QED
    BY <2>1, <2>2, <1>0
<1>10. timedOut' # <<>>
  BY <1>2, <1>3
<1>11. QED
  BY <1>8, <1>9, <1>10 DEF KeptInOrder

AheadMoves == \A s \in Ahead' : s \in Ahead \/ (standing' /\ linesArmed' = linesArmed + 1 /\ s = linesArmed')
StillPassed(k) == \E j \in 1..k - 1 : j \notin answered' /\ j \notin Ahead'

LEMMA PassedStays ==
  ASSUME HoldTyped, AheadMoves, NEW n \in Ahead \cup {0}, answered' \subseteq answered \cup {n},
         NEW k \in 1..linesArmed, Passed(k)
  PROVE  StillPassed(k)
<1>0. linesArmed \in Nat
  BY DEF HoldTyped
<1>1. PICK j \in 1..k - 1 : j \notin answered /\ j \notin Ahead
  BY DEF Passed
<1>2. j \notin answered'
  BY <1>1, <1>0
<1>3. j \notin Ahead'
  BY <1>1, <1>0 DEF AheadMoves
<1>4. QED
  BY <1>2, <1>3 DEF StillPassed

LEMMA StaleMoves ==
  ASSUME HoldTyped, KeptInOrder, NoneStale, FromOld, HoldMoves, AheadMoves,
         NEW n \in Ahead \cup {0}, answered' \subseteq answered \cup {n},
         n > 0 => /\ (\E i \in DOMAIN timedOut' : timedOut'[i].seq = n) => StillPassed(n)
                  /\ standing' /\ linesArmed' = n => StillPassed(n)
  PROVE  NoneStale'
<1>0. linesArmed \in Nat /\ answered \subseteq 0..linesArmed /\ (standing => linesArmed \in 1..linesArmed)
  BY DEF HoldTyped
<1>1. n \in Nat
  BY AheadIsNat
<1>2. ASSUME NEW i \in DOMAIN timedOut', timedOut'[i].seq \in answered' PROVE StillPassed(timedOut'[i].seq)
  <2>1. timedOut'[i].seq \in 1..linesArmed
    BY <1>0 DEF FromOld, KeptInOrder
  <2>2. CASE timedOut'[i].seq = n
    BY <2>1, <2>2, <1>0
  <2>3. CASE timedOut'[i].seq # n
    <3>1. timedOut'[i].seq \in answered
      BY <2>3, <1>2
    <3>2. Passed(timedOut'[i].seq)
      <4>1. CASE \E j \in DOMAIN timedOut : timedOut'[i] = timedOut[j]
        BY <4>1, <3>1 DEF NoneStale
      <4>2. CASE standing /\ timedOut'[i] = [line |-> armedLine, seq |-> linesArmed]
        <5>1. timedOut'[i].seq = linesArmed /\ standing
          BY <4>2
        <5>2. QED
          BY <5>1, <3>1 DEF NoneStale
      <4>3. QED
        BY <4>1, <4>2 DEF FromOld
    <3>3. QED
      BY <3>2, <2>1, PassedStays
  <2>4. QED
    BY <2>2, <2>3
<1>4. ASSUME standing', linesArmed' \in answered' PROVE StillPassed(linesArmed')
  <2>1. CASE linesArmed' = n
    <3>1. linesArmed' > 0
      BY <1>0, <1>4 DEF HoldMoves
    <3>2. QED
      BY <3>1, <2>1, <1>4
  <2>2. CASE linesArmed' # n
    <3>1. linesArmed' \in answered
      BY <2>2, <1>4
    <3>2. standing /\ linesArmed' = linesArmed
      BY <3>1, <1>0, <1>4 DEF HoldMoves
    <3>3. Passed(linesArmed) /\ linesArmed \in 1..linesArmed
      BY <3>1, <3>2, <1>0 DEF NoneStale
    <3>4. StillPassed(linesArmed)
      BY <3>3, PassedStays
    <3>5. QED
      BY <3>4, <3>2
  <2>3. QED
    BY <2>1, <2>2
<1>5. QED
  BY <1>2, <1>4 DEF NoneStale, Passed, StillPassed

(* nvim reports lines in the order they were armed.                        *)
LEMMA HeadIsOldest ==
  ASSUME HoldTyped, InOrder, channel # <<>>, Ran(Head(channel))
  PROVE  /\ 1 \in Waiting /\ Head(channel) = channel[1] /\ Head(channel).seq \in Ahead
         /\ \A i \in Waiting : i # 1 => channel[i].seq > Head(channel).seq
         /\ \A j \in Keyed : typeahead[j].seq > Head(channel).seq
         /\ Runs => running.seq > Head(channel).seq
         /\ \A s \in Ahead : s >= Head(channel).seq
<1>0. channel \in Seq(Message)
  BY DEF HoldTyped
<1>1. 1 \in DOMAIN channel /\ Head(channel) = channel[1]
  BY <1>0
<1>2. 1 \in Waiting
  BY <1>1 DEF Waiting
<1>3. Head(channel).seq \in Ahead
  BY <1>1, <1>2 DEF Ahead
<1>4. \A i \in Waiting : i # 1 => channel[1].seq < channel[i].seq
  <2>1. \A i \in Waiting : i # 1 => 1 < i
    BY <1>0 DEF Waiting
  <2>2. QED
    BY <2>1, <1>2 DEF InOrder
<1>5. \A j \in Keyed : channel[1].seq < typeahead[j].seq
  BY <1>2 DEF InOrder
<1>6. Runs => channel[1].seq < running.seq
  BY <1>2 DEF InOrder
<1>7. /\ \A i \in Waiting : channel[i].seq \in Nat
      /\ \A i \in Keyed : typeahead[i].seq \in Nat
      /\ Runs => running.seq \in Nat
  BY AheadIsNat
<1>8. \A i \in Waiting : i # 1 => channel[i].seq > Head(channel).seq
  BY <1>1, <1>2, <1>4, <1>7
<1>9. \A j \in Keyed : typeahead[j].seq > Head(channel).seq
  BY <1>1, <1>2, <1>5, <1>7
<1>10. Runs => running.seq > Head(channel).seq
  BY <1>1, <1>2, <1>6, <1>7
<1>11. Head(channel).seq \in Nat
  BY <1>1, <1>2, <1>7
<1>12. \A s \in Ahead : s >= Head(channel).seq
  <2>1. \A i \in Waiting : channel[i].seq >= Head(channel).seq
    BY <1>1, <1>7, <1>8, <1>11
  <2>2. \A i \in Keyed : typeahead[i].seq >= Head(channel).seq
    BY <1>7, <1>9, <1>11
  <2>3. Runs => running.seq >= Head(channel).seq
    BY <1>7, <1>10, <1>11
  <2>4. QED
    BY <2>1, <2>2, <2>3 DEF Ahead
<1>13. QED
  BY <1>1, <1>2, <1>3, <1>8, <1>9, <1>10, <1>12

(* A report that leaves its line kept or armed was taken for that of an    *)
(* older line of its text, which nvim can only have passed over.           *)
LEMMA OlderIsPassed ==
  ASSUME HoldTyped, InOrder, KeptInOrder, NoneStale, AheadMoves, channel # <<>>, Ran(Head(channel)),
         answered' \subseteq answered \cup {Head(channel).seq},
         NEW i \in DOMAIN timedOut, timedOut[i].seq < Head(channel).seq
  PROVE  StillPassed(Head(channel).seq)
<1> DEFINE n == Head(channel).seq
           k == timedOut[i].seq
<1>1. n \in Ahead /\ \A s \in Ahead : s >= n
  BY HeadIsOldest
<1>2. n \in Nat /\ \A s \in Ahead : s \in Nat
  BY <1>1, AheadIsNat
<1>3. k \in 1..linesArmed /\ linesArmed \in Nat
  BY DEF KeptInOrder, HoldTyped
<1>4. k < n /\ answered' \subseteq answered \cup {n}
  OBVIOUS
<1>5. CASE k \in answered
  <2>1. Passed(k)
    BY <1>5 DEF NoneStale
  <2> HIDE DEF n, k
  <2>2. StillPassed(k)
    BY <1>1, <1>3, <1>4, <2>1, PassedStays
  <2>3. PICK j \in 1..k - 1 : j \notin answered' /\ j \notin Ahead'
    BY <2>2 DEF StillPassed
  <2>4. j \in 1..n - 1
    BY <1>2, <1>3, <1>4
  <2>5. StillPassed(n)
    BY <2>3, <2>4 DEF StillPassed
  <2>6. QED
    BY <2>5 DEF n
<1>6. CASE k \notin answered
  <2> HIDE DEF n, k
  <2>1. k \notin answered' /\ k \notin Ahead
    BY <1>1, <1>2, <1>3, <1>4, <1>6
  <2>2. k \notin Ahead'
    BY <2>1, <1>3 DEF AheadMoves
  <2>3. k \in 1..n - 1
    BY <1>2, <1>3, <1>4
  <2>4. StillPassed(n)
    BY <2>1, <2>2, <2>3 DEF StillPassed
  <2>5. QED
    BY <2>4 DEF n
<1>7. QED
  BY <1>5, <1>6

(* Of the lines kept, a report known by its text is the oldest's.          *)
LEMMA OldestOfText ==
  ASSUME HoldTyped, KeptInOrder, NEW text, OfText(text) # {}
  PROVE  \E i \in DOMAIN timedOut :
           /\ timedOut[i].line = text /\ ReportedLine(text) = timedOut[i].seq
           /\ \A j \in DOMAIN timedOut : timedOut[j].line = text => timedOut[i].seq <= timedOut[j].seq
<1>0. timedOut \in Seq(Unreported)
  BY DEF HoldTyped
<1>1. OfText(text) \in SUBSET Nat
  BY <1>0 DEF OfText
<1> DEFINE i == Min(OfText(text))
<1>2. i \in OfText(text) /\ \A j \in OfText(text) : i <= j
  BY <1>1, MinOf
<1>3. ReportedLine(text) = timedOut[i].seq
  BY DEF ReportedLine
<1> HIDE DEF i
<1>4. i \in DOMAIN timedOut /\ timedOut[i].line = text
  BY <1>2 DEF OfText
<1>5. ASSUME NEW j \in DOMAIN timedOut, timedOut[j].line = text PROVE timedOut[i].seq <= timedOut[j].seq
  <2>1. i <= j /\ i \in Nat /\ j \in Nat
    BY <1>0, <1>2, <1>4, <1>5 DEF OfText
  <2>2. timedOut[i].seq \in Nat /\ timedOut[j].seq \in Nat
    BY <1>0, <1>4, KeptAreLines
  <2>3. i < j => timedOut[i].seq < timedOut[j].seq
    BY <1>4 DEF KeptInOrder
  <2>4. QED
    BY <2>1, <2>2, <2>3
<1>6. QED
  BY <1>3, <1>4, <1>5

LEMMA StaleReport ==
  ASSUME HoldTyped, InOrder, OneText, KeptInOrder, NoneStale, FoldReport,
         FromOld, HoldMoves, AheadMoves, ~EndedByReport(Head(channel).line) \/ (standing' => linesArmed' = linesArmed + 1),
         \E k \in Nat : IsRest(timedOut', k)
  PROVE  NoneStale'
<1> DEFINE m == Head(channel)
           n == m.seq
<1>0. channel \in Seq(Message) /\ channel # <<>> /\ m.is = "ran" /\ timedOut \in Seq(Unreported) /\ linesArmed \in Nat
  BY DEF HoldTyped, FoldReport, Received
<1>1. m = channel[1] /\ 1 \in DOMAIN channel /\ n \in Nat
  <2>1. m = channel[1] /\ 1 \in DOMAIN channel
    BY <1>0
  <2>2. QED
    BY <2>1, <1>0, MessagesAre
<1>2. answered' = IF m.line = Expanded THEN answered ELSE answered \cup {n}
  BY DEF FoldReport
<1>3. NoteReported(m.line)
  BY DEF FoldReport
<1>4. CASE m.line = Expanded \/ n = 0
  <2>1. answered' \subseteq answered \cup {0} /\ ~(0 > 0) /\ 0 \in Ahead \cup {0}
    BY <1>2, <1>4
  <2>2. QED
    BY <2>1, StaleMoves
<1>5. CASE m.line # Expanded /\ n > 0
  <2>1. Ran(m)
    BY <1>0, <1>5 DEF Ran
  <2>2. 1 \in Waiting /\ n \in Ahead
    BY <2>1, <1>0, HeadIsOldest
  <2>3. KnownAs(n, m.line)
    BY <2>2, <1>1, <1>5 DEF OneText
  <2>4. answered' \subseteq answered \cup {n}
    BY <1>2
  <2>5. n <= linesArmed
    BY <2>2 DEF InOrder
  <2>6. ASSUME NEW i \in DOMAIN timedOut, timedOut[i].seq < n PROVE StillPassed(n)
    BY <2>6, <2>1, <2>4, <1>0, OlderIsPassed
  <2>7. ASSUME NEW i \in DOMAIN timedOut', timedOut'[i].seq = n PROVE StillPassed(n)
    <3>1. PICK k \in Nat : IsRest(timedOut', k)
      OBVIOUS
    <3>2. i + k \in DOMAIN timedOut /\ timedOut[i + k].seq = n
      BY <3>1, <2>7, <1>0 DEF IsRest
    <3>3. timedOut[i + k].line = m.line
      BY <3>2, <2>3 DEF KnownAs
    <3>4. OfText(m.line) # {}
      BY <3>2, <3>3 DEF OfText
    <3>5. PICK j \in DOMAIN timedOut : ReportedLine(m.line) = timedOut[j].seq
      BY <3>4, OldestOfText
    <3>6. timedOut' = After(ReportedLine(m.line))
      BY <3>4, <1>3 DEF NoteReported, Matched, Renamed
    <3>7. timedOut[j].seq \in Nat
      BY <1>0, KeptAreLines
    <3>8. timedOut'[i].seq > timedOut[j].seq
      BY <3>5, <3>6, <3>7, <1>0, AfterFacts
    <3>9. timedOut[j].seq < n
      BY <3>8, <3>7, <2>7, <1>1
    <3>10. QED
      BY <3>9, <2>6
  <2>8. ASSUME standing', linesArmed' = n PROVE StillPassed(n)
    <3>1. ~EndedByReport(m.line) /\ standing /\ n = linesArmed
      BY <2>8, <2>5, <1>0 DEF HoldMoves
    <3>2. armedLine = m.line
      BY <3>1, <2>3 DEF KnownAs
    <3>3. OfText(m.line) # {}
      BY <3>1, <3>2 DEF EndedByReport
    <3>4. PICK j \in DOMAIN timedOut : ReportedLine(m.line) = timedOut[j].seq
      BY <3>3, OldestOfText
    <3>5. timedOut[j].seq < n
      BY <3>1 DEF KeptInOrder
    <3>6. QED
      BY <3>5, <2>6
  <2> HIDE DEF n, m
  <2>9. QED
    BY <2>2, <2>4, <2>7, <2>8, StaleMoves
<1>6. QED
  BY <1>1, <1>4, <1>5

LEMMA ComingIsAhead ==
  ASSUME HoldTyped
  PROVE  Coming \subseteq Ahead
<1>0. typeahead \in Seq(Keystroke)
  BY DEF HoldTyped
<1>1. \A i \in DOMAIN typeahead : typeahead[i].seq # 0 => i \in Keyed
  BY <1>0, KeystrokesAre DEF Keyed
<1>2. running # None /\ running.seq # 0 => Runs
  BY DEF HoldTyped, Runs, Running
<1>3. \A i \in DOMAIN typeahead : typeahead[i].seq # 0 => typeahead[i].seq \in Ahead
  BY <1>1 DEF Ahead
<1>4. running # None /\ running.seq # 0 => running.seq \in Ahead
  BY <1>2 DEF Ahead
<1>5. \A i \in Waiting : channel[i].seq \in Ahead
  BY DEF Ahead
<1>6. \A s \in ToReport : s # 0 => s \in Ahead
  BY <1>3, <1>4 DEF ToReport
<1>7. QED
  BY <1>5, <1>6 DEF Coming

LEMMA DroppedIsFinite ==
  ASSUME HoldTyped, InOrder
  PROVE  IsFiniteSet(Dropped) /\ Cardinality(Dropped) \in Nat
<1>1. \A s \in Coming : s \in 1..linesArmed
  <2>1. \A s \in Coming : s \in Nat /\ s > 0 /\ s <= linesArmed
    BY ComingIsAhead, AheadIsNat DEF InOrder
  <2>2. QED
    BY <2>1 DEF HoldTyped
<1>2. Dropped \subseteq 1..linesArmed
  BY <1>1 DEF Dropped
<1>3. IsFiniteSet(1..linesArmed)
  BY FS_Interval DEF HoldTyped
<1>4. IsFiniteSet(Dropped)
  BY <1>2, <1>3, FS_Subset
<1>5. QED
  BY <1>4, FS_CardinalityType

New(s) == standing' /\ linesArmed' = linesArmed + 1 /\ s = linesArmed'

(* A fold sends nothing nvim may report but a line it arms.                *)
LEMMA ToReportMoves ==
  ASSUME HoldTyped, MovesOn, running' = running
  PROVE  \A s \in ToReport' \ {0} : s \in ToReport \/ New(s)
<1>1. /\ typeahead' \in Seq(Keystroke)
      /\ \A j \in Keyed' : (j \in Keyed /\ typeahead'[j] = typeahead[j]) \/ NewlyArmed(j)
  BY TypeaheadGrows
<1>2. ASSUME NEW i \in DOMAIN typeahead', typeahead'[i].seq # 0
      PROVE  typeahead'[i].seq \in ToReport \/ New(typeahead'[i].seq)
  <2>1. typeahead'[i] \in Keystroke
    BY <1>1
  <2>2. typeahead'[i].seq \in Nat
    BY <2>1 DEF Keystroke
  <2>3. i \in Keyed'
    BY <2>2, <1>2 DEF Keyed
  <2>4. CASE i \in Keyed /\ typeahead'[i] = typeahead[i]
    BY <2>4 DEF Keyed, ToReport
  <2>5. CASE NewlyArmed(i)
    BY <2>5 DEF NewlyArmed, New
  <2>6. QED
    BY <2>3, <2>4, <2>5, <1>1
<1>3. ASSUME running' # None, running'.reports PROVE running'.seq \in ToReport
  BY <1>3 DEF ToReport
<1>4. QED
  BY <1>2, <1>3 DEF ToReport

LEMMA ComingMoves ==
  ASSUME HoldTyped, ReadOn, MovesOn, running' = running, epoch' = epoch
  PROVE  \A s \in Coming' : s \in Coming \/ New(s)
<1>1. PICK d : ShiftedBy(d)
  BY ChannelShifts
<1>2. ASSUME NEW i \in Waiting', channel'[i].epoch = epoch' PROVE channel'[i].seq \in Coming
  <2>1. i \in DOMAIN channel' /\ Ran(channel'[i])
    BY DEF Waiting
  <2>2. i + d \in DOMAIN channel /\ channel'[i] = channel[i + d]
    BY <2>1, <1>1 DEF ShiftedBy
  <2>3. i + d \in Waiting /\ channel[i + d].epoch = epoch
    BY <2>1, <2>2, <1>2 DEF Waiting
  <2>4. QED
    BY <2>2, <2>3 DEF Coming
<1>3. \A s \in ToReport' \ {0} : s \in ToReport \/ New(s)
  BY ToReportMoves
<1>4. QED
  BY <1>2, <1>3 DEF Coming

(* When the oldest message is a report, what still comes is newer.         *)
LEMMA ComingAfterReport ==
  ASSUME HoldTyped, InOrder, channel # <<>>, Ran(Head(channel)), channel' = Tail(channel),
         MovesOn, running' = running, epoch' = epoch
  PROVE  \A s \in Coming' : (s \in Coming /\ s > Head(channel).seq) \/ New(s)
<1> DEFINE n == Head(channel).seq
<1>0. channel \in Seq(Message) /\ typeahead \in Seq(Keystroke)
  BY DEF HoldTyped
<1>1. /\ \A i \in Waiting : i # 1 => channel[i].seq > n
      /\ \A j \in Keyed : typeahead[j].seq > n
      /\ Runs => running.seq > n
  BY HeadIsOldest
<1>2. ASSUME NEW i \in Waiting', channel'[i].epoch = epoch' PROVE channel'[i].seq \in Coming /\ channel'[i].seq > n
  <2>1. i \in DOMAIN channel' /\ Ran(channel'[i])
    BY DEF Waiting
  <2>2. i + 1 \in DOMAIN channel /\ channel'[i] = channel[i + 1] /\ i + 1 # 1
    BY <2>1, <1>0
  <2>3. i + 1 \in Waiting /\ channel[i + 1].epoch = epoch
    BY <2>1, <2>2, <1>2 DEF Waiting
  <2>4. QED
    BY <2>2, <2>3, <1>1 DEF Coming
<1>3. \A s \in ToReport \ {0} : s > n
  <2>1. \A i \in DOMAIN typeahead : typeahead[i].seq # 0 => typeahead[i].seq > n
    BY <1>0, <1>1, KeystrokesAre DEF Keyed
  <2>2. running # None /\ running.seq # 0 => running.seq > n
    BY <1>1 DEF HoldTyped, Runs, Running
  <2>3. QED
    BY <2>1, <2>2 DEF ToReport
<1>4. \A s \in ToReport' \ {0} : s \in ToReport \/ New(s)
  BY ToReportMoves
<1>5. QED
  BY <1>2, <1>3, <1>4 DEF Coming

KeptStill(s) == \E i \in DOMAIN timedOut' : timedOut'[i].seq = s

(* Where every report to come is of a line kept or armed, none is of one   *)
(* that made room.                                                         *)
LEMMA AllKept ==
  ASSUME timedOut' \in Seq(Unreported), evicted' \in Nat, linesArmed' \in Nat, KeptInOrder',
         \A s \in Coming' : KeptStill(s) \/ (standing' /\ s = linesArmed')
  PROVE  Covered' /\ Counted'
<1>0. \A i \in DOMAIN timedOut' : timedOut'[i].seq \in Nat
  BY DEF KeptInOrder
<1>1. ASSUME NEW i \in DOMAIN timedOut' PROVE timedOut'[1].seq <= timedOut'[i].seq /\ 1 \in DOMAIN timedOut'
  <2>1. 1 \in DOMAIN timedOut' /\ (i = 1 \/ 1 < i)
    OBVIOUS
  <2>2. i = 1 \/ timedOut'[1].seq < timedOut'[i].seq
    BY <2>1 DEF KeptInOrder
  <2>3. QED
    BY <2>1, <2>2, <1>0
<1>2. Dropped' = {}
  <2>1. SUFFICES ASSUME NEW s \in Coming', timedOut' # <<>>, s < timedOut'[1].seq PROVE FALSE
    BY DEF Dropped
  <2>2. 1 \in DOMAIN timedOut'
    BY <2>1
  <2>3. CASE KeptStill(s)
    BY <2>1, <2>3, <1>0, <1>1 DEF KeptStill
  <2>4. CASE standing' /\ s = linesArmed'
    <3>1. timedOut'[1].seq < linesArmed'
      BY <2>2, <2>4 DEF KeptInOrder
    <3>2. QED
      BY <3>1, <2>1, <2>2, <2>4, <1>0
  <2>5. QED
    BY <2>3, <2>4
<1>3. Cardinality(Dropped') = 0
  BY <1>2, FS_EmptySet
<1>4. Counted'
  BY <1>3 DEF Counted
<1>5. Covered'
  BY DEF Covered, KeptStill, IsKept
<1>6. QED
  BY <1>4, <1>5

(* Nothing is kept, and the hold that stands goes on.                      *)
LEMMA OwedUnmoved ==
  ASSUME HoldTyped, InOrder, KeptInOrder, Covered, Counted, \A s \in Coming' : s \in Coming \/ New(s),
         timedOut' = timedOut, evicted' = evicted, standing => standing' /\ linesArmed' = linesArmed
  PROVE  Covered' /\ Counted'
<1>0. linesArmed \in Nat /\ evicted \in Nat /\ timedOut \in Seq(Unreported)
  BY DEF HoldTyped
<1>1. Dropped' \subseteq Dropped
  <2>1. SUFFICES ASSUME NEW s \in Coming', timedOut # <<>>, s < timedOut[1].seq PROVE s \in Coming
    BY DEF Dropped
  <2>2. 1 \in DOMAIN timedOut
    BY <2>1, <1>0
  <2>3. timedOut[1].seq \in 1..linesArmed
    BY <2>2 DEF KeptInOrder
  <2>4. QED
    BY <2>1, <2>3, <1>0 DEF New
<1>2. IsFiniteSet(Dropped) /\ Cardinality(Dropped) \in Nat
  BY DroppedIsFinite
<1>3. Cardinality(Dropped') <= Cardinality(Dropped) /\ Cardinality(Dropped') \in Nat
  BY <1>1, <1>2, FS_Subset, FS_CardinalityType
<1>4. Counted'
  BY <1>0, <1>2, <1>3 DEF Counted
<1>5. ASSUME NEW s \in Coming' PROVE KeptStill(s) \/ s \in Dropped' \/ (standing' /\ s = linesArmed')
  <2>1. CASE New(s)
    BY <2>1 DEF New
  <2>2. CASE s \in Coming
    <3>1. CASE IsKept(s)
      BY <3>1 DEF IsKept, KeptStill
    <3>2. CASE s \in Dropped
      BY <3>2 DEF Dropped
    <3>3. CASE standing /\ s = linesArmed
      BY <3>3
    <3>4. QED
      BY <2>2, <3>1, <3>2, <3>3 DEF Covered
  <2>3. QED
    BY <2>1, <2>2
<1>6. QED
  BY <1>4, <1>5 DEF Covered, KeptStill, IsKept

(* A hold ends unreported: its line is kept, and the one that makes room   *)
(* for it is counted.                                                      *)
LEMMA OwedKeeps ==
  ASSUME HoldTyped, InOrder, KeptInOrder, Covered, Counted, \A s \in Coming' : s \in Coming \/ New(s),
         Keeps, KeptInOrder', HoldMoves
  PROVE  Covered' /\ Counted'
<1>0. /\ linesArmed \in Nat /\ evicted \in Nat /\ timedOut \in Seq(Unreported) /\ standing
      /\ timedOut' \in Seq(Unreported) /\ linesArmed' \in Nat
  BY DEF HoldTyped, Keeps, HoldMoves
<1>1. PICK k, q : /\ k \in {0, 1} /\ IsRest(q, k)
                  /\ timedOut' = Append(q, [line |-> armedLine, seq |-> linesArmed])
                  /\ evicted' = evicted + k
  BY DEF Keeps
<1> k \in {0, 1}
  BY <1>1
<1> DEFINE new == [line |-> armedLine, seq |-> linesArmed]
           first == timedOut'[1].seq
<1>2. /\ q \in Seq(Unreported) /\ new.seq = linesArmed /\ timedOut' = Append(q, new)
      /\ Len(q) + k = Len(timedOut) /\ \A i \in 1..Len(q) : q[i] = timedOut[i + k]
  BY <1>1 DEF IsRest
<1> HIDE DEF new
<1>3. Len(timedOut') = Len(q) + 1 /\ \A i \in 1..(Len(q) + 1) : timedOut'[i] = IF i <= Len(q) THEN q[i] ELSE new
  BY <1>2
<1>4. Len(q) \in Nat /\ DOMAIN timedOut' = 1..(Len(q) + 1) /\ 1 \in DOMAIN timedOut'
  BY <1>0, <1>2, <1>3
<1>5. ASSUME NEW j \in DOMAIN timedOut, j > k PROVE KeptStill(timedOut[j].seq)
  <2>1. j - k \in 1..Len(q) /\ (j - k) + k = j
    BY <1>0, <1>2, <1>5
  <2>2. j - k \in DOMAIN timedOut' /\ timedOut'[j - k] = q[j - k]
    BY <2>1, <1>3, <1>4
  <2>3. q[j - k] = timedOut[j]
    BY <2>1, <1>2
  <2>4. QED
    BY <2>2, <2>3 DEF KeptStill
<1>6. KeptStill(linesArmed)
  <2>1. Len(q) + 1 \in DOMAIN timedOut' /\ timedOut'[Len(q) + 1] = new
    BY <1>3, <1>4
  <2>2. QED
    BY <2>1, <1>2 DEF KeptStill
<1>7. /\ \A i \in DOMAIN timedOut' : timedOut'[i].seq \in Nat
      /\ \A j \in DOMAIN timedOut : timedOut[j].seq \in Nat /\ timedOut[j].seq < linesArmed
  BY <1>0 DEF KeptInOrder
<1>8. first \in Nat /\ \A s : KeptStill(s) => s >= first
  <2>1. first \in Nat
    BY <1>4, <1>7
  <2>2. ASSUME NEW i \in DOMAIN timedOut' PROVE timedOut'[i].seq >= first
    <3>1. i = 1 \/ 1 < i
      BY <1>4
    <3>2. i = 1 \/ first < timedOut'[i].seq
      BY <3>1, <1>4 DEF KeptInOrder
    <3>3. QED
      BY <3>2, <1>7, <2>1
  <2>3. QED
    BY <2>1, <2>2 DEF KeptStill
<1>9. k = 1 => 1 \in DOMAIN timedOut /\ timedOut[1].seq < first
  <2>1. SUFFICES ASSUME k = 1 PROVE 1 \in DOMAIN timedOut /\ timedOut[1].seq < first
    OBVIOUS
  <2>2. 1 \in DOMAIN timedOut
    BY <2>1, <1>0, <1>2, <1>4
  <2>3. CASE Len(q) = 0
    <3>1. timedOut'[1] = new
      BY <2>3, <1>3
    <3>2. QED
      BY <3>1, <2>2, <1>2, <1>7
  <2>4. CASE Len(q) > 0
    <3>1. timedOut'[1] = q[1] /\ q[1] = timedOut[2] /\ 2 \in DOMAIN timedOut
      BY <2>1, <2>4, <1>0, <1>2, <1>3, <1>4
    <3>2. timedOut[1].seq < timedOut[2].seq
      BY <3>1, <2>2 DEF KeptInOrder
    <3>3. QED
      BY <3>1, <3>2, <2>2
  <2>5. QED
    BY <2>3, <2>4, <1>4
<1>10. timedOut # <<>> => timedOut[1].seq <= first
  <2>1. CASE k = 1
    BY <2>1, <1>7, <1>8, <1>9
  <2>2. CASE k = 0 /\ timedOut # <<>>
    <3>1. 1 \in 1..Len(q) /\ 1 \in DOMAIN timedOut
      BY <2>2, <1>0, <1>2
    <3>2. timedOut'[1] = q[1] /\ q[1] = timedOut[1]
      BY <3>1, <2>2, <1>2, <1>3
    <3>3. QED
      BY <3>1, <3>2, <1>7
  <2>3. QED
    BY <2>1, <2>2
<1>11. timedOut' # <<>>
  BY <1>4, <1>0
<1> HIDE DEF first
<1>12. ASSUME NEW s \in Coming' PROVE KeptStill(s) \/ s \in Dropped' \/ (standing' /\ s = linesArmed')
  <2>1. CASE New(s)
    BY <2>1 DEF New
  <2>2. CASE s \in Coming
    <3>0. s \in Nat
      BY <2>2, ComingIsAhead, AheadIsNat
    <3>1. ASSUME NEW j \in DOMAIN timedOut, timedOut[j].seq = s PROVE KeptStill(s) \/ s \in Dropped'
      <4>1. CASE j > k
        BY <4>1, <3>1, <1>5
      <4>2. CASE ~(j > k)
        <5>1. k = 1 /\ j = 1
          BY <4>2, <1>0
        <5>2. s < first
          BY <5>1, <3>1, <1>9
        <5>3. QED
          BY <5>2, <1>11 DEF Dropped, first
      <4>3. QED
        BY <4>1, <4>2
    <3>2. ASSUME s \in Dropped PROVE s \in Dropped'
      <4>1. timedOut # <<>> /\ s < timedOut[1].seq
        BY <3>2 DEF Dropped
      <4>2. 1 \in DOMAIN timedOut
        BY <4>1, <1>0
      <4>3. s < first
        BY <4>1, <4>2, <3>0, <1>7, <1>8, <1>10
      <4>4. QED
        BY <4>3, <1>11 DEF Dropped, first
    <3>3. CASE standing /\ s = linesArmed
      BY <3>3, <1>6
    <3>4. QED
      BY <2>2, <3>1, <3>2, <3>3 DEF Covered, IsKept
  <2>3. QED
    BY <2>1, <2>2
<1>13. ASSUME NEW s \in Dropped' PROVE s \in Dropped \/ (k = 1 /\ s = timedOut[1].seq)
  <2>1. s \in Coming' /\ s < first
    BY <1>13 DEF Dropped, first
  <2>2. ~New(s)
    <3>1. New(s) => s = linesArmed' /\ standing'
      BY DEF New
    <3>2. standing' => first < linesArmed'
      BY <1>4 DEF KeptInOrder, first
    <3>3. QED
      BY <3>1, <3>2, <2>1, <1>0, <1>8
  <2>3. s \in Coming
    BY <2>1, <2>2
  <2>4. s \in Nat
    BY <2>3, ComingIsAhead, AheadIsNat
  <2>5. ~KeptStill(s)
    BY <2>1, <2>4, <1>8
  <2>6. ~(standing /\ s = linesArmed)
    BY <2>5, <1>6
  <2>7. ASSUME NEW j \in DOMAIN timedOut, timedOut[j].seq = s PROVE k = 1 /\ s = timedOut[1].seq
    <3>1. ~(j > k)
      BY <2>5, <2>7, <1>5
    <3>2. k = 1 /\ j = 1
      BY <3>1, <1>0
    <3>3. QED
      BY <3>2, <2>7
  <2>8. QED
    BY <2>3, <2>6, <2>7 DEF Covered, IsKept
<1>14. IsFiniteSet(Dropped) /\ Cardinality(Dropped) \in Nat
  BY DroppedIsFinite
<1>15. Cardinality(Dropped') <= Cardinality(Dropped) + k /\ Cardinality(Dropped') \in Nat
  <2>1. CASE k = 0
    <3>1. Dropped' \subseteq Dropped
      BY <2>1, <1>13
    <3>2. Cardinality(Dropped') <= Cardinality(Dropped) /\ Cardinality(Dropped') \in Nat
      BY <3>1, <1>14, FS_Subset, FS_CardinalityType
    <3>3. QED
      BY <3>2, <2>1, <1>14
  <2>2. CASE k = 1
    <3> DEFINE more == Dropped \cup {timedOut[1].seq}
    <3>1. Dropped' \subseteq more
      BY <1>13
    <3>2. /\ IsFiniteSet(more) /\ Cardinality(more) \in Nat
          /\ Cardinality(more) = Cardinality(Dropped) \/ Cardinality(more) = Cardinality(Dropped) + 1
      BY <1>14, FS_AddElement, FS_CardinalityType
    <3> HIDE DEF more
    <3>3. Cardinality(Dropped') <= Cardinality(more) /\ Cardinality(Dropped') \in Nat
      BY <3>1, <3>2, FS_Subset, FS_CardinalityType
    <3>4. QED
      BY <3>2, <3>3, <2>2, <1>14
  <2>3. QED
    BY <2>1, <2>2
<1>16. Counted'
  BY <1>0, <1>1, <1>14, <1>15 DEF Counted
<1>17. QED
  BY <1>12, <1>16 DEF Covered, KeptStill, IsKept

(* The answers to come stay ahead of the reports they do not count.        *)
LEMMA RestoredMoves ==
  ASSUME HoldTyped, InRange, RestoredFirst, ReadOn, MovesOn, running' = running, epoch' = epoch
  PROVE  RestoredFirst'
<1>1. PICK d : ShiftedBy(d)
  BY ChannelShifts
<1>2. SUFFICES ASSUME NEW i \in DOMAIN channel', channel'[i].is = "restored", channel'[i].epoch = epoch
               PROVE  /\ \A j \in Waiting' : i < j => channel'[i].seq < channel'[j].seq
                      /\ \A s \in ToReport' \ {0} : channel'[i].seq < s
  BY DEF RestoredFirst
<1>3. i + d \in DOMAIN channel /\ channel'[i] = channel[i + d]
  BY <1>1 DEF ShiftedBy
<1>4. /\ \A j \in Waiting : i + d < j => channel[i + d].seq < channel[j].seq
      /\ \A s \in ToReport \ {0} : channel[i + d].seq < s
      /\ channel[i + d].seq <= linesArmed
  BY <1>2, <1>3 DEF RestoredFirst, InRange
<1>5. ASSUME NEW j \in Waiting', i < j PROVE channel'[i].seq < channel'[j].seq
  <2>1. j \in DOMAIN channel' /\ Ran(channel'[j])
    BY DEF Waiting
  <2>2. j + d \in DOMAIN channel /\ channel'[j] = channel[j + d]
    BY <2>1, <1>1 DEF ShiftedBy
  <2>3. j + d \in Waiting
    BY <2>1, <2>2 DEF Waiting
  <2>4. i + d < j + d
    BY <1>1, <1>5, <2>1 DEF ShiftedBy
  <2>5. QED
    BY <1>3, <1>4, <2>2, <2>3, <2>4
<1>6. ASSUME NEW s \in ToReport' \ {0} PROVE channel'[i].seq < s
  <2>1. s \in ToReport \/ New(s)
    BY ToReportMoves
  <2>2. channel[i + d].seq \in Nat /\ linesArmed \in Nat
    BY <1>3, MessagesAre DEF HoldTyped
  <2>3. New(s) => s = linesArmed + 1
    BY DEF New
  <2>4. QED
    BY <1>3, <1>4, <2>1, <2>2, <2>3
<1>7. QED
  BY <1>5, <1>6

(* A report spends what was owed of its line, or of the lines before it.   *)
LEMMA OwedReport ==
  ASSUME HoldTyped, InOrder, OneText, KeptInOrder, Covered, Counted,
         FoldReport, ~Misleads(Head(channel)), KeptInOrder',
         timedOut' \in Seq(Unreported), evicted' \in Nat,
         IF EndedByReport(Head(channel).line) THEN MovesOn ELSE Stays
  PROVE  Covered' /\ Counted'
<1> DEFINE m == Head(channel)
           n == m.seq
<1>0. /\ channel \in Seq(Message) /\ channel # <<>> /\ channel' = Tail(channel) /\ m.is = "ran"
      /\ running' = running /\ epoch' = epoch /\ NoteReported(m.line) /\ m.epoch = epoch
      /\ timedOut \in Seq(Unreported) /\ evicted \in Nat /\ linesArmed \in Nat
  BY DEF HoldTyped, FoldReport, Received, Misleads
<1>1. /\ m = channel[1] /\ 1 \in DOMAIN channel /\ n \in Nat
      /\ n = 0 => m.line = Other
      /\ n > 0 => m.line \in ViewLines \cup {Expanded}
  <2>1. m = channel[1] /\ 1 \in DOMAIN channel
    BY <1>0
  <2>2. QED
    BY <2>1, <1>0, MessagesAre
<1>2. MovesOn /\ HoldMoves
  BY HoldOnMoves DEF MovesOn
<1>3. linesArmed' \in Nat
  BY <1>2 DEF HoldMoves
<1>4. armedLine \in ViewLines \cup {None} /\ \A i \in DOMAIN timedOut : timedOut[i].line \in ViewLines /\ timedOut[i].seq \in Nat
  BY <1>0, KeptAreLines DEF HoldTyped
<1>5. Stays => linesArmed' = linesArmed /\ (standing' <=> standing)
  BY DEF Stays
<1>6. CASE n = 0
  <2>1. m.line = Other
    BY <1>1, <1>6
  <2>2. OfText(m.line) = {} /\ armedLine # m.line /\ ~NamesView(m.line)
    BY <2>1, <1>4, Apart DEF OfText, NamesView
  <2>3. timedOut' = timedOut /\ evicted' = evicted
    BY <2>2, <1>0 DEF NoteReported, Matched, Renamed
  <2>4. ~EndedByReport(m.line)
    BY <2>2 DEF EndedByReport
  <2>5. standing => standing' /\ linesArmed' = linesArmed
    BY <2>4, <1>5
  <2>6. \A s \in Coming' : s \in Coming \/ New(s)
    BY <1>0, <1>2, ComingMoves DEF ReadOn
  <2>7. QED
    BY <2>3, <2>5, <2>6, OwedUnmoved
<1>7. CASE n > 0
  <2>1. Ran(m) /\ NamesView(m.line)
    BY <1>0, <1>1, <1>7 DEF Ran, NamesView
  <2>2. 1 \in Waiting
    BY <2>1, <1>0, HeadIsOldest
  <2>3. n \in Coming
    BY <2>2, <1>0, <1>1 DEF Coming
  <2>4. \A s \in Coming' : (s \in Coming /\ s > n) \/ New(s)
    BY <2>1, <1>0, <1>2, ComingAfterReport
  <2>5. \A s \in Coming : s \in Nat
    BY ComingIsAhead, AheadIsNat
  <2>6. m.line = Expanded \/ KnownAs(n, m.line)
    BY <2>2, <1>1 DEF OneText
  <2>7. \A s : New(s) => standing' /\ s = linesArmed'
    BY DEF New
  <2>8. CASE IsKept(n)
    <3>1. PICK i \in DOMAIN timedOut : timedOut[i].seq = n
      BY <2>8 DEF IsKept
    <3>2. 1 \in DOMAIN timedOut /\ timedOut[1].seq <= n
      <4>1. 1 \in DOMAIN timedOut /\ (i = 1 \/ 1 < i)
        BY <1>0
      <4>2. i = 1 \/ timedOut[1].seq < timedOut[i].seq
        BY <4>1 DEF KeptInOrder
      <4>3. QED
        BY <4>1, <4>2, <3>1, <1>4
    <3>3. ASSUME NEW s \in Coming, s > n PROVE IsKept(s) \/ (standing /\ s = linesArmed)
      <4>1. ~(s < timedOut[1].seq)
        BY <3>2, <3>3, <2>5, <1>1, <1>4
      <4>2. s \notin Dropped
        BY <4>1 DEF Dropped
      <4>3. QED
        BY <4>2, <3>3 DEF Covered
    <3>4. CASE m.line = Expanded
      <4>1. OfText(m.line) = {} /\ armedLine # m.line /\ OwesUnreported
        BY <3>2, <3>4, <1>0, <1>4, Apart DEF OfText, OwesUnreported
      <4>2. ~EndedByReport(m.line)
        BY <4>1 DEF EndedByReport
      <4>3. timedOut' = timedOut \/ timedOut' = Tail(timedOut)
        BY <4>1, <1>0 DEF NoteReported, Matched
      <4>4. ASSUME NEW j \in DOMAIN timedOut, timedOut[j].seq > n PROVE KeptStill(timedOut[j].seq)
        <5>1. CASE timedOut' = timedOut
          BY <5>1 DEF KeptStill
        <5>2. CASE timedOut' = Tail(timedOut)
          <6>1. j # 1
            BY <3>2, <4>4, <1>1, <1>4
          <6>2. j - 1 \in DOMAIN timedOut' /\ timedOut'[j - 1] = timedOut[j]
            BY <6>1, <5>2, <1>0
          <6>3. QED
            BY <6>2 DEF KeptStill
        <5>3. QED
          BY <4>3, <5>1, <5>2
      <4>5. ASSUME NEW s \in Coming' PROVE KeptStill(s) \/ (standing' /\ s = linesArmed')
        <5>1. CASE New(s)
          BY <5>1, <2>7
        <5>2. CASE s \in Coming /\ s > n
          BY <5>2, <3>3, <4>2, <4>4, <1>5 DEF IsKept
        <5>3. QED
          BY <2>4, <5>1, <5>2
      <4>6. QED
        BY <4>5, <1>3, AllKept
    <3>5. CASE m.line # Expanded
      <4>1. timedOut[i].line = m.line
        BY <3>1, <3>5, <2>6 DEF KnownAs
      <4>2. OfText(m.line) # {}
        BY <4>1 DEF OfText
      <4>3. ReportedLine(m.line) \in Nat /\ ReportedLine(m.line) <= n
        <5>1. PICK j \in DOMAIN timedOut :
                /\ ReportedLine(m.line) = timedOut[j].seq
                /\ \A l \in DOMAIN timedOut : timedOut[l].line = m.line => timedOut[j].seq <= timedOut[l].seq
          BY <4>2, OldestOfText
        <5>2. QED
          BY <5>1, <4>1, <3>1, <1>4
      <4>4. timedOut' = After(ReportedLine(m.line))
        BY <4>2, <1>0 DEF NoteReported, Matched, Renamed
      <4>5. ~EndedByReport(m.line)
        BY <4>2 DEF EndedByReport
      <4>6. ASSUME NEW j \in DOMAIN timedOut, timedOut[j].seq > n PROVE KeptStill(timedOut[j].seq)
        <5>1. timedOut[j].seq > ReportedLine(m.line)
          BY <4>3, <4>6, <1>1, <1>4
        <5>2. QED
          BY <5>1, <4>3, <4>4, <1>0, AfterFacts DEF KeptStill
      <4>7. ASSUME NEW s \in Coming' PROVE KeptStill(s) \/ (standing' /\ s = linesArmed')
        <5>1. CASE New(s)
          BY <5>1, <2>7
        <5>2. CASE s \in Coming /\ s > n
          BY <5>2, <3>3, <4>5, <4>6, <1>5 DEF IsKept
        <5>3. QED
          BY <2>4, <5>1, <5>2
      <4>8. QED
        BY <4>7, <1>3, AllKept
    <3>6. QED
      BY <3>4, <3>5
  <2>9. CASE n \in Dropped
    <3>1. timedOut # <<>> /\ n < timedOut[1].seq
      BY <2>9 DEF Dropped
    <3>2. IsFiniteSet(Dropped) /\ Cardinality(Dropped) \in Nat
      BY DroppedIsFinite
    <3>3. IsFiniteSet(Dropped \ {n}) /\ Cardinality(Dropped \ {n}) = Cardinality(Dropped) - 1 /\ Cardinality(Dropped \ {n}) \in Nat
      BY <2>9, <3>2, FS_RemoveElement, FS_CardinalityType
    <3>4. evicted > 0
      BY <3>2, <3>3, <1>0 DEF Counted
    <3>5. OfText(m.line) = {} /\ armedLine # m.line
      BY <3>1, <3>4, <1>0 DEF Misleads
    <3>6. ~EndedByReport(m.line)
      BY <3>4, <3>5 DEF EndedByReport, OwesUnreported
    <3>7. timedOut' = timedOut /\ evicted' \in {evicted, evicted - 1}
      BY <3>4, <3>5, <1>0 DEF NoteReported, Matched, OwesUnreported
    <3>8. \A s \in Coming' : (s \in Coming /\ s > n) \/ New(s)
      BY <2>4
    <3>9. ~New(linesArmed') /\ \A s : ~New(s)
      BY <3>6, <1>0, <1>5 DEF New
    <3>10. Dropped' \subseteq Dropped \ {n}
      <4>1. \A s \in Coming' : s \in Coming /\ s # n
        BY <2>5, <3>8, <3>9, <1>1
      <4>2. QED
        BY <4>1, <3>7 DEF Dropped
    <3>11. Cardinality(Dropped') <= Cardinality(Dropped \ {n}) /\ Cardinality(Dropped') \in Nat
      BY <3>3, <3>10, FS_Subset, FS_CardinalityType
    <3>12. Cardinality(Dropped) <= evicted
      BY DEF Counted
    <3>13. Cardinality(Dropped') <= evicted'
      BY <3>2, <3>3, <3>7, <3>11, <3>12, <1>0
    <3>14. ASSUME NEW s \in Coming' PROVE KeptStill(s) \/ s \in Dropped' \/ (standing' /\ s = linesArmed')
      <4>1. s \in Coming
        BY <3>8, <3>9
      <4>2. CASE IsKept(s)
        BY <4>2, <3>7 DEF IsKept, KeptStill
      <4>3. CASE s \in Dropped
        BY <4>3, <3>7 DEF Dropped
      <4>4. CASE standing /\ s = linesArmed
        BY <4>4, <3>6, <1>5
      <4>5. QED
        BY <4>1, <4>2, <4>3, <4>4 DEF Covered
    <3>15. QED
      BY <3>13, <3>14 DEF Covered, Counted, KeptStill, IsKept
  <2>10. CASE standing /\ n = linesArmed
    <3>1. \A s \in Coming : s <= linesArmed
      BY ComingIsAhead DEF InOrder
    <3>2. \A s \in Coming' : New(s)
      BY <2>4, <2>5, <2>10, <3>1, <1>0
    <3>3. \A s \in Coming' : KeptStill(s) \/ (standing' /\ s = linesArmed')
      BY <3>2, <2>7
    <3>4. QED
      BY <3>3, <1>3, AllKept
  <2>11. QED
    BY <2>3, <2>8, <2>9, <2>10 DEF Covered
<1>8. QED
  BY <1>1, <1>6, <1>7

(* An answer ends what is owed of the lines it counts, none of which is to *)
(* come.                                                                   *)
LEMMA OwedRestored ==
  ASSUME HoldTyped, InOrder, KeptInOrder, Owed, FoldRestored, ~Misleads(Head(channel)), KeptInOrder',
         timedOut' \in Seq(Unreported), evicted' \in Nat
  PROVE  Covered' /\ Counted'
<1> DEFINE m == Head(channel)
           r == m.seq
<1>0. /\ channel \in Seq(Message) /\ channel # <<>> /\ channel' = Tail(channel) /\ m.is = "restored"
      /\ running' = running /\ epoch' = epoch /\ m.epoch = epoch
      /\ timedOut' = After(r) /\ evicted' = 0
      /\ UNCHANGED <<standing, armedLine, linesArmed, typeahead>>
      /\ timedOut \in Seq(Unreported) /\ evicted \in Nat /\ linesArmed \in Nat
  BY DEF HoldTyped, FoldRestored, Received, Misleads
<1>1. m = channel[1] /\ 1 \in DOMAIN channel /\ r \in Nat
  <2>1. m = channel[1] /\ 1 \in DOMAIN channel
    BY <1>0
  <2>2. QED
    BY <2>1, <1>0, MessagesAre
<1>2. Stays /\ MovesOn
  BY <1>0 DEF Stays, MovesOn
<1>3. \A s \in Coming' : s \in Coming \/ New(s)
  BY <1>0, <1>2, ComingMoves DEF ReadOn
<1>4. \A s : ~New(s)
  BY <1>0 DEF New
<1>5. \A s \in Coming : s \in Nat
  BY ComingIsAhead, AheadIsNat
<1>6. ASSUME NEW s \in Coming PROVE s > r
  <2>1. /\ \A j \in Waiting : 1 < j => channel[1].seq < channel[j].seq
        /\ \A x \in ToReport \ {0} : channel[1].seq < x
    BY <1>0, <1>1 DEF Owed, RestoredFirst
  <2>2. \A j \in Waiting : 1 < j
    BY <1>0, <1>1 DEF Waiting, Ran
  <2>3. r < s
    BY <2>1, <2>2, <1>1 DEF Coming
  <2>4. QED
    BY <2>3, <1>1, <1>5
<1>7. \A i \in DOMAIN timedOut : timedOut[i].seq \in Nat
  BY <1>0, KeptAreLines
<1>8. ASSUME NEW s \in Coming PROVE s \notin Dropped
  <2>1. SUFFICES ASSUME s \in Dropped PROVE FALSE
    OBVIOUS
  <2>2. timedOut # <<>> /\ s < timedOut[1].seq
    BY <2>1 DEF Dropped
  <2>3. Dropped # {} /\ IsFiniteSet(Dropped) /\ Cardinality(Dropped) \in Nat
    BY <2>1, DroppedIsFinite
  <2>4. Cardinality(Dropped) # 0
    BY <2>3, FS_EmptySet
  <2>5. evicted > 0
    BY <2>3, <2>4, <1>0 DEF Owed, Counted
  <2>6. ~(r + 1 < timedOut[1].seq)
    BY <2>2, <2>5, <1>0 DEF Misleads
  <2>7. timedOut[1].seq \in Nat
    BY <2>2, <1>0, <1>7
  <2>8. s > r /\ s \in Nat
    BY <1>5, <1>6
  <2>9. QED
    BY <2>2, <2>6, <2>7, <2>8, <1>1
<1>9. ASSUME NEW s \in Coming' PROVE KeptStill(s) \/ (standing' /\ s = linesArmed')
  <2>1. s \in Coming /\ s > r
    BY <1>3, <1>4, <1>6
  <2>2. CASE IsKept(s)
    <3>1. PICK j \in DOMAIN timedOut : timedOut[j].seq = s
      BY <2>2 DEF IsKept
    <3>2. \E i \in DOMAIN timedOut' : timedOut'[i] = timedOut[j]
      BY <3>1, <2>1, <1>0, <1>1, AfterFacts
    <3>3. QED
      BY <3>1, <3>2 DEF KeptStill
  <2>3. CASE standing /\ s = linesArmed
    BY <2>3, <1>0
  <2>4. QED
    BY <2>1, <2>2, <2>3, <1>8 DEF Owed, Covered
<1>10. linesArmed' \in Nat
  BY <1>0
<1>11. QED
  BY <1>9, <1>10, AllKept

(* What nvim does moves a line on its way: to where it is run, and to its  *)
(* report.                                                                 *)
EngineMoves(e) ==
  /\ e \in {0, 1}
  /\ UNCHANGED <<standing, held, armedLine, linesArmed, timedOut, evicted, answered, epoch>>
  /\ \A i \in Waiting' :
       \/ i \in Waiting /\ channel'[i] = channel[i]
       \/ /\ Runs /\ running.reports /\ ~Runs' /\ i = Len(channel) + 1
          /\ channel'[i].seq = running.seq /\ channel'[i].line \in {running.line, Expanded}
  /\ \A j \in Keyed' : j \in Nat /\ j > 0 /\ j + e \in Keyed /\ typeahead'[j] = typeahead[j + e]
  /\ Runs' => \/ Runs /\ running'.seq = running.seq /\ running'.line = running.line
              \/ /\ ~Runs /\ e = 1 /\ 1 \in Keyed
                 /\ running'.seq = typeahead[1].seq /\ running'.line = typeahead[1].is
  /\ ToReport' \ {0} \subseteq ToReport

LEMMA EngineKeepsOrder ==
  ASSUME HoldTyped, InOrder, NEW e, EngineMoves(e)
  PROVE  InOrder' /\ Ahead' \subseteq Ahead
<1>0. channel \in Seq(Message) /\ Len(channel) \in Nat /\ linesArmed' = linesArmed /\ e \in {0, 1}
  BY DEF HoldTyped, EngineMoves
<1>1. /\ \A i \in Waiting : i \in Nat /\ i <= Len(channel)
      /\ \A i \in Waiting : channel[i].seq \in Nat
      /\ \A i \in Keyed : typeahead[i].seq \in Nat
      /\ Runs => running.seq \in Nat
  <2>1. \A i \in Waiting : i \in Nat /\ i <= Len(channel)
    BY <1>0 DEF Waiting
  <2>2. QED
    BY <2>1, AheadIsNat
<1>2. ASSUME NEW i \in Waiting'
      PROVE  \/ i \in Waiting /\ channel'[i] = channel[i]
             \/ Runs /\ ~Runs' /\ i = Len(channel) + 1 /\ channel'[i].seq = running.seq
  BY DEF EngineMoves
<1>3. ASSUME NEW j \in Keyed' PROVE j \in Nat /\ j > 0 /\ j + e \in Keyed /\ typeahead'[j] = typeahead[j + e]
  BY DEF EngineMoves
<1>4. Runs' => \/ Runs /\ running'.seq = running.seq
               \/ ~Runs /\ e = 1 /\ 1 \in Keyed /\ running'.seq = typeahead[1].seq
  BY DEF EngineMoves
<1>5. ASSUME NEW i \in Waiting', NEW j \in Waiting', i < j PROVE channel'[i].seq < channel'[j].seq
  <2>1. i \in Waiting /\ channel'[i] = channel[i]
    BY <1>0, <1>1, <1>2, <1>5
  <2>2. CASE j \in Waiting /\ channel'[j] = channel[j]
    BY <2>1, <2>2, <1>5 DEF InOrder
  <2>3. CASE Runs /\ channel'[j].seq = running.seq
    BY <2>1, <2>3 DEF InOrder
  <2>4. QED
    BY <2>2, <2>3, <1>2
<1>6. ASSUME NEW i \in Keyed', NEW j \in Keyed', i < j PROVE typeahead'[i].seq < typeahead'[j].seq
  <2>1. i + e < j + e
    BY <1>0, <1>3, <1>6
  <2>2. QED
    BY <2>1, <1>3 DEF InOrder
<1>7. ASSUME NEW i \in Waiting', NEW j \in Keyed' PROVE channel'[i].seq < typeahead'[j].seq
  <2>1. CASE i \in Waiting /\ channel'[i] = channel[i]
    BY <2>1, <1>3 DEF InOrder
  <2>2. CASE Runs /\ channel'[i].seq = running.seq
    BY <2>2, <1>3 DEF InOrder
  <2>3. QED
    BY <2>1, <2>2, <1>2
<1>8. ASSUME Runs', NEW i \in Waiting' PROVE channel'[i].seq < running'.seq
  <2>1. i \in Waiting /\ channel'[i] = channel[i]
    BY <1>2, <1>8
  <2>2. CASE Runs /\ running'.seq = running.seq
    BY <2>1, <2>2 DEF InOrder
  <2>3. CASE 1 \in Keyed /\ running'.seq = typeahead[1].seq
    BY <2>1, <2>3 DEF InOrder
  <2>4. QED
    BY <2>2, <2>3, <1>4, <1>8
<1>9. ASSUME Runs', NEW j \in Keyed' PROVE running'.seq < typeahead'[j].seq
  <2>1. CASE Runs /\ running'.seq = running.seq
    BY <2>1, <1>3 DEF InOrder
  <2>2. CASE e = 1 /\ 1 \in Keyed /\ running'.seq = typeahead[1].seq
    <3>1. 1 < j + e
      BY <2>2, <1>3
    <3>2. QED
      BY <3>1, <2>2, <1>3 DEF InOrder
  <2>3. QED
    BY <2>1, <2>2, <1>4, <1>9
<1>10. Ahead' \subseteq Ahead
  <2>1. ASSUME NEW i \in Waiting' PROVE channel'[i].seq \in Ahead
    BY <1>2 DEF Ahead
  <2>2. ASSUME NEW j \in Keyed' PROVE typeahead'[j].seq \in Ahead
    BY <1>3 DEF Ahead
  <2>3. ASSUME Runs' PROVE running'.seq \in Ahead
    BY <2>3, <1>4 DEF Ahead
  <2>4. QED
    BY <2>1, <2>2, <2>3 DEF Ahead
<1>11. \A s \in Ahead' : s <= linesArmed'
  BY <1>0, <1>10 DEF InOrder
<1>12. Runs' => /\ \A i \in Waiting' : channel'[i].seq < running'.seq
                /\ \A j \in Keyed' : running'.seq < typeahead'[j].seq
  BY <1>8, <1>9
<1>13. InOrder'
  BY <1>5, <1>6, <1>7, <1>11, <1>12 DEF InOrder
<1>14. QED
  BY <1>10, <1>13

LEMMA EngineKeepsTexts ==
  ASSUME HoldTyped, OneText, NEW e, EngineMoves(e)
  PROVE  OneText'
<1>1. \A s, text : KnownAs(s, text) => StillKnownAs(s, text)
  BY DEF KnownAs, StillKnownAs, EngineMoves
<1>2. ASSUME NEW i \in Waiting' PROVE channel'[i].line = Expanded \/ StillKnownAs(channel'[i].seq, channel'[i].line)
  <2>1. CASE i \in Waiting /\ channel'[i] = channel[i]
    BY <2>1, <1>1 DEF OneText
  <2>2. CASE Runs /\ channel'[i].seq = running.seq /\ channel'[i].line \in {running.line, Expanded}
    BY <2>2, <1>1 DEF OneText
  <2>3. QED
    BY <2>1, <2>2 DEF EngineMoves
<1>3. ASSUME Runs' PROVE StillKnownAs(running'.seq, running'.line)
  <2>1. CASE Runs /\ running'.seq = running.seq /\ running'.line = running.line
    BY <2>1, <1>1 DEF OneText
  <2>2. CASE 1 \in Keyed /\ running'.seq = typeahead[1].seq /\ running'.line = typeahead[1].is
    BY <2>2, <1>1 DEF OneText
  <2>3. QED
    BY <2>1, <2>2, <1>3 DEF EngineMoves
<1>4. ASSUME NEW j \in Keyed' PROVE StillKnownAs(typeahead'[j].seq, typeahead'[j].is)
  <2>1. j + e \in Keyed /\ typeahead'[j] = typeahead[j + e]
    BY DEF EngineMoves
  <2>2. QED
    BY <2>1, <1>1 DEF OneText
<1>5. QED
  BY <1>2, <1>3, <1>4 DEF OneText, KnownAs, StillKnownAs

LEMMA EngineKeepsLines ==
  ASSUME HoldTyped, InOrder, KeptInOrder, NoneStale, NEW e, EngineMoves(e)
  PROVE  KeptInOrder' /\ NoneStale'
<1>1. /\ timedOut' = timedOut /\ evicted' = evicted /\ linesArmed' = linesArmed /\ standing' = standing
      /\ armedLine' = armedLine /\ answered' = answered /\ linesArmed \in Nat
  BY DEF EngineMoves, HoldTyped
<1>2. KeptInOrder'
  BY <1>1 DEF KeptInOrder
<1>3. FromOld
  BY <1>1 DEF FromOld
<1>4. HoldMoves /\ AheadMoves
  BY <1>1, EngineKeepsOrder DEF HoldMoves, AheadMoves
<1>5. 0 \in Ahead \cup {0} /\ answered' \subseteq answered \cup {0} /\ ~(0 > 0)
  BY <1>1
<1>6. NoneStale'
  BY <1>3, <1>4, <1>5, StaleMoves
<1>7. QED
  BY <1>2, <1>6

LEMMA EngineKeepsOwed ==
  ASSUME HoldTyped, InOrder, KeptInOrder, Owed, NEW e, EngineMoves(e),
         \A i \in DOMAIN channel' : channel'[i].is = "restored" =>
            \/ i \in DOMAIN channel /\ channel'[i] = channel[i]
            \/ i = Len(channel) + 1 /\ (\A s \in ToReport \ {0} : channel'[i].seq < s)
  PROVE  Owed'
<1>0. channel \in Seq(Message) /\ Len(channel) \in Nat /\ epoch' = epoch
  BY DEF HoldTyped, EngineMoves
<1>1. /\ timedOut' = timedOut /\ evicted' = evicted /\ linesArmed' = linesArmed /\ standing' = standing
  BY DEF EngineMoves
<1>2. Runs /\ running.reports => running.seq \in ToReport \ {0}
  BY DEF Runs, ToReport
<1>3. ToReport' \ {0} \subseteq ToReport \ {0}
  BY DEF EngineMoves
<1>4. ASSUME NEW i \in Waiting', channel'[i].epoch = epoch PROVE channel'[i].seq \in Coming
  BY <1>2, <1>4 DEF EngineMoves, Coming
<1>5. Coming' \subseteq Coming
  BY <1>0, <1>3, <1>4 DEF Coming
<1>6. Covered' /\ Counted'
  BY <1>1, <1>5, OwedUnmoved DEF Owed
<1>7. ASSUME NEW i \in DOMAIN channel', channel'[i].is = "restored", channel'[i].epoch = epoch
      PROVE  /\ \A j \in Waiting' : i < j => channel'[i].seq < channel'[j].seq
             /\ \A s \in ToReport' \ {0} : channel'[i].seq < s
  <2>1. CASE i \in DOMAIN channel /\ channel'[i] = channel[i]
    <3>1. /\ \A j \in Waiting : i < j => channel[i].seq < channel[j].seq
          /\ \A s \in ToReport \ {0} : channel[i].seq < s
      BY <2>1, <1>7 DEF Owed, RestoredFirst
    <3>2. ASSUME NEW j \in Waiting', i < j PROVE channel'[i].seq < channel'[j].seq
      <4>1. CASE j \in Waiting /\ channel'[j] = channel[j]
        BY <4>1, <3>1, <3>2, <2>1
      <4>2. CASE Runs /\ running.reports /\ channel'[j].seq = running.seq
        BY <4>2, <3>1, <2>1, <1>2
      <4>3. QED
        BY <4>1, <4>2 DEF EngineMoves
    <3>3. QED
      BY <3>1, <3>2, <2>1, <1>3
  <2>2. CASE i = Len(channel) + 1 /\ (\A s \in ToReport \ {0} : channel'[i].seq < s)
    <3>1. ASSUME NEW j \in Waiting', i < j PROVE FALSE
      <4>1. j \in Waiting => j \in Nat /\ j <= Len(channel)
        BY <1>0 DEF Waiting
      <4>2. j \in Waiting \/ j = Len(channel) + 1
        BY DEF EngineMoves
      <4>3. QED
        BY <4>1, <4>2, <3>1, <2>2, <1>0
    <3>2. QED
      BY <3>1, <2>2, <1>3
  <2>3. QED
    BY <2>1, <2>2, <1>7
<1>8. RestoredFirst'
  BY <1>0, <1>7 DEF RestoredFirst
<1>9. QED
  BY <1>6, <1>8 DEF Owed

LEMMA TypeaheadTail ==
  ASSUME typeahead \in Seq(Keystroke), typeahead # <<>>, typeahead' = Tail(typeahead)
  PROVE  /\ typeahead' \in Seq(Keystroke) /\ Head(typeahead) = typeahead[1] /\ 1 \in DOMAIN typeahead
         /\ \A j \in DOMAIN typeahead' : j \in Nat /\ j > 0 /\ j + 1 \in DOMAIN typeahead /\ typeahead'[j] = typeahead[j + 1]
OBVIOUS

LEMMA ChannelGrows ==
  ASSUME channel \in Seq(Message), NEW m \in Message, channel' = Append(channel, m)
  PROVE  /\ channel' \in Seq(Message)
         /\ \A i \in DOMAIN channel' : \/ i \in DOMAIN channel /\ channel'[i] = channel[i]
                                       \/ i = Len(channel) + 1 /\ channel'[i] = m
OBVIOUS

LEMMA EngineStep ==
  ASSUME HoldInv, NEW e, EngineMoves(e),
         channel' \in Seq(Message), typeahead' \in Seq(Keystroke), running' = None \/ running' \in Running,
         restores' \in Seq(Nat), registered' \in BOOLEAN, misled' \in BOOLEAN, typed' = typed, ~misled' => ~misled,
         \A i \in DOMAIN restores' : restores'[i] <= linesArmed,
         \A i \in DOMAIN channel' :
            \/ i \in DOMAIN channel /\ channel'[i] = channel[i]
            \/ /\ i = Len(channel) + 1 /\ channel'[i].epoch = epoch
               /\ channel'[i].is = "restored" => channel'[i].seq <= linesArmed
               /\ channel'[i].is = "restored" /\ ~misled' => \A s \in ToReport \ {0} : channel'[i].seq < s
  PROVE  HoldInv'
<1>1. HoldTyped /\ InOrder /\ InRange /\ OneText /\ KeptInOrder /\ NoneStale /\ (~misled => Owed)
  BY DEF HoldInv
<1>2. HoldTyped'
  BY <1>1 DEF HoldTyped, EngineMoves
<1>3. InOrder' /\ OneText' /\ KeptInOrder' /\ NoneStale'
  BY <1>1, EngineKeepsOrder, EngineKeepsTexts, EngineKeepsLines
<1>4. InRange'
  <2>1. epoch' = epoch /\ linesArmed' = linesArmed /\ epoch \in Nat
    BY <1>1 DEF EngineMoves, HoldTyped
  <2>2. ASSUME NEW i \in DOMAIN channel'
        PROVE  channel'[i].epoch <= epoch /\ (channel'[i].is = "restored" => channel'[i].seq <= linesArmed)
    BY <2>1, <1>1 DEF InRange
  <2>3. QED
    BY <2>1, <2>2 DEF InRange
<1>5. ASSUME ~misled' PROVE Owed'
  <2>1. \A i \in DOMAIN channel' : channel'[i].is = "restored" =>
            \/ i \in DOMAIN channel /\ channel'[i] = channel[i]
            \/ i = Len(channel) + 1 /\ (\A s \in ToReport \ {0} : channel'[i].seq < s)
    BY <1>5
  <2>2. Owed
    BY <1>1, <1>5
  <2>3. QED
    BY <2>1, <2>2, <1>1, EngineKeepsOwed
<1>6. QED
  BY <1>2, <1>3, <1>4, <1>5 DEF HoldInv

LEMMA SameChannel ==
  ASSUME channel' = channel
  PROVE  /\ \A i \in Waiting' : i \in Waiting /\ channel'[i] = channel[i]
         /\ \A i \in DOMAIN channel' : i \in DOMAIN channel /\ channel'[i] = channel[i]
BY DEF Waiting

LEMMA SameTypeahead ==
  ASSUME typeahead \in Seq(Keystroke), typeahead' = typeahead
  PROVE  \A j \in Keyed' : j \in Nat /\ j > 0 /\ j + 0 \in Keyed /\ typeahead'[j] = typeahead[j + 0]
BY DEF Keyed

LEMMA ReadStep ==
  ASSUME HoldInv, Read
  PROVE  HoldInv'
<1>1. /\ HoldTyped /\ InRange
      /\ typeahead \in Seq(Keystroke) /\ typeahead # <<>> /\ typeahead' = Tail(typeahead)
      /\ channel' = channel /\ restores' = restores /\ misled' = misled /\ typed' = typed /\ channel \in Seq(Message)
      /\ restores \in Seq(Nat) /\ registered \in BOOLEAN /\ misled \in BOOLEAN
      /\ running = None \/ running \in Running
      /\ UNCHANGED <<standing, held, armedLine, linesArmed, timedOut, evicted, answered, epoch>>
  BY DEF HoldInv, HoldTyped, Read, view
<1>2. /\ typeahead' \in Seq(Keystroke) /\ Head(typeahead) = typeahead[1] /\ 1 \in DOMAIN typeahead
      /\ \A j \in DOMAIN typeahead' : j \in Nat /\ j > 0 /\ j + 1 \in DOMAIN typeahead /\ typeahead'[j] = typeahead[j + 1]
  BY <1>1, TypeaheadTail
<1>3. \A j \in Keyed' : j \in Nat /\ j > 0 /\ j + 1 \in Keyed /\ typeahead'[j] = typeahead[j + 1]
  BY <1>2 DEF Keyed
<1>4. typeahead[1] \in Keystroke
  BY <1>1, <1>2
<1>5. typeahead[1].is \in Inputs /\ typeahead[1].seq \in Nat /\ (typeahead[1].seq = 0 <=> typeahead[1].is \notin ViewLines)
  BY <1>4 DEF Keystroke
<1>6. /\ running' = None \/ running' \in Running
      /\ registered' \in BOOLEAN
      /\ Runs' => \/ Runs /\ running'.seq = running.seq /\ running'.line = running.line
                  \/ ~Runs /\ 1 \in Keyed /\ running'.seq = typeahead[1].seq /\ running'.line = typeahead[1].is
      /\ running' # None /\ running'.reports
           => \/ running # None /\ running.reports /\ running'.seq = running.seq
              \/ running'.seq = typeahead[1].seq
  <2>1. CASE running' = running /\ registered' = registered
    BY <2>1, <1>1 DEF Runs
  <2>2. CASE /\ running = None /\ typeahead[1].is # Key
             /\ running' = [line |-> typeahead[1].is, seq |-> typeahead[1].seq, reports |-> registered, at |-> "run"]
             /\ registered' = (registered /\ typeahead[1].is # Clear)
    <3>1. running'.seq = typeahead[1].seq /\ running'.line = typeahead[1].is
      BY <2>2
    <3>2. registered' \in BOOLEAN
      BY <2>2
    <3>3. running' \in Running
      <4>1. typeahead[1].is \in ViewLines \cup {Clear}
        BY <2>2, <1>5 DEF Inputs
      <4>2. typeahead[1].seq = 0 <=> typeahead[1].is = Clear
        BY <4>1, <1>5, Apart
      <4>3. "run" \in {"run", "prompt"}
        OBVIOUS
      <4>4. running' \in [line : ViewLines \cup {Clear}, seq : Nat, reports : BOOLEAN, at : {"run", "prompt"}]
        BY <2>2, <4>1, <4>3, <1>1, <1>5
      <4>5. QED
        BY <4>2, <4>4, <3>1 DEF Running
    <3>4. ASSUME Runs' PROVE ~Runs /\ 1 \in Keyed
      <4>1. ~Runs
        BY <2>2 DEF Runs
      <4>2. typeahead[1].seq > 0
        BY <3>1, <3>4 DEF Runs
      <4>3. QED
        BY <4>1, <4>2, <1>2 DEF Keyed
    <3>5. QED
      BY <3>1, <3>2, <3>3, <3>4
  <2>3. CASE running # None /\ running' = [running EXCEPT !.at = "run"] /\ registered' = registered
    <3>1. running \in Running
      BY <2>3, <1>1
    <3>2. running' \in Running /\ running'.seq = running.seq /\ running'.line = running.line /\ running'.reports = running.reports
      BY <3>1, <2>3 DEF Running
    <3>3. Runs' => Runs
      BY <3>2, <2>3 DEF Runs
    <3>4. QED
      BY <3>2, <3>3, <2>3, <1>1
  <2>4. QED
    BY <2>1, <2>2, <2>3, <1>2 DEF Read
<1>7. ToReport' \ {0} \subseteq ToReport
  <2>1. \A j \in DOMAIN typeahead' : typeahead'[j].seq \in ToReport
    BY <1>2 DEF ToReport
  <2>2. typeahead[1].seq \in ToReport
    BY <1>2 DEF ToReport
  <2>3. running' # None /\ running'.reports => running'.seq \in ToReport
    BY <2>2, <1>6 DEF ToReport
  <2>4. QED
    BY <2>1, <2>3 DEF ToReport
<1>8. EngineMoves(1)
  <2>1. \A i \in Waiting' : i \in Waiting /\ channel'[i] = channel[i]
    BY <1>1, SameChannel
  <2>2. Runs' => \/ Runs /\ running'.seq = running.seq /\ running'.line = running.line
                 \/ ~Runs /\ 1 \in Keyed /\ running'.seq = typeahead[1].seq /\ running'.line = typeahead[1].is
    BY <1>6
  <2>3. UNCHANGED <<standing, held, armedLine, linesArmed, timedOut, evicted, answered, epoch>>
    BY <1>1
  <2>4. QED
    BY <2>1, <2>2, <2>3, <1>3, <1>7 DEF EngineMoves
<1>9. \A i \in DOMAIN channel' : i \in DOMAIN channel /\ channel'[i] = channel[i]
  BY <1>1, SameChannel
<1>10. \A i \in DOMAIN restores' : restores'[i] <= linesArmed
  BY <1>1 DEF InRange
<1>11. running' = None \/ running' \in Running
  BY <1>6
<1>12. registered' \in BOOLEAN
  BY <1>6
<1>13. channel' \in Seq(Message) /\ restores' \in Seq(Nat) /\ misled' \in BOOLEAN /\ (~misled' => ~misled)
  BY <1>1
<1>14. QED
  BY <1>1, <1>2, <1>8, <1>9, <1>10, <1>11, <1>12, <1>13, EngineStep

LEMMA AskStep ==
  ASSUME HoldInv, Ask
  PROVE  HoldInv'
<1> DEFINE m == [is |-> "prompt", line |-> None, seq |-> 0, epoch |-> epoch]
<1>1. /\ HoldTyped /\ InRange
      /\ typeahead \in Seq(Keystroke) /\ typeahead' = typeahead
      /\ restores' = restores /\ misled' = misled /\ typed' = typed /\ channel \in Seq(Message)
      /\ restores \in Seq(Nat) /\ registered \in BOOLEAN /\ registered' = registered /\ misled \in BOOLEAN
      /\ running # None /\ running \in Running /\ running' = [running EXCEPT !.at = "prompt"]
      /\ UNCHANGED <<standing, held, armedLine, linesArmed, timedOut, evicted, answered, epoch>>
      /\ epoch \in Nat
  BY DEF HoldInv, HoldTyped, Ask, view
<1>2. channel' = Append(channel, m)
  BY DEF Ask, Tell
<1>3. m \in Message /\ m.is = "prompt" /\ m.epoch = epoch
  BY <1>1 DEF Message, Lines
<1> HIDE DEF m
<1>4. /\ channel' \in Seq(Message)
      /\ \A i \in DOMAIN channel' : \/ i \in DOMAIN channel /\ channel'[i] = channel[i]
                                    \/ i = Len(channel) + 1 /\ channel'[i] = m
  BY <1>1, <1>2, <1>3, ChannelGrows
<1>5. running' \in Running /\ running'.seq = running.seq /\ running'.line = running.line /\ running'.reports = running.reports
  BY <1>1 DEF Running
<1>6. \A i \in Waiting' : i \in Waiting /\ channel'[i] = channel[i]
  BY <1>3, <1>4 DEF Waiting, Ran
<1>7. ToReport' \ {0} \subseteq ToReport
  BY <1>1, <1>5 DEF ToReport
<1>8. Runs' => Runs
  BY <1>1, <1>5 DEF Runs
<1>9. EngineMoves(0)
  <2>1. \A j \in Keyed' : j \in Nat /\ j > 0 /\ j + 0 \in Keyed /\ typeahead'[j] = typeahead[j + 0]
    BY <1>1, SameTypeahead
  <2>2. UNCHANGED <<standing, held, armedLine, linesArmed, timedOut, evicted, answered, epoch>>
    BY <1>1
  <2>3. QED
    BY <2>1, <2>2, <1>5, <1>6, <1>7, <1>8 DEF EngineMoves
<1>10. \A i \in DOMAIN restores' : restores'[i] <= linesArmed
  BY <1>1 DEF InRange
<1>11. \A i \in DOMAIN channel' : \/ i \in DOMAIN channel /\ channel'[i] = channel[i]
                                  \/ i = Len(channel) + 1 /\ channel'[i].epoch = epoch /\ channel'[i].is # "restored"
  BY <1>3, <1>4
<1>12. /\ typeahead' \in Seq(Keystroke) /\ restores' \in Seq(Nat) /\ registered' \in BOOLEAN
       /\ misled' \in BOOLEAN /\ (~misled' => ~misled) /\ typed' = typed
  BY <1>1
<1>13. QED
  BY <1>4, <1>5, <1>9, <1>10, <1>11, <1>12, EngineStep

LEMMA FinishStep ==
  ASSUME HoldInv, Finish
  PROVE  HoldInv'
<1>1. /\ HoldTyped /\ InRange
      /\ typeahead \in Seq(Keystroke) /\ typeahead' = typeahead
      /\ restores' = restores /\ misled' = misled /\ typed' = typed /\ channel \in Seq(Message)
      /\ restores \in Seq(Nat) /\ registered \in BOOLEAN /\ registered' = registered /\ misled \in BOOLEAN
      /\ running # None /\ running \in Running /\ running' = None
      /\ UNCHANGED <<standing, held, armedLine, linesArmed, timedOut, evicted, answered, epoch>>
      /\ epoch \in Nat
  BY DEF HoldInv, HoldTyped, Finish, view
<1>2. /\ running.line \in ViewLines \cup {Clear} /\ running.seq \in Nat /\ (running.seq = 0 <=> running.line = Clear)
      /\ running.reports \in BOOLEAN
  BY <1>1 DEF Running
<1>3. /\ channel' \in Seq(Message)
      /\ \A i \in DOMAIN channel' :
           \/ i \in DOMAIN channel /\ channel'[i] = channel[i]
           \/ /\ running.reports /\ i = Len(channel) + 1 /\ channel'[i].is = "ran" /\ channel'[i].epoch = epoch
              /\ channel'[i].seq = running.seq
              /\ running.seq > 0 => channel'[i].line \in {running.line, Expanded}
  <2>1. CASE running.reports
    <3>1. PICK text \in IF running.line = Clear THEN {Other} ELSE {running.line, Expanded} :
                 channel' = Append(channel, [is |-> "ran", line |-> text, seq |-> running.seq, epoch |-> epoch])
      BY <2>1 DEF Finish, Tell
    <3> DEFINE m == [is |-> "ran", line |-> text, seq |-> running.seq, epoch |-> epoch]
    <3>2. m \in Message
      <4>1. text \in Lines /\ (IF running.seq = 0 THEN text = Other ELSE text \in ViewLines \cup {Expanded})
        BY <1>2 DEF Lines
      <4>2. m \in [is : {"ran", "prompt", "restored"}, line : Lines, seq : Nat, epoch : Nat]
        BY <4>1, <1>1, <1>2
      <4>3. QED
        BY <4>1, <4>2 DEF Message
    <3>3. m.is = "ran" /\ m.seq = running.seq /\ m.epoch = epoch /\ (running.seq > 0 => m.line \in {running.line, Expanded})
      BY <1>2
    <3> HIDE DEF m
    <3>4. channel' = Append(channel, m)
      BY <3>1 DEF m
    <3>5. /\ channel' \in Seq(Message)
          /\ \A i \in DOMAIN channel' : \/ i \in DOMAIN channel /\ channel'[i] = channel[i]
                                        \/ i = Len(channel) + 1 /\ channel'[i] = m
      BY <1>1, <3>2, <3>4, ChannelGrows
    <3>6. QED
      BY <3>3, <3>5, <2>1
  <2>2. CASE ~running.reports
    <3>1. channel' = channel
      BY <2>2 DEF Finish
    <3>2. QED
      BY <3>1, <1>1
  <2>3. QED
    BY <2>1, <2>2
<1>4. ~Runs'
  BY <1>1 DEF Runs
<1>5. ASSUME NEW i \in Waiting'
      PROVE  \/ i \in Waiting /\ channel'[i] = channel[i]
             \/ /\ Runs /\ running.reports /\ ~Runs' /\ i = Len(channel) + 1
                /\ channel'[i].seq = running.seq /\ channel'[i].line \in {running.line, Expanded}
  <2>1. i \in DOMAIN channel' /\ Ran(channel'[i])
    BY DEF Waiting
  <2>2. CASE i \in DOMAIN channel /\ channel'[i] = channel[i]
    BY <2>1, <2>2 DEF Waiting
  <2>3. CASE /\ running.reports /\ i = Len(channel) + 1 /\ channel'[i].seq = running.seq
             /\ running.seq > 0 => channel'[i].line \in {running.line, Expanded}
    BY <2>1, <2>3, <1>1, <1>4 DEF Ran, Runs
  <2>4. QED
    BY <2>1, <2>2, <2>3, <1>3
<1>6. ToReport' \ {0} \subseteq ToReport
  BY <1>1 DEF ToReport
<1>7. EngineMoves(0)
  <2>1. \A j \in Keyed' : j \in Nat /\ j > 0 /\ j + 0 \in Keyed /\ typeahead'[j] = typeahead[j + 0]
    BY <1>1, SameTypeahead
  <2>2. UNCHANGED <<standing, held, armedLine, linesArmed, timedOut, evicted, answered, epoch>>
    BY <1>1
  <2>3. QED
    BY <2>1, <2>2, <1>4, <1>5, <1>6 DEF EngineMoves
<1>8. \A i \in DOMAIN restores' : restores'[i] <= linesArmed
  BY <1>1 DEF InRange
<1>9. \A i \in DOMAIN channel' : \/ i \in DOMAIN channel /\ channel'[i] = channel[i]
                                 \/ i = Len(channel) + 1 /\ channel'[i].epoch = epoch /\ channel'[i].is # "restored"
  BY <1>3
<1>10. /\ typeahead' \in Seq(Keystroke) /\ restores' \in Seq(Nat) /\ registered' \in BOOLEAN
       /\ misled' \in BOOLEAN /\ (~misled' => ~misled) /\ typed' = typed /\ running' = None
  BY <1>1
<1>11. QED
  BY <1>3, <1>7, <1>8, <1>9, <1>10, EngineStep

LEMMA RegisterStep ==
  ASSUME HoldInv, Register
  PROVE  HoldInv'
<1>1. /\ HoldTyped /\ InRange
      /\ typeahead \in Seq(Keystroke) /\ typeahead' = typeahead
      /\ restores # <<>> /\ restores' = Tail(restores) /\ typed' = typed /\ channel \in Seq(Message)
      /\ restores \in Seq(Nat) /\ registered \in BOOLEAN /\ registered' = TRUE /\ misled \in BOOLEAN
      /\ running = None \/ running \in Running
      /\ running' = running
      /\ UNCHANGED <<standing, held, armedLine, linesArmed, timedOut, evicted, answered, epoch>>
      /\ epoch \in Nat
  BY DEF HoldInv, HoldTyped, Register, view
<1>2. 1 \in DOMAIN restores /\ Head(restores) = restores[1] /\ restores[1] \in Nat
  BY <1>1
<1>3. Head(restores) \in Nat /\ Head(restores) <= linesArmed
  BY <1>1, <1>2 DEF InRange
<1>4. /\ channel' \in Seq(Message)
      /\ \A i \in DOMAIN channel' :
           \/ i \in DOMAIN channel /\ channel'[i] = channel[i]
           \/ /\ ~registered /\ i = Len(channel) + 1 /\ channel'[i].is = "restored" /\ channel'[i].epoch = epoch
              /\ channel'[i].seq = Head(restores)
  <2>1. CASE ~registered
    <3> DEFINE m == [is |-> "restored", line |-> None, seq |-> Head(restores), epoch |-> epoch]
    <3>1. channel' = Append(channel, m)
      BY <2>1 DEF Register, Tell
    <3>2. m \in Message
      BY <1>1, <1>3 DEF Message, Lines
    <3>3. m.is = "restored" /\ m.seq = Head(restores) /\ m.epoch = epoch
      OBVIOUS
    <3> HIDE DEF m
    <3>4. /\ channel' \in Seq(Message)
          /\ \A i \in DOMAIN channel' : \/ i \in DOMAIN channel /\ channel'[i] = channel[i]
                                        \/ i = Len(channel) + 1 /\ channel'[i] = m
      BY <1>1, <3>1, <3>2, ChannelGrows
    <3>5. QED
      BY <3>3, <3>4, <2>1
  <2>2. CASE registered
    <3>1. channel' = channel
      BY <2>2 DEF Register
    <3>2. QED
      BY <3>1, <1>1
  <2>3. QED
    BY <2>1, <2>2
<1>5. misled' \in BOOLEAN /\ (~misled' => ~misled)
      /\ (~registered /\ ~misled' => ToReport \cap 1..Head(restores) = {})
  <2>1. CASE registered
    <3>1. misled' = misled
      BY <2>1 DEF Register
    <3>2. QED
      BY <3>1, <2>1, <1>1
  <2>2. CASE ~registered
    <3>1. misled' = (misled \/ ToReport \cap 1..Head(restores) # {})
      BY <2>2 DEF Register
    <3>2. misled' \in BOOLEAN
      BY <3>1
    <3>3. ~misled' => ~misled /\ ToReport \cap 1..Head(restores) = {}
      BY <3>1
    <3>4. QED
      BY <3>2, <3>3
  <2>3. QED
    BY <2>1, <2>2
<1>6. \A i \in Waiting' : i \in Waiting /\ channel'[i] = channel[i]
  BY <1>4 DEF Waiting, Ran
<1>7. ToReport' \ {0} \subseteq ToReport /\ (Runs' => Runs)
  BY <1>1 DEF ToReport, Runs
<1>8. EngineMoves(0)
  <2>1. \A j \in Keyed' : j \in Nat /\ j > 0 /\ j + 0 \in Keyed /\ typeahead'[j] = typeahead[j + 0]
    BY <1>1, SameTypeahead
  <2>2. UNCHANGED <<standing, held, armedLine, linesArmed, timedOut, evicted, answered, epoch>>
    BY <1>1
  <2>3. running' = running
    BY <1>1
  <2>4. QED
    BY <2>1, <2>2, <2>3, <1>6, <1>7 DEF EngineMoves
<1>9. restores' \in Seq(Nat) /\ \A i \in DOMAIN restores' : restores'[i] <= linesArmed
  <2>1. restores' \in Seq(Nat)
    BY <1>1
  <2>2. \A i \in DOMAIN restores' : i + 1 \in DOMAIN restores /\ restores'[i] = restores[i + 1]
    BY <1>1
  <2>3. QED
    BY <2>1, <2>2, <1>1 DEF InRange
<1>10. ASSUME ~registered, ~misled', NEW s \in ToReport \ {0} PROVE Head(restores) < s
  <2>1. ToReport \subseteq Nat
    <3>1. \A i \in DOMAIN typeahead : typeahead[i].seq \in Nat
      BY <1>1, KeystrokesAre
    <3>2. running # None => running.seq \in Nat
      BY <1>1 DEF Running
    <3>3. QED
      BY <3>1, <3>2 DEF ToReport
  <2>2. s \in Nat /\ s # 0 /\ s \notin 1..Head(restores)
    BY <2>1, <1>5, <1>10
  <2>3. QED
    BY <2>2, <1>3
<1>11. \A i \in DOMAIN channel' :
          \/ i \in DOMAIN channel /\ channel'[i] = channel[i]
          \/ /\ i = Len(channel) + 1 /\ channel'[i].epoch = epoch
             /\ channel'[i].is = "restored" => channel'[i].seq <= linesArmed
             /\ channel'[i].is = "restored" /\ ~misled' => \A s \in ToReport \ {0} : channel'[i].seq < s
  BY <1>3, <1>4, <1>10
<1>12. /\ typeahead' \in Seq(Keystroke) /\ registered' \in BOOLEAN /\ typed' = typed
  BY <1>1
<1>13. running' = None \/ running' \in Running
  BY <1>1
<1>14. QED
  BY <1>4, <1>5, <1>8, <1>9, <1>11, <1>12, <1>13, EngineStep

(* What every fold leaves of the invariant, whatever it does to the lines  *)
(* kept.                                                                   *)
FoldMoves ==
  /\ ReadOn /\ MovesOn /\ running' = running /\ epoch' = epoch /\ FromOld
  /\ registered' \in BOOLEAN /\ held' \in Seq(Input) /\ timedOut' \in Seq(Unreported) /\ evicted' \in Nat
  /\ armedLine' \in ViewLines \cup {None} /\ standing' \in BOOLEAN /\ (standing' => armedLine' \in ViewLines)
  /\ misled' \in BOOLEAN /\ typed' \in Nat /\ answered' \subseteq 0..linesArmed
  /\ restores' = restores \/ restores' = Append(restores, linesArmed)

LEMMA FoldKeeps ==
  ASSUME HoldTyped, InOrder, InRange, OneText, KeptInOrder, FoldMoves
  PROVE  /\ HoldTyped' /\ InOrder' /\ InRange' /\ OneText' /\ HoldMoves /\ AheadMoves
         /\ RestoredFirst => RestoredFirst'
<1>1. InOrder' /\ AheadMoves
  BY OrderMoves DEF FoldMoves, AheadMoves
<1>2. OneText'
  BY TextMoves DEF FoldMoves
<1>3. HoldMoves
  BY HoldOnMoves DEF FoldMoves
<1>4. PICK d : ShiftedBy(d)
  BY ChannelShifts DEF FoldMoves
<1>5. linesArmed \in Nat /\ linesArmed' \in Nat /\ linesArmed <= linesArmed' /\ (standing' => linesArmed' > 0)
  BY <1>3 DEF HoldMoves, HoldTyped
<1>6. restores' \in Seq(Nat) /\ \A i \in DOMAIN restores' : restores'[i] <= linesArmed
  <2>1. restores \in Seq(Nat) /\ \A i \in DOMAIN restores : restores[i] <= linesArmed
    BY DEF HoldTyped, InRange
  <2>2. CASE restores' = restores
    BY <2>1, <2>2
  <2>3. CASE restores' = Append(restores, linesArmed)
    BY <2>1, <2>3, <1>5
  <2>4. QED
    BY <2>2, <2>3 DEF FoldMoves
<1>7. HoldTyped'
  <2>1. typeahead' \in Seq(Keystroke)
    BY TypeaheadGrows DEF FoldMoves
  <2>2. channel' \in Seq(Message)
    BY <1>4 DEF ShiftedBy
  <2>3. answered' \subseteq 0..linesArmed'
    BY <1>5 DEF FoldMoves
  <2>4. running' = None \/ running' \in Running
    BY DEF FoldMoves, HoldTyped
  <2>5. epoch' \in Nat
    BY DEF FoldMoves, HoldTyped
  <2>6. QED
    BY <2>1, <2>2, <2>3, <2>4, <2>5, <1>5, <1>6 DEF HoldTyped, FoldMoves
<1>8. InRange'
  <2>1. epoch' = epoch
    BY DEF FoldMoves
  <2>2. ASSUME NEW i \in DOMAIN channel'
        PROVE  channel'[i].epoch <= epoch /\ (channel'[i].is = "restored" => channel'[i].seq <= linesArmed')
    <3>1. i + d \in DOMAIN channel /\ channel'[i] = channel[i + d]
      BY <1>4 DEF ShiftedBy
    <3>2. channel[i + d].seq \in Nat
      BY <3>1, MessagesAre DEF HoldTyped
    <3>3. QED
      BY <3>1, <3>2, <1>5 DEF InRange
  <2>3. \A i \in DOMAIN restores' : restores'[i] <= linesArmed'
    BY <1>5, <1>6
  <2>4. QED
    BY <2>1, <2>2, <2>3 DEF InRange
<1>9. RestoredFirst => RestoredFirst'
  BY RestoredMoves DEF FoldMoves
<1>10. QED
  BY <1>1, <1>2, <1>3, <1>7, <1>8, <1>9

LEMMA HeldOpens ==
  ASSUME HoldTyped, NEW line, Deliver(held, typeahead, line)
  PROVE  Opens(typeahead, line)
BY DeliverOpens DEF HoldTyped

LEMMA OpensMoves ==
  ASSUME NEW line \in ViewLines \cup {None}, Opens(typeahead, line)
  PROVE  /\ MovesOn /\ held' \in Seq(Input) /\ standing' \in BOOLEAN
         /\ armedLine' \in ViewLines \cup {None} /\ (standing' => armedLine' \in ViewLines)
BY DEF MovesOn, Opens

LEMMA NothingAnswered ==
  ASSUME HoldTyped, KeptInOrder, NoneStale, FromOld, HoldMoves, AheadMoves, answered' = answered
  PROVE  NoneStale'
<1>1. 0 \in Ahead \cup {0} /\ answered' \subseteq answered \cup {0} /\ ~(0 > 0)
  OBVIOUS
<1>2. QED
  BY <1>1, StaleMoves

(* A fold that keeps no line and ends no hold.                             *)
LEMMA QuietFold ==
  ASSUME HoldInv, FoldMoves, timedOut' = timedOut, evicted' = evicted, answered' = answered,
         standing => standing' /\ linesArmed' = linesArmed, ~misled' => ~misled
  PROVE  HoldInv'
<1>1. HoldTyped /\ InOrder /\ InRange /\ OneText /\ KeptInOrder /\ NoneStale /\ (~misled => Owed)
  BY DEF HoldInv
<1>2. /\ HoldTyped' /\ InOrder' /\ InRange' /\ OneText' /\ HoldMoves /\ AheadMoves
      /\ RestoredFirst => RestoredFirst'
  BY <1>1, FoldKeeps
<1>3. IsRest(timedOut', 0) /\ (evicted' > 0 => timedOut' # <<>>)
  <2>1. IsRest(timedOut, 0)
    BY <1>1, WholeRest DEF HoldTyped
  <2>2. evicted' > 0 => timedOut' # <<>>
    BY <1>1 DEF KeptInOrder
  <2>3. QED
    BY <2>1, <2>2
<1>4. KeptInOrder'
  BY <1>1, <1>2, <1>3, KeptOfRest
<1>5. NoneStale'
  BY <1>1, <1>2, NothingAnswered DEF FoldMoves
<1>6. ASSUME ~misled' PROVE Owed'
  <2>1. \A s \in Coming' : s \in Coming \/ New(s)
    BY <1>1, ComingMoves DEF FoldMoves
  <2>2. Covered /\ Counted /\ RestoredFirst
    BY <1>1, <1>6 DEF Owed
  <2>3. Covered' /\ Counted'
    BY <1>1, <2>1, <2>2, OwedUnmoved
  <2>4. QED
    BY <2>2, <2>3, <1>2 DEF Owed
<1>7. QED
  BY <1>2, <1>4, <1>5, <1>6 DEF HoldInv

(* A fold that ends the hold unreported.                                   *)
LEMMA KeepingFold ==
  ASSUME HoldInv, FoldMoves, Keeps, answered' = answered, standing' => linesArmed' = linesArmed + 1,
         ~misled' => ~misled
  PROVE  HoldInv'
<1>1. HoldTyped /\ InOrder /\ InRange /\ OneText /\ KeptInOrder /\ NoneStale /\ (~misled => Owed)
  BY DEF HoldInv
<1>2. /\ HoldTyped' /\ InOrder' /\ InRange' /\ OneText' /\ HoldMoves /\ AheadMoves
      /\ RestoredFirst => RestoredFirst'
  BY <1>1, FoldKeeps
<1>3. KeptInOrder'
  BY <1>1, <1>2, KeptOfKeeps
<1>4. NoneStale'
  BY <1>1, <1>2, NothingAnswered DEF FoldMoves
<1>5. ASSUME ~misled' PROVE Owed'
  <2>1. \A s \in Coming' : s \in Coming \/ New(s)
    BY <1>1, ComingMoves DEF FoldMoves
  <2>2. Covered /\ Counted /\ RestoredFirst
    BY <1>1, <1>5 DEF Owed
  <2>3. Covered' /\ Counted'
    BY <1>1, <1>2, <1>3, <2>1, <2>2, OwedKeeps
  <2>4. QED
    BY <2>2, <2>3, <1>2 DEF Owed
<1>6. QED
  BY <1>2, <1>3, <1>4, <1>5 DEF HoldInv

LEMMA TypeStep ==
  ASSUME HoldInv, NEW is \in Inputs, Type(is)
  PROVE  HoldInv'
<1> DEFINE input == [is |-> is, at |-> typed + 1]
<1>1. /\ HoldTyped /\ typed \in Nat /\ held \in Seq(Input) /\ timedOut \in Seq(Unreported) /\ evicted \in Nat
      /\ typeahead \in Seq(Keystroke) /\ linesArmed \in Nat
      /\ armedLine \in ViewLines \cup {None} /\ (standing => armedLine \in ViewLines) /\ standing \in BOOLEAN
      /\ registered \in BOOLEAN /\ misled \in BOOLEAN /\ answered \subseteq 0..linesArmed
  BY DEF HoldInv, HoldTyped
<1>2. /\ typed' = typed + 1
      /\ UNCHANGED <<timedOut, evicted, running, registered, restores, channel, epoch, answered, misled>>
  BY DEF Type
<1>3. input \in Input /\ <<input>> \in Seq(Input)
  BY <1>1 DEF Input
<1>4. FromOld
  BY <1>2 DEF FromOld
<1>5. CASE standing
  <2>1. held' = Append(held, input) /\ UNCHANGED <<standing, armedLine, linesArmed, typeahead>>
    BY <1>5 DEF Type
  <2>2. MovesOn
    BY <2>1 DEF MovesOn, Stays
  <2>3. FoldMoves
    BY <1>1, <1>2, <1>3, <1>4, <2>1, <2>2 DEF FoldMoves, ReadOn
  <2>4. QED
    BY <1>2, <2>1, <2>3, QuietFold
<1>6. CASE ~standing
  <2>1. Deliver(<<input>>, typeahead, armedLine)
    BY <1>6 DEF Type
  <2>2. Opens(typeahead, armedLine)
    BY <1>1, <1>3, <2>1, DeliverOpens
  <2>3. /\ MovesOn /\ held' \in Seq(Input) /\ standing' \in BOOLEAN
        /\ armedLine' \in ViewLines \cup {None} /\ (standing' => armedLine' \in ViewLines)
    BY <1>1, <2>2, OpensMoves
  <2>4. FoldMoves
    BY <1>1, <1>2, <1>4, <2>3 DEF FoldMoves, ReadOn
  <2>5. QED
    BY <1>2, <1>6, <2>4, QuietFold
<1>7. QED
  BY <1>5, <1>6

(* A hold that ends unreported, at its bound or at a prompt.               *)
LEMMA UnreportedEnd ==
  ASSUME HoldInv, standing, KeepUnreported, Deliver(held, typeahead, None), ReadOn, typed' = typed,
         UNCHANGED <<running, registered, epoch, answered>>, misled' \in BOOLEAN, ~misled' => ~misled,
         restores' = restores \/ restores' = Append(restores, linesArmed)
  PROVE  HoldInv'
<1>1. HoldTyped
  BY DEF HoldInv
<1>2. Keeps
  BY <1>1, KeepUnreportedKeeps
<1>3. FromOld
  BY <1>1, <1>2, KeepsIsOld DEF HoldTyped
<1>4. Opens(typeahead, None)
  BY <1>1, HeldOpens
<1>5. /\ MovesOn /\ held' \in Seq(Input) /\ standing' \in BOOLEAN
      /\ armedLine' \in ViewLines \cup {None} /\ (standing' => armedLine' \in ViewLines)
  BY <1>4, OpensMoves
<1>6. FoldMoves
  BY <1>1, <1>2, <1>3, <1>5 DEF FoldMoves, HoldTyped, Keeps
<1>7. standing' => linesArmed' = linesArmed + 1
  BY <1>4 DEF Opens
<1>8. QED
  BY <1>2, <1>6, <1>7, KeepingFold

LEMMA UnmovedFold ==
  ASSUME HoldInv, ReadOn, typed' = typed, misled' \in BOOLEAN, ~misled' => ~misled,
         UNCHANGED <<standing, held, armedLine, linesArmed, typeahead, timedOut, evicted,
                     running, registered, restores, epoch, answered>>
  PROVE  HoldInv'
<1>1. MovesOn /\ FromOld
  BY DEF MovesOn, Stays, FromOld
<1>2. FoldMoves
  BY <1>1 DEF FoldMoves, HoldInv, HoldTyped
<1>3. QED
  BY <1>2, QuietFold

LEMMA ExpireStep ==
  ASSUME HoldInv, NEW g, Expire(g)
  PROVE  HoldInv'
<1>1. ReadOn /\ typed' = typed /\ UNCHANGED <<running, registered, epoch, answered>> /\ misled' = misled
  BY DEF Expire, ReadOn
<1>2. misled' \in BOOLEAN /\ (~misled' => ~misled)
  BY <1>1 DEF HoldInv, HoldTyped
<1>3. CASE standing /\ g = linesArmed
  <2>1. KeepUnreported /\ restores' = Append(restores, linesArmed) /\ Deliver(held, typeahead, None)
    BY <1>3 DEF Expire
  <2>2. QED
    BY <1>1, <1>2, <1>3, <2>1, UnreportedEnd
<1>4. CASE ~(standing /\ g = linesArmed)
  <2>1. UNCHANGED <<standing, held, armedLine, linesArmed, timedOut, evicted, typeahead, restores>>
    BY <1>4 DEF Expire
  <2>2. QED
    BY <1>1, <1>2, <2>1, UnmovedFold
<1>5. QED
  BY <1>3, <1>4

LEMMA ReceivedIs ==
  ASSUME HoldTyped, NEW kind, Received(kind)
  PROVE  /\ ReadOn /\ channel # <<>> /\ channel' = Tail(channel) /\ Head(channel).is = kind
         /\ typed' = typed /\ UNCHANGED <<running, registered, restores, epoch>>
         /\ misled' \in BOOLEAN /\ (~misled' => ~misled /\ ~Misleads(Head(channel)))
<1>1. /\ channel # <<>> /\ channel' = Tail(channel) /\ Head(channel).is = kind
      /\ typed' = typed /\ UNCHANGED <<running, registered, restores, epoch>>
      /\ misled' = (misled \/ Misleads(Head(channel)))
  BY DEF Received
<1>2. misled' \in BOOLEAN
  BY <1>1
<1>3. ~misled' => ~misled /\ ~Misleads(Head(channel))
  BY <1>1
<1>4. QED
  BY <1>1, <1>2, <1>3 DEF ReadOn

LEMMA FoldPromptStep ==
  ASSUME HoldInv, FoldPrompt
  PROVE  HoldInv'
<1>1. /\ ReadOn /\ typed' = typed /\ UNCHANGED <<running, registered, restores, epoch>>
      /\ misled' \in BOOLEAN /\ (~misled' => ~misled)
  BY ReceivedIs DEF FoldPrompt, HoldInv
<1>2. answered' = answered
  BY DEF FoldPrompt
<1>3. CASE standing
  <2>1. KeepUnreported /\ Deliver(held, typeahead, None)
    BY <1>3 DEF FoldPrompt
  <2>2. QED
    BY <1>1, <1>2, <1>3, <2>1, UnreportedEnd
<1>4. CASE ~standing
  <2>1. UNCHANGED <<standing, held, armedLine, linesArmed, timedOut, evicted, typeahead>>
    BY <1>4 DEF FoldPrompt
  <2>2. QED
    BY <1>1, <1>2, <2>1, UnmovedFold
<1>5. QED
  BY <1>3, <1>4

LEMMA FoldReportStep ==
  ASSUME HoldInv, FoldReport
  PROVE  HoldInv'
<1> DEFINE m == Head(channel)
<1>1. HoldTyped /\ InOrder /\ InRange /\ OneText /\ KeptInOrder /\ NoneStale /\ (~misled => Owed)
  BY DEF HoldInv
<1>2. /\ ReadOn /\ channel # <<>> /\ channel' = Tail(channel) /\ m.is = "ran"
      /\ typed' = typed /\ UNCHANGED <<running, registered, restores, epoch>>
      /\ misled' \in BOOLEAN /\ (~misled' => ~misled /\ ~Misleads(m))
  BY <1>1, ReceivedIs DEF FoldReport
<1>3. NoteReported(m.line)
  BY DEF FoldReport
<1>4. PICK k \in Nat : IsRest(timedOut', k)
  BY <1>1, <1>3, NoteLeavesRest
<1>5. evicted' \in Nat /\ (evicted' > 0 => timedOut' # <<>>)
  BY <1>1, <1>3, NoteLeavesRest
<1>6. timedOut' \in Seq(Unreported) /\ FromOld
  BY <1>1, <1>4, RestIsOld DEF IsRest, HoldTyped
<1>7. /\ IF EndedByReport(m.line) THEN MovesOn ELSE Stays
      /\ EndedByReport(m.line) => (standing' => linesArmed' = linesArmed + 1)
      /\ MovesOn /\ held' \in Seq(Input) /\ standing' \in BOOLEAN
      /\ armedLine' \in ViewLines \cup {None} /\ (standing' => armedLine' \in ViewLines)
  <2>1. CASE EndedByReport(m.line)
    <3>1. Deliver(held, typeahead, armedLine)
      BY <2>1 DEF FoldReport
    <3>2. Opens(typeahead, armedLine)
      BY <1>1, <3>1, HeldOpens
    <3>3. armedLine \in ViewLines \cup {None}
      BY <1>1 DEF HoldTyped
    <3>4. /\ MovesOn /\ held' \in Seq(Input) /\ standing' \in BOOLEAN
          /\ armedLine' \in ViewLines \cup {None} /\ (standing' => armedLine' \in ViewLines)
      BY <3>2, <3>3, OpensMoves
    <3>5. standing' => linesArmed' = linesArmed + 1
      BY <3>2 DEF Opens
    <3>6. QED
      BY <2>1, <3>4, <3>5
  <2>2. CASE ~EndedByReport(m.line)
    <3>1. UNCHANGED <<standing, held, armedLine, linesArmed, typeahead>>
      BY <2>2 DEF FoldReport
    <3>2. Stays /\ MovesOn
      BY <3>1 DEF Stays, MovesOn
    <3>3. QED
      BY <1>1, <2>2, <3>1, <3>2 DEF HoldTyped
  <2>3. QED
    BY <2>1, <2>2
<1>8. answered' \subseteq 0..linesArmed
  <2>1. 1 \in DOMAIN channel /\ m = channel[1]
    BY <1>1, <1>2 DEF HoldTyped
  <2>2. m.seq \in Nat /\ (m.seq > 0 => m.seq \in Ahead)
    <3>1. m.seq \in Nat
      BY <2>1, <1>1, MessagesAre DEF HoldTyped
    <3>2. m.seq > 0 => 1 \in Waiting
      BY <2>1, <1>2 DEF Waiting, Ran
    <3>3. QED
      BY <2>1, <3>1, <3>2 DEF Ahead
  <2>3. m.seq \in 0..linesArmed
    BY <2>2, <1>1 DEF InOrder, HoldTyped
  <2>4. answered' = IF m.line = Expanded THEN answered ELSE answered \cup {m.seq}
    BY DEF FoldReport
  <2>5. QED
    BY <2>3, <2>4, <1>1 DEF HoldTyped
<1>9. FoldMoves
  BY <1>1, <1>2, <1>5, <1>6, <1>7, <1>8 DEF FoldMoves, HoldTyped
<1>10. /\ HoldTyped' /\ InOrder' /\ InRange' /\ OneText' /\ HoldMoves /\ AheadMoves
       /\ RestoredFirst => RestoredFirst'
  BY <1>1, <1>9, FoldKeeps
<1>11. KeptInOrder'
  BY <1>1, <1>4, <1>5, <1>10, KeptOfRest
<1>12. NoneStale'
  BY <1>1, <1>4, <1>6, <1>7, <1>10, StaleReport
<1>13. ASSUME ~misled' PROVE Owed'
  <2>1. Covered /\ Counted /\ RestoredFirst /\ ~Misleads(m)
    BY <1>1, <1>2, <1>13 DEF Owed
  <2>2. Covered' /\ Counted'
    BY <1>1, <1>5, <1>6, <1>7, <1>11, <2>1, OwedReport
  <2>3. QED
    BY <2>1, <2>2, <1>10 DEF Owed
<1>14. QED
  BY <1>10, <1>11, <1>12, <1>13 DEF HoldInv

LEMMA FoldRestoredStep ==
  ASSUME HoldInv, FoldRestored
  PROVE  HoldInv'
<1> DEFINE m == Head(channel)
<1>1. /\ HoldTyped /\ InOrder /\ InRange /\ OneText /\ KeptInOrder /\ NoneStale /\ (~misled => Owed)
      /\ timedOut \in Seq(Unreported) /\ linesArmed \in Nat
  BY DEF HoldInv, HoldTyped
<1>2. /\ ReadOn /\ channel # <<>> /\ channel' = Tail(channel)
      /\ typed' = typed /\ UNCHANGED <<running, registered, restores, epoch>>
      /\ misled' \in BOOLEAN /\ (~misled' => ~misled /\ ~Misleads(m))
  BY <1>1, ReceivedIs DEF FoldRestored
<1>3. /\ timedOut' = After(m.seq) /\ evicted' = 0
      /\ UNCHANGED <<standing, held, armedLine, linesArmed, typeahead, answered>>
  BY DEF FoldRestored
<1>4. m.seq \in Nat
  <2>1. 1 \in DOMAIN channel /\ m = channel[1]
    BY <1>1, <1>2 DEF HoldTyped
  <2>2. QED
    BY <2>1, <1>1, MessagesAre DEF HoldTyped
<1>5. PICK k \in Nat : IsRest(timedOut', k)
  BY <1>1, <1>3, <1>4, AfterFacts
<1>6. timedOut' \in Seq(Unreported) /\ FromOld /\ evicted' \in Nat /\ ~(evicted' > 0)
  <2>1. timedOut' \in Seq(Unreported)
    BY <1>5 DEF IsRest
  <2>2. FromOld
    BY <1>1, <1>5, RestIsOld
  <2>3. evicted' \in Nat /\ ~(evicted' > 0)
    BY <1>3
  <2>4. QED
    BY <2>1, <2>2, <2>3
<1>7. MovesOn
  BY <1>3 DEF MovesOn, Stays
<1>8. FoldMoves
  BY <1>1, <1>2, <1>3, <1>6, <1>7 DEF FoldMoves, HoldTyped
<1>9. /\ HoldTyped' /\ InOrder' /\ InRange' /\ OneText' /\ HoldMoves /\ AheadMoves
      /\ RestoredFirst => RestoredFirst'
  BY <1>1, <1>8, FoldKeeps
<1>10. KeptInOrder'
  BY <1>1, <1>5, <1>6, <1>9, KeptOfRest
<1>11. NoneStale'
  BY <1>1, <1>3, <1>6, <1>9, NothingAnswered
<1>12. ASSUME ~misled' PROVE Owed'
  <2>1. Owed /\ RestoredFirst /\ ~Misleads(m)
    BY <1>1, <1>2, <1>12 DEF Owed
  <2>2. Covered' /\ Counted'
    BY <1>1, <1>6, <1>10, <2>1, OwedRestored
  <2>3. QED
    BY <2>1, <2>2, <1>9 DEF Owed
<1>13. QED
  BY <1>9, <1>10, <1>11, <1>12 DEF HoldInv

(* Another engine owes nothing, and is sent what was kept.                 *)
LEMMA AttachStep ==
  ASSUME HoldInv, Attach
  PROVE  HoldInv'
<1>1. /\ HoldTyped /\ InOrder /\ InRange /\ channel \in Seq(Message) /\ linesArmed \in Nat /\ epoch \in Nat
      /\ answered \subseteq 0..linesArmed /\ held \in Seq(Input) /\ standing \in BOOLEAN /\ (standing => linesArmed > 0)
      /\ typed \in Nat
  BY DEF HoldInv, HoldTyped
<1>2. /\ epoch' = epoch + 1 /\ timedOut' = <<>> /\ evicted' = 0 /\ running' = None
      /\ registered' = TRUE /\ restores' = <<>> /\ misled' = FALSE
      /\ typed' = typed /\ channel' = channel /\ answered' = answered
  BY DEF Attach
<1>3. /\ typeahead' \in Seq(Keystroke) /\ held' \in Seq(Input) /\ standing' \in BOOLEAN
      /\ linesArmed' \in Nat /\ linesArmed <= linesArmed' /\ armedLine' \in ViewLines \cup {None}
      /\ standing' => linesArmed' = linesArmed + 1 /\ armedLine' \in ViewLines
      /\ \A j \in DOMAIN typeahead' : typeahead'[j].seq > 0
           => /\ standing' /\ j = Len(typeahead')
              /\ typeahead'[j] = [is |-> armedLine', seq |-> linesArmed']
  <2>1. CASE standing
    <3>1. Deliver(held, <<>>, None)
      BY <2>1 DEF Attach
    <3>2. <<>> \in Seq(Keystroke)
      OBVIOUS
    <3>3. Opens(<<>>, None)
      BY <1>1, <3>1, <3>2, DeliverOpens
    <3>4. \A j : j \notin DOMAIN <<>>
      OBVIOUS
    <3>5. \A j \in DOMAIN typeahead' : typeahead'[j].seq > 0
           => /\ standing' /\ j = Len(typeahead')
              /\ typeahead'[j] = [is |-> armedLine', seq |-> linesArmed']
      BY <3>3, <3>4 DEF Opens
    <3>6. QED
      BY <3>3, <3>5, <1>1 DEF Opens
  <2>2. CASE ~standing
    <3>1. typeahead' = <<>> /\ armedLine' = None /\ UNCHANGED <<standing, held, linesArmed>>
      BY <2>2 DEF Attach
    <3>2. QED
      BY <3>1, <2>2, <1>1
  <2>3. QED
    BY <2>1, <2>2
<1>4. ASSUME NEW j \in Keyed'
      PROVE  /\ standing' /\ j = Len(typeahead') /\ typeahead'[j].seq = linesArmed' /\ typeahead'[j].is = armedLine'
             /\ linesArmed' = linesArmed + 1
  <2>1. j \in DOMAIN typeahead' /\ typeahead'[j].seq > 0
    BY DEF Keyed
  <2>2. QED
    BY <2>1, <1>3
<1>5. ~Runs'
  BY <1>2 DEF Runs
<1>6. /\ \A i \in Waiting' : i \in Waiting /\ channel'[i] = channel[i]
      /\ \A i \in Waiting : channel[i].seq \in Nat /\ channel[i].seq <= linesArmed
  BY <1>1, <1>2, SameChannel, AheadIsNat DEF InOrder, Ahead
<1>7. HoldTyped'
  <2>1. <<>> \in Seq(Unreported) /\ <<>> \in Seq(Nat)
    OBVIOUS
  <2>2. answered' \subseteq 0..linesArmed' /\ epoch' \in Nat /\ (standing' => linesArmed' > 0)
    BY <1>1, <1>2, <1>3
  <2>3. registered' \in BOOLEAN /\ misled' \in BOOLEAN
    BY <1>2
  <2>4. QED
    BY <2>1, <2>2, <2>3, <1>1, <1>2, <1>3 DEF HoldTyped
<1>8. InOrder'
  <2>1. ASSUME NEW i \in Waiting', NEW j \in Waiting', i < j PROVE channel'[i].seq < channel'[j].seq
    BY <2>1, <1>1, <1>6 DEF InOrder
  <2>2. ASSUME NEW i \in Keyed', NEW j \in Keyed', i < j PROVE FALSE
    <3>1. i = j /\ j \in Nat
      BY <1>3, <1>4
    <3>2. QED
      BY <2>2, <3>1
  <2>3. ASSUME NEW i \in Waiting', NEW j \in Keyed' PROVE channel'[i].seq < typeahead'[j].seq
    BY <1>1, <1>4, <1>6
  <2>4. \A s \in Ahead' : s <= linesArmed'
    <3>1. \A i \in Waiting' : channel'[i].seq <= linesArmed'
      BY <1>1, <1>3, <1>6
    <3>2. \A j \in Keyed' : typeahead'[j].seq <= linesArmed'
      BY <1>3, <1>4
    <3>3. QED
      BY <3>1, <3>2, <1>5 DEF Ahead
  <2>5. QED
    BY <2>1, <2>2, <2>3, <2>4, <1>5 DEF InOrder
<1>9. InRange'
  <2>1. ASSUME NEW i \in DOMAIN channel
        PROVE  channel[i].epoch <= epoch + 1 /\ (channel[i].is = "restored" => channel[i].seq <= linesArmed')
    <3>1. channel[i].epoch \in Nat /\ channel[i].seq \in Nat
      BY <1>1, MessagesAre
    <3>2. channel[i].epoch <= epoch /\ (channel[i].is = "restored" => channel[i].seq <= linesArmed)
      BY <1>1 DEF InRange
    <3>3. QED
      BY <3>1, <3>2, <1>1, <1>3
  <2>2. QED
    BY <2>1, <1>2 DEF InRange
<1>10. OneText'
  <2>1. ASSUME NEW i \in Waiting' PROVE StillKnownAs(channel'[i].seq, channel'[i].line)
    <3>1. ~(standing' /\ channel'[i].seq = linesArmed')
      BY <1>1, <1>3, <1>6
    <3>2. QED
      BY <3>1, <1>2 DEF StillKnownAs
  <2>2. ASSUME NEW j \in Keyed' PROVE StillKnownAs(typeahead'[j].seq, typeahead'[j].is)
    BY <1>2, <1>4 DEF StillKnownAs
  <2>3. QED
    BY <2>1, <2>2, <1>5 DEF OneText, KnownAs, StillKnownAs
<1>11. KeptInOrder'
  BY <1>2 DEF KeptInOrder
<1>12. NoneStale'
  <2>1. standing' => linesArmed' \notin answered'
    BY <1>1, <1>2, <1>3
  <2>2. QED
    BY <2>1, <1>2 DEF NoneStale
<1>13. Owed'
  <2>1. ASSUME NEW i \in DOMAIN channel' PROVE channel'[i].epoch # epoch'
    <3>1. channel[i].epoch \in Nat /\ channel[i].epoch <= epoch
      BY <1>1, <1>2, MessagesAre DEF InRange
    <3>2. QED
      BY <3>1, <1>1, <1>2
  <2>2. ASSUME NEW s \in ToReport' \ {0} PROVE standing' /\ s = linesArmed'
    <3>1. PICK j \in DOMAIN typeahead' : s = typeahead'[j].seq
      BY <1>2 DEF ToReport
    <3>2. typeahead'[j] \in Keystroke
      BY <1>3
    <3>3. typeahead'[j].seq \in Nat
      BY <3>2 DEF Keystroke
    <3>4. j \in Keyed'
      BY <3>1, <3>3 DEF Keyed
    <3>5. QED
      BY <3>1, <3>4, <1>4
  <2>3. \A i \in Waiting' : i \in DOMAIN channel'
    BY DEF Waiting
  <2>4. \A s \in Coming' : standing' /\ s = linesArmed'
    BY <2>1, <2>2, <2>3 DEF Coming
  <2>5. timedOut' \in Seq(Unreported) /\ evicted' \in Nat /\ linesArmed' \in Nat
    BY <1>2, <1>3
  <2>6. Covered' /\ Counted'
    BY <2>4, <2>5, <1>11, AllKept
  <2>7. RestoredFirst'
    BY <2>1 DEF RestoredFirst
  <2>8. QED
    BY <2>6, <2>7 DEF Owed
<1>14. QED
  BY <1>7, <1>8, <1>9, <1>10, <1>11, <1>12, <1>13 DEF HoldInv

LEMMA HoldStarts ==
  ASSUME HoldInit
  PROVE  HoldInv
<1>1. /\ typed = 0 /\ answered = {} /\ standing = FALSE /\ held = <<>> /\ armedLine = None /\ linesArmed = 0
      /\ timedOut = <<>> /\ evicted = 0 /\ typeahead = <<>> /\ running = None /\ registered = TRUE
      /\ restores = <<>> /\ channel = <<>> /\ epoch = 0 /\ misled = FALSE
  BY DEF HoldInit
<1>2. /\ <<>> \in Seq(Message) /\ <<>> \in Seq(Keystroke) /\ <<>> \in Seq(Input) /\ <<>> \in Seq(Unreported)
      /\ <<>> \in Seq(Nat) /\ \A i : i \notin DOMAIN <<>>
  OBVIOUS
<1>3. HoldTyped
  BY <1>1, <1>2 DEF HoldTyped
<1>4. Waiting = {} /\ Keyed = {} /\ ~Runs
  BY <1>1, <1>2 DEF Waiting, Keyed, Runs
<1>5. Ahead = {}
  BY <1>4 DEF Ahead
<1>6. InOrder /\ OneText
  BY <1>4, <1>5 DEF InOrder, OneText
<1>7. InRange /\ KeptInOrder /\ NoneStale
  BY <1>1, <1>2 DEF InRange, KeptInOrder, NoneStale
<1>8. ToReport = {}
  BY <1>1, <1>2 DEF ToReport
<1>9. Coming = {}
  BY <1>4, <1>8 DEF Coming
<1>10. Dropped = {}
  BY <1>9 DEF Dropped
<1>11. Cardinality(Dropped) = 0
  BY <1>10, FS_EmptySet
<1>12. Owed
  BY <1>1, <1>2, <1>9, <1>11 DEF Owed, Covered, Counted, RestoredFirst
<1>13. QED
  BY <1>3, <1>6, <1>7, <1>12 DEF HoldInv

LEMMA HoldStutters ==
  ASSUME HoldInv, UNCHANGED holdVars
  PROVE  HoldInv'
<1>1. ReadOn /\ typed' = typed /\ misled' = misled
      /\ UNCHANGED <<standing, held, armedLine, linesArmed, typeahead, timedOut, evicted,
                     running, registered, restores, epoch, answered>>
  BY DEF holdVars, view, nvim, ReadOn
<1>2. misled' \in BOOLEAN /\ (~misled' => ~misled)
  BY <1>1 DEF HoldInv, HoldTyped
<1>3. QED
  BY <1>1, <1>2, UnmovedFold

LEMMA HoldSteps ==
  ASSUME HoldInv, [HoldNext]_holdVars
  PROVE  HoldInv'
<1>1. ASSUME NEW is \in Inputs, Type(is) PROVE HoldInv'
  BY <1>1, TypeStep
<1>2. CASE Bound
  BY <1>2, ExpireStep DEF Bound
<1>3. CASE FoldMessage
  BY <1>3, FoldReportStep, FoldPromptStep, FoldRestoredStep DEF FoldMessage
<1>4. CASE Attach
  BY <1>4, AttachStep
<1>5. CASE Read \/ Ask \/ Finish \/ Register
  BY <1>5, ReadStep, AskStep, FinishStep, RegisterStep
<1>6. CASE UNCHANGED holdVars
  BY <1>6, HoldStutters
<1>7. QED
  BY <1>1, <1>2, <1>3, <1>4, <1>5, <1>6 DEF HoldNext

(* The inductive invariant of the hold.                                    *)
THEOREM HoldInvHolds == HoldSpec => []HoldInv
BY HoldStarts, HoldSteps, PTL DEF HoldSpec

LEMMA EndsOnItsOwnLine ==
  ASSUME HoldInv
  PROVE  HoldEndsOnItsOwnLine
<1> DEFINE m == Head(channel)
<1>1. SUFFICES ASSUME channel # <<>>, m.is = "ran", ~misled, ~Misleads(m), EndedByReport(m.line)
               PROVE  m.seq = linesArmed /\ m.epoch = epoch
  BY DEF HoldEndsOnItsOwnLine, OfArmedLine
<1>2. /\ HoldTyped /\ InOrder /\ OneText /\ KeptInOrder /\ Owed
      /\ channel \in Seq(Message) /\ timedOut \in Seq(Unreported) /\ evicted \in Nat
      /\ armedLine \in ViewLines \cup {None}
  BY <1>1 DEF HoldInv, HoldTyped
<1>3. m.epoch = epoch
  BY <1>1 DEF Misleads
<1>4. m = channel[1] /\ 1 \in DOMAIN channel
  BY <1>1, <1>2
<1>5. /\ m.seq \in Nat /\ (m.seq = 0 => m.line = Other) /\ (m.seq > 0 => m.line \in ViewLines \cup {Expanded})
  BY <1>1, <1>2, <1>4, MessagesAre
<1>6. OfText(m.line) = {} /\ (armedLine = m.line \/ (NamesView(m.line) /\ ~OwesUnreported))
  BY <1>1 DEF EndedByReport
<1>7. m.seq > 0
  BY <1>2, <1>5, <1>6, Apart DEF NamesView
<1>8. 1 \in Waiting
  BY <1>1, <1>4, <1>7 DEF Waiting, Ran
<1>9. m.seq \in Coming
  BY <1>3, <1>4, <1>8 DEF Coming
<1>10. CASE IsKept(m.seq)
  <2>1. PICK i \in DOMAIN timedOut : timedOut[i].seq = m.seq
    BY <1>10 DEF IsKept
  <2>2. timedOut # <<>> /\ timedOut[i].line # m.line
    BY <2>1, <1>2, <1>6 DEF OfText
  <2>3. m.line = Expanded
    BY <2>1, <2>2, <1>2, <1>4, <1>8 DEF OneText, KnownAs
  <2>4. QED
    BY <2>2, <2>3, <1>2, <1>6, Apart DEF OwesUnreported
<1>11. CASE m.seq \in Dropped
  <2>1. timedOut # <<>> /\ m.seq < timedOut[1].seq
    BY <1>11 DEF Dropped
  <2>2. IsFiniteSet(Dropped) /\ Cardinality(Dropped) \in Nat
    BY <1>2, DroppedIsFinite
  <2>3. Cardinality(Dropped) # 0
    BY <1>11, <2>2, FS_EmptySet
  <2>4. evicted > 0
    BY <2>2, <2>3, <1>2 DEF Owed, Counted
  <2>5. armedLine # m.line
    BY <2>1, <2>4, <1>1 DEF Misleads
  <2>6. QED
    BY <2>4, <2>5, <1>6 DEF OwesUnreported
<1>12. CASE standing /\ m.seq = linesArmed
  BY <1>3, <1>12
<1>13. QED
  BY <1>2, <1>9, <1>10, <1>11, <1>12 DEF Owed, Covered

LEMMA ItsReportEndsIt ==
  ASSUME HoldInv
  PROVE  ReportEndsItsHold
<1> DEFINE m == Head(channel)
<1>1. SUFFICES ASSUME channel # <<>>, standing, m.is = "ran", m.seq = linesArmed,
                      1..linesArmed - 1 \subseteq answered
               PROVE  EndedByReport(m.line)
  BY DEF ReportEndsItsHold, OfArmedLine
<1>2. /\ HoldTyped /\ KeptInOrder /\ NoneStale
      /\ channel \in Seq(Message) /\ timedOut \in Seq(Unreported) /\ evicted \in Nat
      /\ linesArmed \in Nat /\ linesArmed > 0
  BY <1>1 DEF HoldInv, HoldTyped
<1>3. timedOut = <<>>
  <2>1. SUFFICES ASSUME 1 \in DOMAIN timedOut PROVE FALSE
    BY <1>2
  <2>2. timedOut[1].seq \in 1..linesArmed - 1
    BY <2>1, <1>1, <1>2 DEF KeptInOrder
  <2>3. Passed(timedOut[1].seq)
    BY <2>1, <2>2, <1>1, <1>2 DEF NoneStale
  <2>4. PICK j \in 1..timedOut[1].seq - 1 : j \notin answered
    BY <2>3 DEF Passed
  <2>5. j \in 1..linesArmed - 1
    BY <2>2, <1>2
  <2>6. QED
    BY <2>4, <2>5, <1>1
<1>4. ~OwesUnreported /\ OfText(m.line) = {}
  BY <1>2, <1>3 DEF OwesUnreported, OfText, KeptInOrder
<1>5. NamesView(m.line)
  <2>1. m = channel[1] /\ 1 \in DOMAIN channel
    BY <1>1, <1>2
  <2>2. m.line \in ViewLines \cup {Expanded}
    BY <2>1, <1>1, <1>2, MessagesAre
  <2>3. QED
    BY <2>2 DEF NamesView
<1>6. QED
  BY <1>1, <1>4, <1>5 DEF EndedByReport

(* The report that ends a hold is its own line's (SubmitHold::ended_by).   *)
THEOREM HoldsEndOnTheirOwnLines == HoldSpec => []HoldEndsOnItsOwnLine
BY HoldInvHolds, EndsOnItsOwnLine, PTL

(* No hold waits for its bound when its line's report comes in its turn.   *)
THEOREM ReportsEndTheirHolds == HoldSpec => []ReportEndsItsHold
BY HoldInvHolds, ItsReportEndsIt, PTL

(* The bounds HoldTypeOK states beyond the invariant's types.              *)
Released == ~standing => held = <<>>
HoldBounds ==
  /\ typed \in 0..MaxInputs /\ cleared \in 0..MaxClears
  /\ Released /\ Len(timedOut) <= Kept /\ fired \subseteq 1..linesArmed

(* The hold moves only by being released.                                  *)
LEMMA OpensReleases ==
  ASSUME linesArmed \in Nat, NEW waiting, NEW line, Opens(waiting, line)
  PROVE  Released' /\ linesArmed' \in Nat /\ linesArmed <= linesArmed'
BY DEF Opens, Released

LEMMA HoldReleases ==
  ASSUME HoldTyped, Released,
         \/ UNCHANGED <<standing, held, linesArmed>>
         \/ \E line : Deliver(held, typeahead, line)
  PROVE  Released' /\ linesArmed' \in Nat /\ linesArmed <= linesArmed'
<1>1. linesArmed \in Nat
  BY DEF HoldTyped
<1>2. CASE UNCHANGED <<standing, held, linesArmed>>
  BY <1>1, <1>2 DEF Released
<1>3. ASSUME NEW line, Deliver(held, typeahead, line)
      PROVE  Released' /\ linesArmed' \in Nat /\ linesArmed <= linesArmed'
  <2>1. Opens(typeahead, line)
    BY <1>3, HeldOpens
  <2>2. QED
    BY <1>1, <2>1, OpensReleases
<1>4. QED
  BY <1>2, <1>3

(* A line that is kept takes the place of one when the list is full.       *)
LEMMA KeptStaysShort ==
  ASSUME timedOut \in Seq(Unreported), Len(timedOut) <= Kept, KeepUnreported
  PROVE  Len(timedOut') <= Kept
<1>0. Kept \in Nat /\ Kept > 0
  BY HoldAssumption
<1> DEFINE new == [line |-> armedLine, seq |-> linesArmed]
<1>1. CASE Len(timedOut) = Kept
  <2>1. timedOut' = Append(Tail(timedOut), new)
    BY <1>1 DEF KeepUnreported
  <2>2. timedOut # <<>>
    BY <1>0, <1>1
  <2>3. Tail(timedOut) \in Seq(Unreported) /\ Len(Tail(timedOut)) = Len(timedOut) - 1
    BY <2>2
  <2>4. Len(timedOut') = Len(Tail(timedOut)) + 1
    BY <2>1, <2>3
  <2>5. QED
    BY <2>3, <2>4, <1>1, <1>0
<1>2. CASE Len(timedOut) # Kept
  <2>1. timedOut' = Append(timedOut, new)
    BY <1>2 DEF KeepUnreported
  <2>2. Len(timedOut') = Len(timedOut) + 1
    BY <2>1
  <2>3. QED
    BY <2>2, <1>2, <1>0
<1>3. QED
  BY <1>1, <1>2

LEMMA RestStaysShort ==
  ASSUME timedOut \in Seq(Unreported), Len(timedOut) <= Kept, NEW k, IsRest(timedOut', k)
  PROVE  Len(timedOut') <= Kept
<1>1. Kept \in Nat
  BY HoldAssumption
<1>2. k \in Nat /\ timedOut' \in Seq(Unreported) /\ Len(timedOut') + k = Len(timedOut)
  BY DEF IsRest
<1>3. QED
  BY <1>1, <1>2

LEMMA BoundsOfFold ==
  ASSUME HoldTyped, HoldBounds, Len(timedOut') <= Kept,
         UNCHANGED <<typed, cleared, fired>>,
         \/ UNCHANGED <<standing, held, linesArmed>>
         \/ \E line : Deliver(held, typeahead, line)
  PROVE  HoldBounds'
<1>1. Released' /\ linesArmed' \in Nat /\ linesArmed <= linesArmed' /\ linesArmed \in Nat
  BY HoldReleases DEF HoldBounds, HoldTyped
<1>2. fired' \subseteq 1..linesArmed'
  BY <1>1 DEF HoldBounds
<1>3. QED
  BY <1>1, <1>2 DEF HoldBounds

LEMMA TypeBounds ==
  ASSUME HoldTyped, HoldBounds, NEW is \in Inputs, Type(is)
  PROVE  HoldBounds'
<1>0. /\ linesArmed \in Nat /\ typed \in 0..MaxInputs /\ cleared \in 0..MaxClears /\ MaxInputs \in Nat /\ MaxClears \in Nat
      /\ standing \in BOOLEAN /\ typeahead \in Seq(Keystroke)
  BY HoldAssumption DEF HoldTyped, HoldBounds
<1>1. /\ typed < MaxInputs /\ typed' = typed + 1 /\ (is = Clear => cleared < MaxClears)
      /\ cleared' = IF is = Clear THEN cleared + 1 ELSE cleared
      /\ timedOut' = timedOut /\ fired' = fired
  BY DEF Type
<1>2. typed' \in 0..MaxInputs /\ cleared' \in 0..MaxClears
  BY <1>0, <1>1
<1>3. Released' /\ linesArmed' \in Nat /\ linesArmed <= linesArmed'
  <2>1. CASE standing
    <3>1. standing' = standing /\ linesArmed' = linesArmed
      BY <2>1 DEF Type
    <3>2. QED
      BY <3>1, <2>1, <1>0 DEF Released
  <2>2. CASE ~standing
    <3> DEFINE input == [is |-> is, at |-> typed + 1]
    <3>1. Deliver(<<input>>, typeahead, armedLine)
      BY <2>2 DEF Type
    <3>2. input \in Input
      BY <1>0 DEF Input
    <3>3. <<input>> \in Seq(Input)
      BY <3>2
    <3>4. Opens(typeahead, armedLine)
      BY <1>0, <3>1, <3>3, DeliverOpens
    <3>5. QED
      BY <1>0, <3>4, OpensReleases
  <2>3. QED
    BY <2>1, <2>2
<1>4. fired' \subseteq 1..linesArmed'
  BY <1>0, <1>1, <1>3 DEF HoldBounds
<1>5. QED
  BY <1>1, <1>2, <1>3, <1>4 DEF HoldBounds

LEMMA ExpireBounds ==
  ASSUME HoldTyped, HoldBounds, NEW g, Expire(g)
  PROVE  HoldBounds'
<1>0. linesArmed \in Nat /\ timedOut \in Seq(Unreported) /\ Len(timedOut) <= Kept
  BY DEF HoldTyped, HoldBounds
<1>1. g \in 1..linesArmed /\ fired' = fired \cup {g} /\ typed' = typed /\ cleared' = cleared
  BY DEF Expire
<1>2. /\ Len(timedOut') <= Kept
      /\ \/ UNCHANGED <<standing, held, linesArmed>>
         \/ \E line : Deliver(held, typeahead, line)
  <2>1. CASE standing /\ g = linesArmed
    <3>1. KeepUnreported /\ Deliver(held, typeahead, None)
      BY <2>1 DEF Expire
    <3>2. QED
      BY <3>1, <1>0, KeptStaysShort
  <2>2. CASE ~(standing /\ g = linesArmed)
    <3>1. UNCHANGED <<standing, held, linesArmed, timedOut>>
      BY <2>2 DEF Expire
    <3>2. QED
      BY <3>1, <1>0
  <2>3. QED
    BY <2>1, <2>2
<1>3. Released' /\ linesArmed' \in Nat /\ linesArmed <= linesArmed'
  BY <1>2, HoldReleases DEF HoldBounds
<1>4. fired' \subseteq 1..linesArmed'
  BY <1>0, <1>1, <1>3 DEF HoldBounds
<1>5. QED
  BY <1>1, <1>2, <1>3, <1>4 DEF HoldBounds

LEMMA FoldBounds ==
  ASSUME HoldInv, HoldBounds, FoldMessage
  PROVE  HoldBounds'
<1> DEFINE m == Head(channel)
<1>0. HoldTyped /\ KeptInOrder /\ timedOut \in Seq(Unreported) /\ linesArmed \in Nat /\ Len(timedOut) <= Kept
  BY DEF HoldInv, HoldTyped, HoldBounds
<1>1. UNCHANGED <<typed, cleared, fired>>
  BY DEF FoldMessage, FoldReport, FoldPrompt, FoldRestored, Received
<1>2. /\ Len(timedOut') <= Kept
      /\ \/ UNCHANGED <<standing, held, linesArmed>>
         \/ \E line : Deliver(held, typeahead, line)
  <2>1. CASE FoldReport
    <3>1. NoteReported(m.line)
      BY <2>1 DEF FoldReport
    <3>2. PICK k \in Nat : IsRest(timedOut', k)
      BY <3>1, <1>0, NoteLeavesRest
    <3>3. Len(timedOut') <= Kept
      BY <3>2, <1>0, RestStaysShort
    <3>4. \/ UNCHANGED <<standing, held, linesArmed>>
          \/ Deliver(held, typeahead, armedLine)
      BY <2>1 DEF FoldReport
    <3>5. QED
      BY <3>3, <3>4
  <2>2. CASE FoldPrompt
    <3>1. \/ KeepUnreported /\ Deliver(held, typeahead, None)
          \/ UNCHANGED <<standing, held, linesArmed, timedOut>>
      BY <2>2 DEF FoldPrompt
    <3>2. QED
      BY <3>1, <1>0, KeptStaysShort
  <2>3. CASE FoldRestored
    <3>1. timedOut' = After(m.seq) /\ UNCHANGED <<standing, held, linesArmed>> /\ channel # <<>>
      BY <2>3 DEF FoldRestored, Received
    <3>2. m = channel[1] /\ 1 \in DOMAIN channel /\ channel \in Seq(Message)
      BY <1>0, <3>1 DEF HoldTyped
    <3>3. m.seq \in Nat
      BY <3>2, MessagesAre
    <3>4. PICK k \in Nat : IsRest(timedOut', k)
      BY <1>0, <3>1, <3>3, AfterFacts
    <3>5. Len(timedOut') <= Kept
      BY <3>4, <1>0, RestStaysShort
    <3>6. QED
      BY <3>1, <3>5
  <2>4. QED
    BY <2>1, <2>2, <2>3 DEF FoldMessage
<1>3. QED
  BY <1>0, <1>1, <1>2, BoundsOfFold

LEMMA AttachBounds ==
  ASSUME HoldTyped, HoldBounds, Attach
  PROVE  HoldBounds'
<1>0. linesArmed \in Nat /\ held \in Seq(Input) /\ Kept \in Nat
  BY HoldAssumption DEF HoldTyped
<1>1. timedOut' = <<>> /\ UNCHANGED <<typed, cleared, fired>>
  BY DEF Attach
<1>2. Released' /\ linesArmed' \in Nat /\ linesArmed <= linesArmed'
  <2>1. CASE standing
    <3>1. Deliver(held, <<>>, None)
      BY <2>1 DEF Attach
    <3>2. <<>> \in Seq(Keystroke)
      OBVIOUS
    <3>3. Opens(<<>>, None)
      BY <1>0, <3>1, <3>2, DeliverOpens
    <3>4. QED
      BY <1>0, <3>3, OpensReleases
  <2>2. CASE ~standing
    <3>1. UNCHANGED <<standing, held, linesArmed>>
      BY <2>2 DEF Attach
    <3>2. QED
      BY <3>1, <1>0 DEF Released, HoldBounds
  <2>3. QED
    BY <2>1, <2>2
<1>3. fired' \subseteq 1..linesArmed'
  BY <1>0, <1>1, <1>2 DEF HoldBounds
<1>4. Len(timedOut') <= Kept
  BY <1>0, <1>1
<1>5. QED
  BY <1>1, <1>2, <1>3, <1>4 DEF HoldBounds

LEMMA BoundsStay ==
  ASSUME HoldInv, HoldBounds, [HoldNext]_holdVars
  PROVE  HoldBounds'
<1>0. HoldTyped /\ Len(timedOut) <= Kept
  BY DEF HoldInv, HoldBounds
<1>1. ASSUME NEW is \in Inputs, Type(is) PROVE HoldBounds'
  BY <1>0, <1>1, TypeBounds
<1>2. CASE Bound
  BY <1>0, <1>2, ExpireBounds DEF Bound
<1>3. CASE FoldMessage
  BY <1>3, FoldBounds
<1>4. CASE Attach
  BY <1>0, <1>4, AttachBounds
<1>5. CASE Read \/ Ask \/ Finish \/ Register \/ UNCHANGED holdVars
  <2>1. UNCHANGED <<typed, cleared, view>>
    BY <1>5 DEF Read, Ask, Finish, Register, holdVars
  <2>2. UNCHANGED <<typed, cleared, fired, standing, held, linesArmed, timedOut>>
    BY <2>1 DEF view
  <2>3. QED
    BY <2>2, <1>0, BoundsOfFold
<1>6. QED
  BY <1>1, <1>2, <1>3, <1>4, <1>5 DEF HoldNext

LEMMA BoundsStart ==
  ASSUME HoldInit
  PROVE  HoldBounds
BY HoldAssumption DEF HoldInit, HoldBounds, Released

LEMMA HoldIsTyped ==
  ASSUME HoldInv, HoldBounds
  PROVE  HoldTypeOK
BY DEF HoldInv, HoldTyped, KeptInOrder, HoldBounds, Released, HoldTypeOK

(* The list of lines kept never outgrows its cap, a hold that is released  *)
(* keeps nothing, and no bound fires that was not armed.                   *)
THEOREM HoldIsWellTyped == HoldSpec => []HoldTypeOK
<1>1. HoldSpec => []HoldBounds
  BY HoldInvHolds, BoundsStart, BoundsStay, PTL DEF HoldSpec
<1>2. QED
  BY <1>1, HoldInvHolds, HoldIsTyped, PTL
=============================================================================
