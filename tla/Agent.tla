-------------------------------- MODULE Agent --------------------------------
(***************************************************************************)
(* An agent session, from the panel to the agent's process and back: the   *)
(* panel's keys and folds (view-core/update/ai.rs), the one queue its      *)
(* commands share (view/ai_context_worker.rs), the slot a session is       *)
(* spawned into and the watch that goes with it (view/ai_worker.rs), the   *)
(* session's task and its handle (view-ai/acp/session.rs and driver.rs).   *)
(*                                                                         *)
(* The context worker dispatches; a spawner thread per attempt resolves,   *)
(* watches, launches and publishes; each session's task runs on its own    *)
(* runtime until its agent's streams end or its handle is dropped.  A      *)
(* session bears the number of the attempt that made it.  Commands are     *)
(* numbered as the panel issues them, and turn is the number of the prompt *)
(* in flight, 0 when there is none.  Transcript, diff reviews and the      *)
(* agent's filesystem requests are left out.                               *)
(***************************************************************************)
EXTENDS Naturals, Sequences, SequencesExt, TLC

CONSTANTS
  MaxSessions,     \* bound: spawn attempts
  MaxCommands,     \* bound: commands the panel issues
  MaxPermissions   \* bound: permission requests of one session

ASSUME BoundsAreNat == MaxSessions \in Nat /\ MaxCommands \in Nat /\ MaxPermissions \in Nat

VARIABLES
  turn, pending,          \* AiPanelState: turn_in_flight, pending_permission
  nr,                     \* commands issued
  up,                     \* the loop has not ended
  msgs,                   \* events on their way to the loop
  jobs,                   \* the context worker's queue
  slot,                   \* AiSlot
  watch,                  \* WatchSlot; handle 0 is None
  spawn,                  \* each attempt's thread
  sess                    \* each session: its task, its driver, its child, its agent

panelVars == <<turn, pending, nr, up>>
vars == <<panelVars, msgs, jobs, slot, watch, spawn, sess>>

Sessions == 1..MaxSessions
Idle == [kind |-> "idle"]
Spawning(buffer) == [kind |-> "spawning", buffer |-> buffer]
Ready(s) == [kind |-> "ready", session |-> s]

(* task: driving, ended (drive returned), reaping, reporting, over.  child: *)
(* in the slot, taken by the task, or collected.  owed: the requests the    *)
(* agent has not answered; heard: the last command it got.                  *)
Unborn ==
  [task |-> "none", dropped |-> FALSE, child |-> "none", alive |-> FALSE, stdin |-> TRUE,
   commands |-> <<>>, frames |-> <<>>,
   open |-> FALSE, authed |-> FALSE, deferred |-> <<>>, permissions |-> {},
   crashed |-> FALSE, watched |-> FALSE, owed |-> {}, asked |-> 0, heard |-> 0]

Crashed(s) == [kind |-> "crashed", session |-> s]

-----------------------------------------------------------------------------
(* The panel: ai_panel_key and on_ai_event.                                *)

Issue(kind, id) ==
  /\ jobs' = Append(jobs, [kind |-> kind, id |-> id, n |-> nr + 1])
  /\ nr' = nr + 1

(* <CR>, with no question up. *)
Submit ==
  /\ up /\ turn = 0 /\ pending = 0 /\ nr < MaxCommands
  /\ Issue("prompt", 0)
  /\ turn' = nr + 1
  /\ UNCHANGED <<pending, up, msgs, slot, watch, spawn, sess>>

(* <C-c>, which reaches past a question. *)
CancelTurn ==
  /\ up /\ turn # 0 /\ nr < MaxCommands
  /\ Issue("cancel", 0)
  /\ UNCHANGED <<turn, pending, up, msgs, slot, watch, spawn, sess>>

AnswerQuestion ==
  /\ up /\ pending # 0 /\ nr < MaxCommands
  /\ Issue("answer", pending)
  /\ pending' = 0
  /\ UNCHANGED <<turn, up, msgs, slot, watch, spawn, sess>>

(* A second question while one is up is answered `cancelled` at once. *)
FoldPermission(id) ==
  IF pending # 0
  THEN Issue("answer", id) /\ UNCHANGED <<turn, pending>>
  ELSE pending' = id /\ UNCHANGED <<turn, nr, jobs>>

Fold ==
  /\ up /\ msgs # <<>>
  /\ msgs' = Tail(msgs)
  /\ LET m == Head(msgs)
     IN  IF m.kind = "permission" THEN FoldPermission(m.id)
         ELSE \* the turn ended, or the session crashed
              turn' = 0 /\ pending' = 0 /\ UNCHANGED <<nr, jobs>>
  /\ UNCHANGED <<up, slot, watch, spawn, sess>>

-----------------------------------------------------------------------------
(* AiSession: the handle.                                                  *)

(* The command channel closes when drive returns, which owned its receiver. *)
IsClosed(s) == sess[s].task # "driving"

(* A signalled agent's own state no longer matters. *)
Kill(s) == [s EXCEPT !.alive = FALSE, !.owed = {}, !.stdin = TRUE]

(* Mutant: the drop leaves the signal to the task. *)
Drop_NoSignal(s) == [s EXCEPT !.dropped = TRUE]

(* Drop: whoever finds the child in the slot signals it, and here hands it *)
(* to a thread that collects it; then the runtime is shut down.            *)
Drop(s) ==
  IF s.child = "slot" THEN [Kill(s) EXCEPT !.dropped = TRUE, !.child = "collected"]
  ELSE [s EXCEPT !.dropped = TRUE]

(* send: a closed session drops what it is sent. *)
Send(s, commands) == IF s.task = "driving" THEN [s EXCEPT !.commands = @ \o commands] ELSE s

-----------------------------------------------------------------------------
(* AiWorker.                                                               *)

(* begin_watch. *)
BeginWatch == watch' = [handle |-> 0, generation |-> watch.generation + 1, stopped |-> FALSE]

(* Mutant: a stop is taken whatever session it was meant for. *)
StopWatch_AnyGeneration(s) == [watch EXCEPT !.stopped = TRUE, !.handle = 0]

(* stop_watch. *)
StopWatch(s) ==
  IF watch.generation # s THEN watch ELSE [watch EXCEPT !.stopped = TRUE, !.handle = 0]

(* A prompt starts a session; anything else has none to go to.  The OS may
   refuse the thread.  One step, though the code lets go of the slot between
   setting it, begin_watch and the refusal: the context worker alone takes a
   prompt to an idle slot, and it is the one that is here. *)
DispatchIdle(command) ==
  \/ /\ command.kind = "prompt" /\ watch.generation < MaxSessions
     /\ BeginWatch
     /\ slot' = Spawning(<<command>>)
     /\ spawn' = [spawn EXCEPT ![watch.generation + 1] = "resolving"]
     /\ UNCHANGED msgs
  \/ /\ command.kind = "prompt" /\ watch.generation < MaxSessions
     /\ BeginWatch
     /\ slot' = Idle
     /\ msgs' = Append(msgs, Crashed(0))
     /\ UNCHANGED spawn
  \/ /\ command.kind # "prompt" \/ watch.generation = MaxSessions
     /\ slot' = Idle
     /\ msgs' = Append(msgs, Crashed(0))
     /\ UNCHANGED <<watch, spawn>>

(* The context worker takes its next job. *)
Dispatch ==
  /\ jobs # <<>>
  /\ jobs' = Tail(jobs)
  /\ LET command == Head(jobs)
     IN  CASE slot.kind = "spawning" ->
                /\ slot' = Spawning(Append(slot.buffer, command))
                /\ UNCHANGED <<msgs, watch, spawn, sess>>
           [] slot.kind = "idle" -> DispatchIdle(command) /\ UNCHANGED sess
           [] slot.kind = "ready" ->
                IF IsClosed(slot.session)
                THEN /\ sess' = [sess EXCEPT ![slot.session] = Drop(@)]
                     /\ DispatchIdle(command)
                ELSE /\ sess' = [sess EXCEPT ![slot.session] = Send(@, <<command>>)]
                     /\ UNCHANGED <<msgs, slot, watch, spawn>>
  /\ UNCHANGED panelVars

(* shutdown, when the loop returns. *)
Shutdown ==
  /\ up
  /\ up' = FALSE
  /\ slot' = Idle
  /\ sess' = IF slot.kind = "ready" THEN [sess EXCEPT ![slot.session] = Drop(@)] ELSE sess
  /\ UNCHANGED <<turn, pending, nr, msgs, jobs, watch, spawn>>

-----------------------------------------------------------------------------
(* spawn_in_background's thread.                                           *)

Advance(g, stage) == spawn' = [spawn EXCEPT ![g] = stage]

(* The launch is resolved, or cannot be. *)
Resolve(g) ==
  /\ spawn[g] = "resolving"
  /\ Advance(g, "watching") \/ Advance(g, "failed")
  /\ UNCHANGED <<panelVars, msgs, jobs, slot, watch, sess>>

(* start_watch, which may fail on its own account. *)
StartWatch(g) ==
  /\ spawn[g] = "watching"
  /\ Advance(g, "launching")
  /\ \/ UNCHANGED <<watch, sess>>
     \/ IF watch.generation # g \/ watch.stopped THEN UNCHANGED <<watch, sess>>
        ELSE watch' = [watch EXCEPT !.handle = g] /\ sess' = [sess EXCEPT ![g].watched = TRUE]
  /\ UNCHANGED <<panelVars, msgs, jobs, slot>>

(* AiSession::spawn; the task begins with `initialize`. *)
Launch(g) ==
  /\ spawn[g] = "launching"
  /\ \/ Advance(g, "failed") /\ UNCHANGED sess
     \/ /\ Advance(g, "publishing")
        /\ sess' = [sess EXCEPT ![g] = [@ EXCEPT !.task = "driving", !.child = "slot",
                                                 !.alive = TRUE, !.owed = {"initialize"}]]
  /\ UNCHANGED <<panelVars, msgs, jobs, slot, watch>>

(* What waited in the slot is sent before the session is published; a
   session already in the slot is replaced, and so dropped. *)
Publish(g) ==
  /\ spawn[g] = "publishing"
  /\ Advance(g, "done")
  /\ slot' = Ready(g)
  /\ sess' = CASE slot.kind = "spawning" -> [sess EXCEPT ![g] = Send(@, slot.buffer)]
               [] slot.kind = "ready" -> [sess EXCEPT ![slot.session] = Drop(@)]
               [] slot.kind = "idle" -> sess
  /\ UNCHANGED <<panelVars, msgs, jobs, watch>>

(* A failed attempt empties the slot, then stops its watch and reports. *)
Fail(g) ==
  /\ spawn[g] = "failed"
  /\ Advance(g, "failing")
  /\ slot' = IF slot.kind = "spawning" THEN Idle ELSE slot
  /\ UNCHANGED <<panelVars, msgs, jobs, watch, sess>>

(* Mutant: a failed attempt stops its watch and says nothing. *)
ReportFailure_Silent(g) ==
  /\ spawn[g] = "failing"
  /\ Advance(g, "done")
  /\ watch' = StopWatch(g)
  /\ UNCHANGED <<panelVars, msgs, jobs, slot, sess>>

ReportFailure(g) ==
  /\ spawn[g] = "failing"
  /\ Advance(g, "done")
  /\ watch' = StopWatch(g)
  /\ msgs' = Append(msgs, Crashed(g))
  /\ UNCHANGED <<panelVars, jobs, slot, sess>>

-----------------------------------------------------------------------------
(* The session's task.                                                     *)

(* A request or command reaches the agent; a broken stdin ends the writer, *)
(* which says so once.  The driver queues it on the outgoing channel and a *)
(* writer task writes it; the one channel keeps their order, so what is    *)
(* queued counts as heard.                                                 *)
Write(d, what, n) ==
  IF d.alive /\ d.stdin
  THEN [d EXCEPT !.owed = @ \cup what, !.heard = IF n = 0 THEN @ ELSE n]
  ELSE [d EXCEPT !.frames = IF Contains(@, "end") THEN @ ELSE Append(@, "end")]

(* What leaves with drive: its receiver, its frames and its driver, which  *)
(* first settles the permissions it holds open (cancel_open_permissions).  *)
End(d) ==
  [d EXCEPT !.task = "ended", !.permissions = {}, !.commands = <<>>, !.frames = <<>>,
            !.deferred = <<>>, !.open = FALSE, !.authed = FALSE, !.asked = 0]

(* Mutant: a cancel is written at once, session or none. *)
Command_CancelNow(d, c) ==
  CASE c.kind = "cancel" -> Write([d EXCEPT !.permissions = {}], {}, c.n)
    [] c.kind # "cancel" /\ ~d.open -> [d EXCEPT !.deferred = Append(@, c)]
    [] c.kind = "prompt" /\ d.open -> Write(d, {"prompt"}, c.n)
    [] c.kind = "answer" /\ d.open ->
         IF c.id \in d.permissions
         THEN Write([d EXCEPT !.permissions = @ \ {c.id}], {}, c.n) ELSE d

(* on_command, with a session or before one. *)
Command(d, c) ==
  IF ~d.open THEN [d EXCEPT !.deferred = Append(@, c)]
  ELSE CASE c.kind = "prompt" -> Write(d, {"prompt"}, c.n)
         [] c.kind = "cancel" -> Write([d EXCEPT !.permissions = {}], {}, c.n)
         [] OTHER ->  \* an answer
              IF c.id \in d.permissions
              THEN Write([d EXCEPT !.permissions = @ \ {c.id}], {}, c.n) ELSE d

(* The commands deferred until the session exists, one after the other.    *)
Replayed(d) ==
  LET after[i \in 0..Len(d.deferred)] ==
        IF i = 0 THEN [d EXCEPT !.open = TRUE, !.deferred = <<>>]
        ELSE Command(after[i - 1], d.deferred[i])
  IN  after

Opened(d) ==
  LET sent == Replayed(d)[Len(d.deferred)]
  IN  [d EXCEPT !.open = TRUE, !.deferred = <<>>, !.permissions = sent.permissions,
                !.owed = sent.owed, !.heard = sent.heard, !.frames = sent.frames]

OnCommand(s) ==
  /\ sess[s].task = "driving" /\ sess[s].commands # <<>>
  /\ LET d == [sess[s] EXCEPT !.commands = Tail(@)]
     IN  sess' = [sess EXCEPT ![s] = Command(d, Head(sess[s].commands))]
  /\ UNCHANGED <<panelVars, msgs, jobs, slot, watch, spawn>>

(* The crash a session reports stops the session's watch on its way out. *)
Emit(s, crash, events) ==
  /\ watch' = IF crash THEN StopWatch(s) ELSE watch
  /\ msgs' = msgs \o events \o IF crash THEN <<Crashed(s)>> ELSE <<>>

(* on_frame.  A handshake the agent refuses is reported as a crash, with
   the task left running; `session/new` may be retried once behind an
   `authenticate`. *)
OnFrame(s) ==
  /\ sess[s].task = "driving" /\ sess[s].frames # <<>>
  /\ LET f == Head(sess[s].frames)
         d == [sess[s] EXCEPT !.frames = Tail(@)]
         quiet == Emit(s, FALSE, <<>>)
         refuse == sess' = [sess EXCEPT ![s] = [d EXCEPT !.crashed = TRUE]] /\ Emit(s, TRUE, <<>>)
         next(new) == sess' = [sess EXCEPT ![s] = new]
     IN  CASE f = "end" -> next(End(d)) /\ quiet
           [] f \in {"initialized", "authenticated"} -> next(Write(d, {"session/new"}, 0)) /\ quiet
           [] f = "created" -> next(Opened(d)) /\ quiet
           [] f = "auth_required" ->
                \/ /\ ~d.authed /\ quiet
                   /\ next(Write([d EXCEPT !.authed = TRUE], {"authenticate"}, 0))
                \/ refuse
           [] f = "refused" -> refuse
           [] f = "prompt_done" ->
                /\ next([d EXCEPT !.permissions = {}])
                /\ Emit(s, FALSE, <<[kind |-> "turn_ended", session |-> s]>>)
           [] OTHER ->  \* a permission request
                /\ next([d EXCEPT !.asked = @ + 1, !.permissions = @ \cup {d.asked + 1}])
                /\ Emit(s, FALSE, <<[kind |-> "permission", session |-> s, id |-> d.asked + 1]>>)
  /\ UNCHANGED <<panelVars, jobs, slot, spawn>>

(* run_session's lock: the signal is sent before the child leaves the slot. *)
TakeChild(s) ==
  /\ sess[s].task = "ended"
  /\ sess' = [sess EXCEPT ![s] =
       IF @.child = "slot" THEN [Kill(@) EXCEPT !.child = "taken", !.task = "reaping"]
       ELSE [@ EXCEPT !.task = "reporting"]]
  /\ UNCHANGED <<panelVars, msgs, jobs, slot, watch, spawn>>

(* The wait for the child is awaited, which a runtime shut down never resumes. *)
Reap(s) ==
  /\ sess[s].task = "reaping" /\ ~sess[s].dropped
  /\ sess' = [sess EXCEPT ![s] = [@ EXCEPT !.child = "collected", !.task = "reporting"]]
  /\ UNCHANGED <<panelVars, msgs, jobs, slot, watch, spawn>>

Report(s) ==
  /\ sess[s].task = "reporting"
  /\ sess' = [sess EXCEPT ![s] = [@ EXCEPT !.task = "over", !.crashed = TRUE]]
  /\ Emit(s, TRUE, <<>>)
  /\ UNCHANGED <<panelVars, jobs, slot, spawn>>

(* A task on a runtime that was shut down goes at any await; the wait it
   had begun goes on without it. *)
Abandon(s) ==
  /\ sess[s].dropped /\ sess[s].task \in {"driving", "ended", "reaping", "reporting"}
  /\ LET d == End(sess[s])
         child == IF d.child = "taken" THEN "collected" ELSE d.child
     IN  sess' = [sess EXCEPT ![s] = [d EXCEPT !.task = "over", !.child = child]]
  /\ UNCHANGED <<panelVars, msgs, jobs, slot, watch, spawn>>

-----------------------------------------------------------------------------
(* The agent's process: a conforming one, which may refuse, die, or stop   *)
(* reading while it goes on writing.                                       *)

Say(s, frame) == [s EXCEPT !.frames = IF s.task = "driving" THEN Append(@, frame) ELSE @]

Replies(request) ==
  CASE request = "initialize" -> {"initialized", "refused"}
    [] request = "authenticate" -> {"authenticated", "refused"}
    [] request = "session/new" -> {"created", "auth_required", "refused"}
    [] request = "prompt" -> {"prompt_done"}

AgentReplies(s) ==
  \E request \in sess[s].owed : \E reply \in Replies(request) :
    /\ sess[s].alive
    /\ sess' = [sess EXCEPT ![s] = Say([sess[s] EXCEPT !.owed = @ \ {request}], reply)]
    /\ UNCHANGED <<panelVars, msgs, jobs, slot, watch, spawn>>

AgentAsks(s) ==
  /\ sess[s].alive /\ "prompt" \in sess[s].owed
  /\ sess[s].asked + Len(SelectSeq(sess[s].frames, LAMBDA f : f = "permission")) < MaxPermissions
  /\ sess[s].task = "driving"
  /\ sess' = [sess EXCEPT ![s] = Say(@, "permission")]
  /\ UNCHANGED <<panelVars, msgs, jobs, slot, watch, spawn>>

AgentDies(s) ==
  /\ sess[s].alive
  /\ sess' = [sess EXCEPT ![s] = Say(Kill(@), "end")]
  /\ UNCHANGED <<panelVars, msgs, jobs, slot, watch, spawn>>

AgentStopsReading(s) ==
  /\ sess[s].alive /\ sess[s].stdin
  /\ sess' = [sess EXCEPT ![s].stdin = FALSE]
  /\ UNCHANGED <<panelVars, msgs, jobs, slot, watch, spawn>>

-----------------------------------------------------------------------------
Init ==
  /\ turn = 0 /\ pending = 0 /\ nr = 0 /\ up = TRUE
  /\ msgs = <<>> /\ jobs = <<>> /\ slot = Idle
  /\ watch = [handle |-> 0, generation |-> 0, stopped |-> FALSE]
  /\ spawn = [s \in Sessions |-> "none"]
  /\ sess = [s \in Sessions |-> Unborn]

Keys == Submit \/ CancelTurn \/ AnswerQuestion
Spawner(g) == Resolve(g) \/ StartWatch(g) \/ Launch(g) \/ Publish(g) \/ Fail(g) \/ ReportFailure(g)
Task(s) == OnCommand(s) \/ OnFrame(s) \/ TakeChild(s) \/ Reap(s) \/ Report(s) \/ Abandon(s)
Process(s) == AgentReplies(s) \/ AgentAsks(s) \/ AgentDies(s) \/ AgentStopsReading(s)

Next ==
  \/ Keys \/ Fold \/ Dispatch \/ Shutdown
  \/ \E s \in Sessions : Spawner(s) \/ Task(s) \/ Process(s)

Spec == Init /\ [][Next]_vars

(* Every thread of the editor keeps running, and a task takes frames and    *)
(* commands in turn (select! picks at random); neither the user nor the     *)
(* agent has to do anything.                                                *)
FairSpec ==
  /\ Spec /\ WF_vars(Fold) /\ WF_vars(Dispatch)
  /\ \A s \in Sessions : WF_vars(Spawner(s)) /\ WF_vars(Task(s)) /\ WF_vars(OnFrame(s))

-----------------------------------------------------------------------------
(* Properties.                                                             *)

(* The slot names a session that was spawned, and a session that is ending *)
(* has settled every permission its agent is blocked on, whatever ended it *)
(* (AiSlot, cancel_open_permissions).                                      *)
TypeOK ==
  /\ turn \in 0..MaxCommands /\ pending \in 0..MaxPermissions
  /\ slot.kind = "ready" => sess[slot.session].task # "none" /\ spawn[slot.session] = "done"
  /\ watch.handle \in {0, watch.generation} /\ (watch.stopped => watch.handle = 0)
  /\ \A s \in Sessions :
       /\ sess[s].permissions \subseteq 1..sess[s].asked
       /\ sess[s].task \in {"ended", "reaping", "reporting"} => sess[s].permissions = {}

(* However a session ends, its agent has been signalled: a session whose   *)
(* handle is gone or whose child has left the slot runs no process, in     *)
(* whichever order the drop and the task reach the lock (run_session: the  *)
(* state where neither teardown path signalled is unreachable).            *)
NoAgentOutlivesItsSession ==
  \A s \in Sessions : sess[s].dropped \/ sess[s].child \in {"taken", "collected"} => ~sess[s].alive

(* What the panel issues reaches agents in the order it was issued,        *)
(* through the context queue, the slot's buffer, the session's channel and *)
(* the commands deferred until the session exists (AiContextJob,           *)
(* spawn_in_background, Driver::deferred): a cancel never overtakes its    *)
(* prompt.                                                                 *)
CommandsKeepTheirOrder ==
  [][\A s, t \in Sessions : sess'[s].heard # sess[s].heard => sess'[s].heard > sess[t].heard]_vars

(* The watch over the project runs exactly as long as its session: a       *)
(* session that reported its end has none left, and nothing an earlier     *)
(* session does takes it from the one running (WatchSlot: generation and   *)
(* stopped).                                                               *)
WatchFollowsItsSession ==
  /\ \A s \in Sessions : sess[s].crashed => watch.handle # s
  /\ up /\ slot.kind = "ready" /\ sess[slot.session].watched /\ ~sess[slot.session].crashed
       => watch.handle = slot.session

(* A turn does not outlive the agents that could end it: with none alive,  *)
(* the panel hears of an end or a new agent is started - unless the session *)
(* in the slot has reported its crash already, for what is sent to that one *)
(* is dropped (SessionCrashed's fold, dispatch, AiSession::send).          *)
NoneAlive == \A s \in Sessions : ~sess[s].alive
HasReported == slot.kind # "idle" /\ sess[watch.generation].crashed
TurnEndsWithItsAgent ==
  (turn # 0 /\ NoneAlive /\ ~HasReported) ~> (turn = 0 \/ ~up \/ ~NoneAlive)

(* What dispatch promises: a prompt after a reported crash starts a new    *)
(* session, and is not sunk in the one that is gone.                       *)
Told(s) == sess[s].crashed /\ ~\E i \in DOMAIN msgs : msgs[i] = Crashed(s)
NoPromptIntoADeadEnd ==
  \A s \in Sessions : Told(s) /\ turn # 0 =>
    \A c \in ToSet(sess[s].commands) \cup ToSet(sess[s].deferred) : c.n # turn
=============================================================================
