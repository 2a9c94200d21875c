------------------------------ MODULE Clipboard ------------------------------
(***************************************************************************)
(* The clipboard bridge over engine restarts (view/src/clipboard.rs with   *)
(* the executor of runtime/executor.rs and replace_engine of recovery.rs). *)
(*                                                                         *)
(* nvim asks for a paste or hands over a copy and blocks until answered;   *)
(* the loop queues a job for one worker thread, which outlives engines and *)
(* answers over a route that a restart re-points.  The worker keeps every  *)
(* copy in a shadow map and talks to a system clipboard that may be out of *)
(* reach, refuse a write or fail a read, and that may hang in any call.    *)
(* Only a read has a budget: a connect or a write holds the worker until   *)
(* the host returns.                                                       *)
(*                                                                         *)
(* A copy's text is its serial number, 0 is the empty text.  One engine is *)
(* open to one request at a time, and its msgids start again at 1.  The    *)
(* advisory notice of an unreachable clipboard is left out.                *)
(***************************************************************************)
EXTENDS Naturals, Sequences

CONSTANTS
  Registers,    \* the register names requests carry
  Foreign,      \* the text other programs copy
  MaxEngines,   \* bound: engines of the session
  MaxAsked,     \* bound: requests of one engine
  MaxHost,      \* bound: changes of the host's clipboard from outside
  MaxCopies     \* bound: copies after which view makes none of its own

VARIABLES
  phase,        \* up, dead: the loop runs; stopping, down, spawned: it replaces
  epoch,        \* ReplyRoute.epoch, the executor's reply_epoch; names an engine
  open,         \* the msgid the running engine is blocked on, or 0
  asked,        \* requests the running engine has made
  inbox,        \* requests the loop has not run yet, of whatever engine
  redraws,      \* the same of redraws, in the pump of the newest engine
  jobs, wired,  \* the worker's channel, and whether the worker exists
  doing,        \* the worker's current job and step
  shadow, clip, \* run's locals: the shadow map, the connected backend
  orphans,      \* read threads left behind with the backend they hold
  reachable, system, mine,  \* the host: a display, its text, whose selection
  copies, host,             \* bounds
  dispatched, last          \* history: copies queued, what the last step answered

engineVars == <<phase, epoch, open, asked>>
queueVars == <<inbox, redraws>>
workerVars == <<doing, shadow, clip, orphans>>
hostVars == <<reachable, system, mine, host>>
vars == <<engineVars, queueVars, jobs, wired, workerVars, hostVars, copies, dispatched, last>>

Empty == 0
Idle == [step |-> "idle"]
None == [to |-> 0]
Silent == last' = None   \* a step that answers nobody

(* The engine whose process runs, 0 when none does. *)
Running == CASE phase \in {"up", "stopping"} -> epoch
             [] phase = "spawned" -> epoch + 1
             [] OTHER -> 0

(* The loop thread runs effects, and is not inside a replacement. *)
LoopRuns == phase \in {"up", "dead"}

-----------------------------------------------------------------------------
(* nvim.  get and set come as requests over the loop's channel, query and  *)
(* store (its OSC 52 provider) in a redraw, through the engine's own pump. *)

Ask(kind, r) ==
  /\ Running # 0 /\ open = 0 /\ asked < MaxAsked
  /\ asked' = asked + 1
  /\ open' = IF kind = "store" THEN 0 ELSE asked + 1
  /\ copies' = IF kind \in {"set", "store"} THEN copies + 1 ELSE copies
  /\ LET q == [kind |-> kind, register |-> r, asker |-> Running, id |-> open', text |-> copies']
     IN  IF kind \in {"get", "set"} THEN inbox' = Append(inbox, q) /\ UNCHANGED redraws
         ELSE redraws' = Append(redraws, q) /\ UNCHANGED inbox
  /\ UNCHANGED <<phase, epoch, jobs, wired, workerVars, hostVars, dispatched>>
  /\ Silent

Crash ==
  /\ phase = "up"
  /\ phase' = "dead"
  /\ open' = 0
  /\ UNCHANGED <<epoch, asked, queueVars, jobs, wired, workerVars, hostVars>>
  /\ UNCHANGED <<copies, dispatched>> /\ Silent

-----------------------------------------------------------------------------
(* replace_engine.  A live engine is replaced by a restart the user asks   *)
(* for or by a branch of the recording, and goes on asking until it stops. *)

BeginReplace ==
  /\ LoopRuns /\ epoch < MaxEngines
  /\ phase' = IF phase = "up" THEN "stopping" ELSE "down"
  /\ UNCHANGED <<epoch, open, asked, queueVars, jobs, wired, workerVars, hostVars>>
  /\ UNCHANGED <<copies, dispatched>> /\ Silent

Stop ==
  /\ phase = "stopping"
  /\ phase' = "down"
  /\ open' = 0
  /\ UNCHANGED <<epoch, asked, queueVars, jobs, wired, workerVars, hostVars>>
  /\ UNCHANGED <<copies, dispatched>> /\ Silent

(* Mutant: the pump outlives its engine, with what it had not yielded. *)
Respawn_KeepsPump ==
  /\ phase = "down"
  /\ \/ phase' = "spawned" /\ asked' = 0
     \/ phase' = "dead" /\ UNCHANGED asked
  /\ UNCHANGED <<epoch, open, queueVars, jobs, wired, workerVars, hostVars>>
  /\ UNCHANGED <<copies, dispatched>> /\ Silent

(* start_pump: the old engine's pump goes, with what it had not yielded. *)
Respawn ==
  /\ phase = "down"
  /\ \/ phase' = "spawned" /\ asked' = 0 /\ redraws' = <<>>
     \/ phase' = "dead" /\ UNCHANGED <<asked, redraws>>
  /\ UNCHANGED <<epoch, open, inbox, jobs, wired, workerVars, hostVars>>
  /\ UNCHANGED <<copies, dispatched>> /\ Silent

(* Mutant: the replacement gets a worker of its own, with an empty shadow. *)
Rebind_FreshWorker ==
  /\ phase = "spawned"
  /\ phase' = "up"
  /\ epoch' = epoch + 1
  /\ shadow' = [r \in Registers |-> Empty]
  /\ UNCHANGED <<open, asked, queueVars, jobs, wired, doing, clip, orphans, hostVars>>
  /\ UNCHANGED <<copies, dispatched>> /\ Silent

(* rebind steps the epoch. *)
Rebind ==
  /\ phase = "spawned"
  /\ phase' = "up"
  /\ epoch' = epoch + 1
  /\ UNCHANGED <<open, asked, queueVars, jobs, wired, workerVars, hostVars>>
  /\ UNCHANGED <<copies, dispatched>> /\ Silent

-----------------------------------------------------------------------------
(* Answers.                                                                *)

Answered(engine, job, text, source) ==
  [to |-> engine, kind |-> job.kind, asker |-> job.asker, epoch |-> job.epoch,
   missed |-> source = "shadow" /\ text # job.expect]

(* The engine the route names gets the answer, if the job's epoch still
   names that engine; a closed connection takes nothing. *)
Reply(job, text, source) ==
  IF job.epoch # epoch \/ Running # epoch \/ job.id = 0 THEN UNCHANGED open /\ Silent
  ELSE /\ open' = IF job.id = open THEN 0 ELSE open
       /\ last' = Answered(epoch, job, text, source)

(* dispatch: the worker's queue, or the cheapest answer there is when no   *)
(* worker takes the job.                                                   *)
Undelivered(job) ==
  IF job.kind = "store" THEN UNCHANGED open /\ Silent ELSE Reply(job, Empty, "inline")

Hand(q) ==
  LET job == [kind |-> q.kind, register |-> q.register, asker |-> q.asker, id |-> q.id,
              text |-> q.text, epoch |-> epoch, expect |-> dispatched[q.register]]
  IN  /\ dispatched' = IF q.kind \in {"set", "store"}
                       THEN [dispatched EXCEPT ![q.register] = q.text] ELSE dispatched
      /\ IF wired THEN jobs' = Append(jobs, job) /\ UNCHANGED open /\ Silent
         ELSE Undelivered(job) /\ UNCHANGED jobs

DispatchRequest ==
  /\ LoopRuns /\ inbox # <<>>
  /\ inbox' = Tail(inbox)
  /\ Hand(Head(inbox))
  /\ UNCHANGED <<phase, epoch, asked, redraws, wired, workerVars, hostVars, copies>>

DispatchRedraw ==
  /\ LoopRuns /\ redraws # <<>>
  /\ redraws' = Tail(redraws)
  /\ Hand(Head(redraws))
  /\ UNCHANGED <<phase, epoch, asked, inbox, wired, workerVars, hostVars, copies>>

(* copy_selection: a copy of view's own, which no request waits for. *)
CopySelection ==
  /\ LoopRuns /\ copies < MaxCopies
  /\ copies' = copies + 1
  /\ \E r \in Registers :
       Hand([kind |-> "set", register |-> r, asker |-> epoch, id |-> 0, text |-> copies'])
  /\ UNCHANGED <<phase, epoch, asked, queueVars, wired, workerVars, hostVars>>

-----------------------------------------------------------------------------
(* The worker.                                                             *)

At(step) == [step |-> step, job |-> doing.job]
Done(text, source) == [step |-> "answer", job |-> doing.job, text |-> text, source |-> source]

(* Nobody else holding one, the last backend dropped takes a selection of
   this process with it, unless a manager kept it. *)
Dropped(others) ==
  IF others \/ ~mine THEN UNCHANGED <<system, mine>>
  ELSE mine' = FALSE /\ system' \in {system, Empty}

(* recv, and ensure_clip when the backend is there. *)
TakeJob ==
  /\ doing = Idle /\ jobs # <<>>
  /\ jobs' = Tail(jobs)
  /\ doing' = [step |-> IF clip THEN "connected" ELSE "connecting", job |-> Head(jobs)]
  /\ UNCHANGED <<engineVars, queueVars, wired, shadow, clip, orphans, hostVars>>
  /\ UNCHANGED <<copies, dispatched>> /\ Silent

(* connect returns: before the first job, or for the job in hand. *)
Connect ==
  /\ doing.step \in {"starting", "connecting"}
  /\ clip' = reachable
  /\ doing' = IF doing.step = "starting" THEN Idle
              ELSE At(IF reachable THEN "connected" ELSE "unreachable")
  /\ UNCHANGED <<engineVars, queueVars, jobs, wired, shadow, orphans, hostVars>>
  /\ UNCHANGED <<copies, dispatched>> /\ Silent

(* store: the shadow after write_system, whether or not that worked. *)
Store ==
  /\ doing.job.kind \in {"set", "store"}
  /\ shadow' = [shadow EXCEPT ![doing.job.register] = doing.job.text]
  /\ doing' = Done(Empty, "done")
  /\ UNCHANGED <<engineVars, queueVars, jobs, wired, clip, orphans, reachable, host>>
  /\ UNCHANGED <<copies, dispatched>> /\ Silent

StoreUnreached ==
  /\ doing.step = "unreachable"
  /\ Store /\ UNCHANGED <<system, mine>>

(* set_text returns, done or refused. *)
SetText ==
  /\ doing.step = "connected"
  /\ Store
  /\ \/ reachable /\ system' = doing.job.text /\ mine' = TRUE
     \/ UNCHANGED <<system, mine>>

(* read_text: the backend leaves with a read thread; one that cannot be
   started drops it. *)
StartRead ==
  /\ doing.step \in {"connected", "unreachable"}
  /\ doing.job.kind \in {"get", "query"}
  /\ clip' = FALSE
  /\ \/ doing.step = "connected" /\ doing' = At("reading") /\ UNCHANGED <<system, mine>>
     \/ doing' = Done(shadow[doing.job.register], "shadow") /\ Dropped(~clip \/ orphans > 0)
  /\ UNCHANGED <<engineVars, queueVars, jobs, wired, shadow, orphans, reachable, host>>
  /\ UNCHANGED <<copies, dispatched>> /\ Silent

(* The read thread is back inside the budget; a failed read is empty. *)
ReadReturns ==
  /\ doing.step = "reading"
  /\ \E text \in IF reachable THEN {system, Empty} ELSE {Empty} :
       doing' = Done(text, "system")
  /\ clip' = TRUE
  /\ UNCHANGED <<engineVars, queueVars, jobs, wired, shadow, orphans, hostVars>>
  /\ UNCHANGED <<copies, dispatched>> /\ Silent

(* Mutant: recv for recv_timeout; a read is waited for however long it takes. *)
ReadOverruns_NoBudget == FALSE

(* It is not, and keeps the backend. *)
ReadOverruns ==
  /\ doing.step = "reading"
  /\ doing' = Done(shadow[doing.job.register], "shadow")
  /\ orphans' = orphans + 1
  /\ UNCHANGED <<engineVars, queueVars, jobs, wired, shadow, clip, hostVars>>
  /\ UNCHANGED <<copies, dispatched>> /\ Silent

Answer ==
  /\ doing.step = "answer"
  /\ Reply(doing.job, doing.text, doing.source)
  /\ doing' = Idle
  /\ UNCHANGED <<phase, epoch, asked, queueVars, jobs, wired, shadow, clip, orphans, hostVars>>
  /\ UNCHANGED <<copies, dispatched>>

(* A late read thread ends and drops its backend. *)
OrphanEnds ==
  /\ orphans > 0
  /\ orphans' = orphans - 1
  /\ Dropped(clip \/ orphans > 1 \/ doing.step = "reading")
  /\ UNCHANGED <<engineVars, queueVars, jobs, wired, doing, shadow, clip, reachable, host>>
  /\ UNCHANGED <<copies, dispatched>> /\ Silent

-----------------------------------------------------------------------------
(* The host, from outside.                                                 *)

HostChanges ==
  /\ host < MaxHost
  /\ host' = host + 1
  /\ \/ reachable' = ~reachable /\ UNCHANGED <<system, mine>>
     \/ reachable /\ system' = Foreign /\ mine' = FALSE /\ UNCHANGED reachable
  /\ UNCHANGED <<engineVars, queueVars, jobs, wired, workerVars>>
  /\ UNCHANGED <<copies, dispatched>> /\ Silent

Init ==
  /\ phase = "up" /\ epoch = 1 /\ open = 0 /\ asked = 0
  /\ inbox = <<>> /\ redraws = <<>> /\ jobs = <<>> /\ wired \in BOOLEAN
  /\ doing = (IF wired THEN [step |-> "starting"] ELSE Idle)
  /\ shadow = [r \in Registers |-> Empty] /\ clip = FALSE /\ orphans = 0
  /\ reachable \in BOOLEAN
  /\ system = Foreign /\ mine = FALSE
  /\ copies = 0 /\ host = 0
  /\ dispatched = [r \in Registers |-> Empty] /\ last = None

Nvim == (\E kind \in {"get", "set", "query", "store"}, r \in Registers : Ask(kind, r)) \/ Crash
Loop ==
  \/ BeginReplace \/ Stop \/ Respawn \/ Rebind
  \/ DispatchRequest \/ DispatchRedraw \/ CopySelection
Worker == TakeJob \/ StoreUnreached \/ StartRead \/ ReadOverruns \/ Answer
Host == Connect \/ SetText \/ ReadReturns \/ OrphanEnds \/ HostChanges

Next == Nvim \/ Loop \/ Worker \/ Host

Spec == Init /\ [][Next]_vars

(* The loop thread runs whenever it has something to do, and the worker    *)
(* when it is not inside a call of the host's; a read it gives up on.      *)
(* Nothing makes nvim ask, a user replace an engine, or the host return.   *)
FairSpec ==
  /\ Spec
  /\ WF_vars(Stop) /\ WF_vars(Respawn) /\ WF_vars(Rebind)
  /\ WF_vars(DispatchRequest) /\ WF_vars(DispatchRedraw) /\ WF_vars(Worker)

-----------------------------------------------------------------------------
(* Properties.                                                             *)

(* The fields keep their types, and the backend is with the worker or with *)
(* a read thread (clipboard.rs, run and read_text).                        *)
TypeOK ==
  /\ phase \in {"up", "dead", "stopping", "down", "spawned"}
  /\ epoch \in 1..MaxEngines /\ open \in 0..MaxAsked /\ asked \in 0..MaxAsked
  /\ orphans \in Nat /\ reachable \in BOOLEAN /\ mine \in BOOLEAN
  /\ clip \in BOOLEAN /\ (doing.step = "reading" => ~clip)
  /\ \A r \in Registers : shadow[r] \in 0..copies
  /\ doing.step = "connected" => clip
  /\ ~wired => jobs = <<>> /\ doing = Idle

(* An answer reaches the engine that asked, however many were replaced     *)
(* since, with one exception: a get or a set that was still queued to the  *)
(* loop when its engine was replaced.  A query goes with the pump of its   *)
(* engine, and nobody dispatches what a replacement asks before the route  *)
(* names it (ReplyRoute::reply, ClipboardJob::epoch; replace_engine).      *)
OnlyOvertakenGoAstray ==
  last # None /\ last.to # last.asker => last.kind \in {"get", "set"} /\ last.asker < last.epoch

(* Whenever the system clipboard does not answer, a paste gives the last   *)
(* copy queued before it, through restarts and behind any backlog (the     *)
(* shadow registers are the entire clipboard of a host without a display). *)
ShadowIsTheLastCopy ==
  last # None => ~last.missed

(* Every connect and every write of a selection returns.                   *)
HostReturns == WF_vars(Connect) /\ WF_vars(SetText)

(* An engine that blocks on the clipboard is released, also by a host that *)
(* never returns from a read, unless the engine itself goes: what may hold *)
(* it is a connect or a write that hangs, and nothing else (run: one reply *)
(* per job; read_text: READ_BUDGET; dispatch: inline without a worker).    *)
BlockedEngineIsReleased ==
  HostReturns => \A i \in 1..MaxAsked : (open = i) ~> (open # i)

(* What read_text's doc says of its callers, and run of a query, "whatever *)
(* the host's clipboard owner is doing".                                   *)
ReleasedWhateverTheHostDoes ==
  \A i \in 1..MaxAsked : (open = i) ~> (open # i)

(* What reply's comment promises: an answer never reaches a replacement    *)
(* under the msgid of an earlier engine's request.                         *)
AnswersReachWhoAsked == last # None => last.to = last.asker
=============================================================================
