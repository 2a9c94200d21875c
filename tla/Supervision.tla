----------------------------- MODULE Supervision -----------------------------
(***************************************************************************)
(* What the runtime loop does about its engine (view, recovery.rs and      *)
(* runtime.rs; view-core, update/supervision.rs and native/supervision.rs):*)
(* it resolves a stop or a failed write into a death, a broken write path  *)
(* or the session's own ending; folds the watches' verdicts into a banner, *)
(* a modal or an unattended restart; and replaces the engine, spacing and  *)
(* capping the attempts of a dropped remote connection.                    *)
(*                                                                         *)
(* The verdicts of the two watches are free while the connection stands    *)
(* (modules Heartbeat and Stall say what they are worth).  A clock is not  *)
(* kept: a backoff is waited out, and an episode grows past the modal's    *)
(* threshold, in steps of their own.  The reader's settle is not cut short *)
(* (module Handle has its timeout).  The interrupt choice changes nothing  *)
(* here but wording.  why and unasked are history: who asked for the       *)
(* restart that is owed, and how many nobody asked for this outage.        *)
(***************************************************************************)
EXTENDS Naturals

CONSTANTS
  Remote,       \* the engine is an ssh client's
  AutoRestart,  \* [supervision] auto_restart
  Budget,       \* AUTOMATIC_RECOVERY_ATTEMPTS
  MaxAttempts,  \* REMOTE_RECONNECT_MAX_ATTEMPTS
  MaxEngines    \* bound: engines a session has

ASSUME SwitchesAreBoolean == {Remote, AutoRestart} \subseteq BOOLEAN
ASSUME CountsAreNat == Budget \in Nat /\ MaxAttempts \in Nat \ {0} /\ MaxEngines \in Nat \ {0}

VARIABLES
  gen, child, announced, pipe, reader, closed,  \* the engine that runs
  late, chan,                       \* readers of replaced engines, stops in the channel
  connLost, writeLost, restartReq,  \* LoopState
  due, spent,                       \* ReconnectSchedule
  wedge, aged, offered, modal, recovered,  \* SupervisionFold, SupervisionState, the modal
  lpc, ending,                      \* the loop, and why it returned
  why, unasked           \* history

engine == <<gen, child, announced, pipe, reader, closed>>
stops == <<late, chan>>
loopState == <<connLost, writeLost, restartReq>>
schedule == <<due, spent>>
episode == <<wedge, aged, offered, modal, recovered>>
history == <<why, unasked>>
vars == <<engine, stops, loopState, schedule, episode, lpc, ending, history>>

Gens == 1 .. MaxEngines
Kinds == {"ReadSide", "WriteSide", "Dead"}
None == "none"
NotCounting == MaxAttempts + 2     \* spent: None

TypeOK ==
  /\ gen \in Gens /\ child \in {"running", "leaving", "exited"} /\ announced \in BOOLEAN
  /\ pipe \in {"open", "broken"} /\ reader \in {"reading", "done", "posted"} /\ closed \in BOOLEAN
  /\ late \subseteq Gens /\ chan \subseteq Gens
  /\ {connLost, writeLost, restartReq, aged} \subseteq BOOLEAN
  /\ due \in {None, "waiting", "now"} /\ spent \in 0 .. NotCounting
  /\ {wedge, offered, modal} \subseteq Kinds \cup {None}
  /\ recovered \in 0 .. Budget
  /\ lpc \in {"top", "fold", "wait", "over"}
  /\ ending \in {None, "stop", "quit", "no engine", "cutover"}
  /\ why \in {None, "user", "auto"} /\ unasked \in Nat

Init ==
  /\ gen = 1 /\ child = "running" /\ announced = FALSE /\ pipe = "open"
  /\ reader = "reading" /\ closed = FALSE
  /\ late = {} /\ chan = {}
  /\ connLost = FALSE /\ writeLost = FALSE /\ restartReq = FALSE
  /\ due = None /\ spent = NotCounting
  /\ wedge = None /\ aged = FALSE /\ offered = None /\ modal = None /\ recovered = 0
  /\ lpc = "top" /\ ending = None
  /\ why = None /\ unasked = 0

Return(reason) == lpc' = "over" /\ ending' = reason
Goto(where) == lpc' = where /\ UNCHANGED ending

-----------------------------------------------------------------------------
(* The top of a pass: a restart that is owed is scheduled, and attempted   *)
(* once it is due.                                                         *)

Reconnects == Remote /\ connLost

(* ReconnectSchedule::request. *)
Request ==
  /\ lpc = "top" /\ restartReq
  /\ restartReq' = FALSE
  /\ IF ~Reconnects THEN due' = "now" /\ spent' = NotCounting
     ELSE IF spent = NotCounting THEN due' = "waiting" /\ spent' = 0
     ELSE due' = (IF due = None THEN "now" ELSE due) /\ UNCHANGED spent
  /\ UNCHANGED <<engine, stops, connLost, writeLost, episode, lpc, ending, history>>

(* take_due. *)
Due == lpc = "top" /\ ~restartReq /\ due = "now"
(* Past the maximum the count says nothing more: bound, one beyond it.     *)
Counted == IF spent > MaxAttempts THEN spent ELSE spent + 1
StillReading == IF reader = "posted" THEN {} ELSE {gen}

(* kill_exit, then a spawn that comes up; its pump takes the loop's channel. *)
Replace ==
  /\ Due /\ gen < MaxEngines
  /\ gen' = gen + 1
  /\ late' = late \cup StillReading
  /\ child' = "running" /\ announced' = FALSE /\ pipe' = "open"
  /\ reader' = "reading" /\ closed' = FALSE
  /\ due' = None /\ spent' = NotCounting
  /\ connLost' = FALSE /\ writeLost' = FALSE
  /\ why' = None /\ unasked' = 0
  /\ Goto("fold")
  /\ UNCHANGED <<chan, restartReq, episode>>

(* One that stopped before its pump was attached: the cutover finds the    *)
(* stop among the staged messages.                                         *)
ReplaceStillborn ==
  /\ Due /\ gen < MaxEngines
  /\ gen' = gen + 1
  /\ late' = late \cup StillReading
  /\ child' = "exited" /\ announced' \in BOOLEAN /\ pipe' = "broken"
  /\ reader' = "posted" /\ closed' = TRUE
  /\ due' = None /\ spent' = NotCounting
  /\ connLost' = FALSE /\ writeLost' = FALSE
  /\ why' = None /\ unasked' = 0
  /\ Return("cutover")
  /\ UNCHANGED <<chan, restartReq, episode>>

(* Mutant: a failed attempt leaves nothing scheduled. *)
ReplaceFails_GivesUp ==
  /\ Due
  /\ child' = "exited" /\ pipe' = "broken"
  /\ spent' = Counted /\ due' = None
  /\ IF spent = NotCounting THEN Return("no engine") ELSE Goto("fold")
  /\ why' = None
  /\ UNCHANGED <<gen, announced, reader, closed, stops, loopState, episode, unasked>>

(* No engine came up: note_failure. *)
ReplaceFails ==
  /\ Due
  /\ child' = "exited" /\ pipe' = "broken"
  /\ spent' = Counted
  /\ IF spent = NotCounting THEN Return("no engine") /\ due' = None
     ELSE /\ due' = IF Counted < MaxAttempts THEN "waiting" ELSE None
          /\ Goto("fold")
  /\ why' = None
  /\ UNCHANGED <<gen, announced, reader, closed, stops, loopState, episode, unasked>>

NothingDue ==
  /\ lpc = "top" /\ ~restartReq /\ due # "now"
  /\ Goto("fold")
  /\ UNCHANGED <<engine, stops, loopState, schedule, episode, history>>

-----------------------------------------------------------------------------
(* note_supervision, and the reading it dispatches.                        *)

(* wedge_kind, over what the watches may say. *)
Verdicts ==
  IF connLost THEN {"Dead"}
  ELSE IF closed THEN {None}
  ELSE IF writeLost THEN {"WriteSide"}
  ELSE {None, "ReadSide", "WriteSide"}

Announcing == spent < MaxAttempts          \* the reconnect notice has attempts left
RecoversUnattended == AutoRestart /\ recovered < Budget

(* note_engine_liveness, for an engine that answers. *)
FoldHealthy ==
  /\ lpc = "fold" /\ None \in Verdicts
  /\ wedge' = None /\ aged' = FALSE /\ modal' = None /\ offered' = None
  /\ Goto("wait")
  /\ UNCHANGED <<engine, stops, loopState, schedule, recovered, why, unasked>>

(* An attempt is already counted down to: the banner says so, and no more. *)
FoldCounted ==
  /\ lpc = "fold" /\ "Dead" \in Verdicts /\ Announcing
  /\ wedge' = "Dead"
  /\ Goto("wait")
  /\ UNCHANGED <<engine, stops, loopState, schedule, aged, offered, modal, recovered, history>>

(* A dead engine recovered without asking; the loop goes straight round. *)
(* Mutant: an attempt between two others is recovered from as well. *)
FoldUnattended_EachPass ==
  /\ lpc = "fold" /\ "Dead" \in Verdicts /\ RecoversUnattended
  /\ wedge' = "Dead" /\ modal' = None
  /\ recovered' = recovered + 1
  /\ restartReq' = TRUE
  /\ why' = "auto" /\ unasked' = unasked + 1
  /\ Goto("top")
  /\ UNCHANGED <<engine, stops, connLost, writeLost, schedule, aged, offered>>

FoldUnattended ==
  /\ lpc = "fold" /\ "Dead" \in Verdicts
  /\ spent = NotCounting /\ RecoversUnattended
  /\ wedge' = "Dead" /\ modal' = None
  /\ recovered' = recovered + 1
  /\ restartReq' = TRUE
  /\ why' = "auto" /\ unasked' = unasked + 1
  /\ Goto("top")
  /\ UNCHANGED <<engine, stops, connLost, writeLost, schedule, aged, offered>>

(* Mutant: every modal can be put away. *)
Dismissible_Always(kind) == TRUE
Dismissible(kind) == kind # "Dead"

(* The modal: closed when it speaks of another wedge, opened when owed. *)
FoldAsking(kind) ==
  /\ lpc = "fold" /\ kind \in Verdicts \ {None}
  /\ kind = "Dead" => ~Announcing /\ ~(spent = NotCounting /\ RecoversUnattended)
  /\ wedge' = kind
  /\ LET opens == /\ modal # kind
                  /\ ~(Dismissible(kind) /\ offered = kind)
                  /\ kind = "Dead" \/ aged
     IN  /\ modal' = IF opens \/ modal = kind THEN kind ELSE None
         /\ offered' = IF opens THEN kind ELSE offered
  /\ Goto("wait")
  /\ UNCHANGED <<engine, stops, loopState, schedule, aged, recovered, history>>

-----------------------------------------------------------------------------
(* What the wait delivers.                                                 *)

Waits == lpc = "wait"

(* A stop of an engine already replaced: intake drops it. *)
DropStop(g) ==
  /\ Waits /\ g \in chan /\ g # gen
  /\ chan' = chan \ {g}
  /\ Goto("top")
  /\ UNCHANGED <<engine, late, loopState, schedule, episode, history>>

(* Mutant: an announced exit is a death too. *)
ResolveStop_NeverAsks(g) ==
  /\ Waits /\ g \in chan /\ g = gen
  /\ chan' = chan \ {g}
  /\ child' = "exited" /\ pipe' = "broken"
  /\ connLost' = TRUE /\ Goto("top")
  /\ UNCHANGED <<gen, announced, reader, closed, late, writeLost, restartReq, schedule, episode,
                 history>>

(* Mutant: whichever engine stopped, the running one is ended. *)
ResolveStop_AnyEngine(g) ==
  /\ Waits /\ g \in chan
  /\ chan' = chan \ {g}
  /\ child' = "exited" /\ pipe' = "broken"
  /\ IF announced THEN Return("stop") /\ UNCHANGED connLost
     ELSE connLost' = TRUE /\ Goto("top")
  /\ UNCHANGED <<gen, announced, reader, closed, late, writeLost, restartReq, schedule, episode,
                 history>>

(* The running engine's stop: intake ends the child and judges it. *)
ResolveStop(g) ==
  /\ Waits /\ g \in chan /\ g = gen
  /\ chan' = chan \ {g}
  /\ child' = "exited" /\ pipe' = "broken"
  /\ IF announced THEN Return("stop") /\ UNCHANGED connLost
     ELSE connLost' = TRUE /\ Goto("top")
  /\ UNCHANGED <<gen, announced, reader, closed, late, writeLost, restartReq, schedule, episode,
                 history>>

(* stop_report_if_exited: the child is gone, or its reader has settled and *)
(* the child is reaped in time.                                            *)
StopReports ==
  IF child = "exited" THEN {"stopped"}
  ELSE IF child = "leaving" /\ reader # "reading" THEN {"stopped", "running"}
  ELSE {"running"}

(* Mutant: a broken write path is a lost connection. *)
WriteFails_CallsItDead ==
  /\ Waits /\ pipe = "broken"
  /\ connLost' = TRUE /\ Goto("top")
  /\ UNCHANGED <<child, writeLost>>
  /\ UNCHANGED <<gen, announced, pipe, reader, closed, stops, restartReq, schedule, episode,
                 history>>

(* A write of a dispatched batch failed: Flow::EngineLost. *)
WriteFails ==
  /\ Waits /\ pipe = "broken"
  /\ IF connLost \/ writeLost
       THEN Goto("top") /\ UNCHANGED <<child, connLost, writeLost>>
       ELSE \E report \in StopReports :
         IF report = "running"
           THEN writeLost' = TRUE /\ Goto("top") /\ UNCHANGED <<child, connLost>>
         ELSE /\ child' = "exited" /\ UNCHANGED writeLost
              /\ IF announced THEN Return("stop") /\ UNCHANGED connLost
                 ELSE connLost' = TRUE /\ Goto("top")
  /\ UNCHANGED <<gen, announced, pipe, reader, closed, stops, restartReq, schedule, episode,
                 history>>

(* note_supervision_choice: the restart key answers the banner as well. *)
ChooseRestart ==
  /\ Waits /\ (modal # None \/ wedge # None)
  /\ modal' = None
  /\ restartReq' = TRUE
  /\ why' = "user"
  /\ Goto("top")
  /\ UNCHANGED <<engine, stops, connLost, writeLost, schedule, wedge, aged, offered, recovered,
                 unasked>>

ChooseDismiss ==
  /\ Waits /\ modal # None /\ Dismissible(modal)
  /\ modal' = None
  /\ Goto("top")
  /\ UNCHANGED <<engine, stops, loopState, schedule, wedge, aged, offered, recovered, why, unasked>>

ChooseQuit ==
  /\ Waits /\ modal = "Dead"
  /\ Return("quit")
  /\ UNCHANGED <<engine, stops, loopState, schedule, episode, history>>

(* Anything else, or a deadline: around again. *)
WaitEnds ==
  /\ Waits
  /\ Goto("top")
  /\ UNCHANGED <<engine, stops, loopState, schedule, episode, history>>

-----------------------------------------------------------------------------
(* Time.                                                                   *)

BackoffElapses ==
  /\ due = "waiting" /\ lpc # "over"
  /\ due' = "now"
  /\ UNCHANGED <<engine, stops, loopState, spent, episode, lpc, ending, history>>

EpisodeAges ==
  /\ wedge # None /\ ~aged /\ lpc # "over"
  /\ aged' = TRUE
  /\ UNCHANGED <<engine, stops, loopState, schedule, wedge, offered, modal, recovered, lpc, ending,
                 history>>

-----------------------------------------------------------------------------
(* The engine's threads (module Handle), and nvim (external).              *)

Outside == lpc # "over" /\ UNCHANGED <<loopState, schedule, episode, lpc, ending, history>>

(* VimLeavePre, which waits for the reader to answer it. *)
Announces ==
  /\ Outside /\ child = "running" /\ reader = "reading"
  /\ child' = "leaving" /\ announced' = TRUE
  /\ UNCHANGED <<gen, pipe, reader, closed, stops>>

Exits ==
  /\ Outside /\ child # "exited"
  /\ child' = "exited" /\ pipe' = "broken"
  /\ UNCHANGED <<gen, announced, reader, closed, stops>>

(* nvim closes its end of the pipe view writes to. *)
PipeBreaks ==
  /\ Outside /\ pipe = "open"
  /\ pipe' = "broken"
  /\ UNCHANGED <<gen, child, announced, reader, closed, stops>>

(* The end of the stream, or a request the full channel could not take. *)
ReaderEnds ==
  /\ Outside /\ reader = "reading"
  /\ reader' = "done"
  /\ UNCHANGED <<gen, child, announced, pipe, closed, stops>>

ReaderPosts ==
  /\ Outside /\ reader = "done"
  /\ reader' = "posted" /\ chan' = chan \cup {gen}
  /\ UNCHANGED <<gen, child, announced, pipe, closed, late>>

LateReaderPosts(g) ==
  /\ Outside /\ g \in late
  /\ late' = late \ {g} /\ chan' = chan \cup {g}
  /\ UNCHANGED engine

Closes ==
  /\ Outside /\ ~closed /\ (reader = "posted" \/ pipe = "broken")
  /\ closed' = TRUE
  /\ UNCHANGED <<gen, child, announced, pipe, reader, stops>>

-----------------------------------------------------------------------------
Top == Request \/ Replace \/ ReplaceStillborn \/ ReplaceFails \/ NothingDue
Fold == FoldHealthy \/ FoldCounted \/ FoldUnattended \/ \E k \in Kinds : FoldAsking(k)
Wait ==
  \/ \E g \in Gens : DropStop(g) \/ ResolveStop(g)
  \/ WriteFails \/ ChooseRestart \/ ChooseDismiss \/ ChooseQuit \/ WaitEnds
World ==
  \/ Announces \/ Exits \/ PipeBreaks \/ ReaderEnds \/ ReaderPosts \/ Closes
  \/ \E g \in Gens : LateReaderPosts(g)
Next == Top \/ Fold \/ Wait \/ BackoffElapses \/ EpisodeAges \/ World

Spec == Init /\ [][Next]_vars

(* The loop runs, its wait is cut by the readout of a standing wedge once  *)
(* a second, it takes what is in its channel, and its clock advances.      *)
FairSpec ==
  /\ Spec
  /\ WF_vars(Top) /\ WF_vars(Fold) /\ WF_vars(Wait)
  /\ WF_vars(BackoffElapses)
  /\ WF_vars(ReaderPosts) /\ SF_vars(\E g \in Gens : ResolveStop(g))

-----------------------------------------------------------------------------
(* Properties.                                                             *)

(* A connection is called lost only for an engine that is gone and never   *)
(* announced it was leaving: neither the user's own quit nor a child that  *)
(* is still running becomes a death to recover from.                       *)
DeathIsReal == connLost => child = "exited" /\ ~announced

(* There is always a way out: while the loop waits over a lost connection, *)
(* an attempt is scheduled or the modal offers restart and quit.           *)
NeverStranded == Waits /\ connLost => due # None \/ modal = "Dead"

(* An outage costs at most one of the session's unattended recoveries,     *)
(* however many passes and attempts it lasts.                              *)
OneUnattendedPerOutage == unasked <= 1

(* A working engine, and whatever it holds unsaved, is spared: it is torn   *)
(* down for a replacement only at the user's own request, and no late       *)
(* message of an engine it replaced ends it: outside a replacement the loop *)
(* ends a child only after that child's own reader has stopped.             *)
WorkingEngineIsSpared ==
  [][/\ lpc = "top" /\ child = "running" /\ (child' = "exited" \/ gen' # gen) /\ due' # due
          => why = "user"
     /\ Waits /\ lpc' # "wait" /\ child = "running" /\ child' = "exited"
          => reader = "posted"]_vars

(* An announced or a silent stop alike is answered: the session comes      *)
(* back, asks, or ends.                                                    *)
EveryStopIsAnswered ==
  reader = "done" ~> (reader = "reading" \/ modal = "Dead" \/ lpc = "over")

(* The doc of resolve and of note_engine_stop: a stop ends the session     *)
(* only when the engine announced it; a crash is offered recovery on every *)
(* path.                                                                   *)
OnlyAnAnnouncedStopEndsTheSession == ending \in {"stop", "cutover"} => announced
=============================================================================
