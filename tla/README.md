# A verification project for view

view is a terminal front end for Neovim. It runs nvim as a child (or through
ssh), speaks msgpack-RPC to it over pipes, paints what it draws, and keeps the
session alive when the child hangs, stalls or dies. Beside nvim it talks to a
system clipboard that may hang and to an AI agent that may die. This directory
models the parts of it that are concurrent or that hold a protocol together:
the threads between the runtime loop and the engine, what the loop does about
an engine that misbehaves, and the workers and folds around it that must
survive a restart.

## The system

One process, a few threads, one engine and at most one agent:

    callers --Outbox--> writer thread --pipe--> nvim --pipe--> reader thread
       ^                                                          |
       |                                   DamageBuffer, bounded channel, self-pipe
       |                                                          v
    update() <------------------------ runtime loop <-------- prober thread
                                         |      |
                       clipboard worker <+      +> context worker -> agent session

| Part | State | Operations | Hard behaviour | Module |
|---|---|---|---|---|
| Write side, `outbox.rs` | writer lock, `handed_off`, `wrote`, the channel | `send`, `write_from_thread` | two kinds of thread on one pipe; nothing overtaken; the caller never parks; a pipe that fills and breaks | `Outbox`, `OrderedWire` |
| Connection, `handle.rs` | pending map, `closed`, `reader_done`, announced exit | requests, timeouts, the reader's and the writer's ends, `close_and_drain`, `wait_until_settled` | whoever finds the loss first; a reply against a timeout; a full loop channel; a park against its notification | `Handle` |
| Liveness, `heartbeat.rs` | two generations, a ring of send times, cadence, `paused` | `tick`, `record_ack`, `pause`, `resume`, `observe`, `poll_deadline` | relaxed and acquire loads taken apart; the ring wraps | `Heartbeat` |
| Write stall, `stall.rs` | window over two counters | `observe`, `poll_deadline` | counters loaded one after the other | `Stall` |
| Wakeup, `wake.rs` and the loop's wait | `pending` flag, self-pipe, queue | `wake`, `clear`, the poll | the lost wakeup | `Wake` |
| Supervision, `recovery.rs`, `runtime.rs`, `supervision.rs` (two) | engine, reconnect schedule, wedge episode, modal, budget | resolve a stop or a failed write, fold verdicts, replace the engine | late stops, deaths during a replacement, exits against crashes | `Supervision` |
| Damage routing, `damage.rs` | staged batches, barriers, one token, held and queued messages | fold, raise, drain, route, retry, attach | a bounded channel refuses; redraws against invocations; the sink attaches late | `Pump` |
| Damage contents, `damage.rs`, `grid.rs`, `registry.rs` | staged events with epochs, cells, dirty rows, placements | compaction, drains, cell operations | an event dropped for a later one across a scroll, a resize or a drain | `Grid`, `Redraw` |
| Screen, `speculate.rs`, `view-surface`, `paint.rs` | predictions, viewports, the layers last painted, two buffers and the damage carried between them | type, reconcile, expire, paint | a glyph left over moved text; a retired prediction that owes no frame; a buffer two frames old; layers paired by position | `Screen` |
| Clipboard, `clipboard.rs`, `executor.rs` | worker's queue, shadow map, backend, reply route and epoch | get, set, query, store, a read past its budget, a restart's rebind | an answer after its engine is gone; a host that hangs; a queue behind it | `Clipboard` |
| Agent session, `ai_worker.rs`, `ai_context_worker.rs`, `session.rs`, `driver.rs`, `update/ai.rs` | slot, watch with its generation, child slot, driver's deferred commands and open permissions, panel's turn | dispatch, spawn, handshake, prompt, permission, cancel, crash, drop, shutdown | an orphaned agent; a late crash against a new session; a turn that nothing ends | `Agent` |
| Held submissions, `submit_hold.rs`, `line_report.rs`, `update/mod.rs` | standing hold, kept input, unreported lines, bounds | type, report, bound, prompt, restore, attach | late reports under shared or changed texts; a cap; a restart | `Hold` |

The parts below these are not modelled. Most of `update()` is a synchronous
fold with hundreds of message kinds; escape sequences, layout, picker
and tree are sequential; spawning and files are I/O. `PROJECT.json` lists every
part with what is left out of it and why.

## The modules

- **`Outbox`** follows one `send` through its steps: try the lock (`Claim`,
  `Refuse`), test and poll (`GoInline`, `HandOff`), write, count, enqueue; and
  one writer thread through receive, lock, write chunk by chunk, count and
  release. A message is one or more PIPE_BUF chunks, so a write can park
  between two of them. `begun`, `done` and `after` are history.
- **`OrderedWire`** is what the write side promises: no lock, queue or thread,
  only messages that come out whole, once, and not ahead of what was done
  before them. `Outbox!ImplementsOrderedWire` is the refinement, `out` mapped
  to the messages whose last chunk is on the wire.
- **`Handle`** has one action per critical section of the pending lock, so that
  a caller's registration, send and undo, the reader's answer, the writer
  thread's failure and the final drain meet in every order. The settler's test
  and its park are two steps. The reader ends with nvim, or before it on bytes
  that decode to no value. Of the messages to the loop it keeps the count,
  against the channel's capacity.
- **`Heartbeat`** splits the prober's tick at each atomic store and the
  observer's reading at each load, and a resume into its load and store of the
  forgiveness, the store that dates the arming and the release. Clock ticks are coarse; `SendLog` is the
  ring, 64 in the code.
- **`Stall`** has one action per counter update of the writer thread and per
  load of the watch.
- **`Wake`** splits `wake` (swap, write) and `clear` (store, drain) around the
  queue, and the poll with its three sources in the order `poll_readiness`
  gives them.
- **`Supervision`** is the loop's pass: `Top` (a due replacement), `Fold`
  (verdicts into banner, modal or restart), `Wait` (a stop, a failed write, a
  choice). Engines are numbered; readers of replaced engines may still post.
- **`Pump`** has two threads: the reader folds a batch or routes a message
  (retry what is parked, then send, hold, queue or give up), one `try_send` or
  one lock section a step; the loop attaches the sink, reads the pending flag,
  drains, resolves the FIFO, and then receives, admits and drains the residue.
  Batches are numbered and only their number is kept, so the buffer is two
  counters and `flush` and the barriers are prefix lengths. Every message
  carries a number, and an invocation the last batch nvim had flushed.
- **`Grid`** is the pure part of the grid: what each operation does to the
  cells and which rows it marks. **`Redraw`** stages real events in the buffer
  `Pump` abstracts: `FoldOne` kills what a later event supersedes, drains cut
  the stream at a flush or at a barrier, and the registry applies what is left.
  `wire` is the registry with every event applied, the reference for what a
  drain shows.
- **`Screen`** extends `Redraw` to the terminal. A drained batch is judged by
  the speculative echo before it is folded (`Dispatch`); a key predicts a glyph
  where nvim's cursor will put it; `Paint` composes the rows that the registry,
  the layers and the frame before report, over a buffer that holds the frame
  before the one on screen, and writes what differs. `terminal` is what the
  real cells hold, and `Cell`, a composite from scratch, the reference for it.
  `made` is history: what stood under a prediction when it was typed.
- **`Clipboard`** is the loop, one worker that outlives engines, the read
  threads it leaves behind, and two engines. Requests come over two ways with
  different fates at a restart: `get` and `set` over the loop's channel, which
  every engine shares, `query` and `store` inside redraws, in a pump that goes
  with its engine. Every call into the host may hang: a connect (`Connect`) and
  a write (`SetText`) are steps of the host's that hold the worker until they
  are taken, and only a read is given up (`ReadOverruns`). A read thread the OS
  refuses drops the backend. `replace_engine` is five steps, and the reply route, the
  executor's epoch and the engine are each at another value between them.
- **`Agent`** follows a command from the panel through the context worker's
  queue, the slot's buffer, the session's channel and the commands deferred
  until the session exists; a spawn through its four stages; a session's end
  through `drive`'s return, the child's reaping and the report. Three threads
  reach the slot, two the child. A session's number is the generation of its
  watch. Two things are coarser than the code. The driver's outgoing channel and
  the task that writes it to the agent are one step (`Write`), so a command is
  heard once it is queued, in the same order. And a spawn's start
  (`DispatchIdle`) is one step, where the code lets go of the slot between
  marking it `Spawning`, beginning the watch and a thread the OS refuses: the
  context worker alone starts spawns, but the publish of an older one, after a
  shutdown, falls before or after the three, never between them.
- **`Hold`** is the fold of `SubmitHold` with the nvim it waits for: typeahead,
  a running line, a registration that reports may be cleared from, and a
  channel that outlives the engine. A line is one input; its report may carry
  the text typed or one an abbreviation gave it. A line that waits at a
  `confirm()` or `:s///c` question is reported at the question
  (`mappings.rs:439`); here it is reported once it has run, which leaves the
  order of reports as it is but not the time between report and end.

Each `MC` module only names model values; `MCScreen` also lists the events
nvim draws from. Each `_Name` variant of a definition
(`CountRefused_Uncounted`) is a plausible bug, used by the mutants of
`PROJECT.json` to show that a property can fail.

## What the runs check

| Run | Bounds | Shows |
|---|---|---|
| `outbox` | 2 callers, 2 messages each, lengths 1 and 2, pipe of 1 | order, whole frames, no parking, refinement of `OrderedWire`; sends return with only callers scheduled; the backlog is written |
| `handle` | 2 callers, 2 requests, 1 event, channel of 1 | closed means nobody waits; no waiter leaks; settled means read to the end; every call and the settle return once nvim is gone |
| `heartbeat` | ring of 4, interval 2, threshold 3, retry 1, time 8, 1 pause | no false wedge, deadlines early enough, nothing but an answer clears a probe |
| `wake` | 2 producers, 3 sends, pipe of 2, 2 keys | the loop comes to rest; the queue is drained when a deadline is armed |
| `stall` | threshold 3, 3 messages, time 9 | a stall is a backlog that stood still; the loop does not sleep through one |
| `supervision` | 3 engines, 2 attempts, budget 2 | deaths are real, always a way out, a working engine is spared, every stop answered |
| `pump` | channel of 2, 4 messages, 1 held key | no batch stranded, invocations over their screen, no message lost or reordered, the stop gets through |
| `screen` | 3 rows of 2 cells, a global grid and a window, 3 events or keys besides flushes, 1 barrier | compaction and partial drains show the frame nvim meant; predictions stand only over what they were made for; unless a frame is owed, every cell of the terminal is current |
| `clipboard` | 2 engines, 2 requests each, 1 register, 1 copy, 1 change from outside | an answer reaches who asked, but for a get or a set overtaken by a replacement in the loop's queue; the own copy is what a paste reads; no engine blocks for ever on a host that hangs in reads alone |
| `agent` | 2 sessions, 2 commands, 2 permissions | no orphan, watches follow sessions, turns end, commands in order |
| `agent_sink_doc` | the same, 1 permission | a refused handshake leaves a session that swallows prompts |
| `hold` | 2 line texts, 4 inputs, 1 kept, 1 clear, 1 prompt, 1 restart | a hold ends for its own line, at its own report; what is typed is sent, once and in order |

Two callers are enough for the order between an inline and a handed-off
message: one between its test and its write, one on either path. A pipe of one
chunk has the states the code tells apart, room for an inline message and none,
and a handed-off message of two chunks always parks in it half way. Four pump
messages are two that fill the channel, one refused, and one that finds room
again. The channel must hold more than there are slots (14 against 64 in the
code): with room for one, the held heartbeat of every probe would take it from
the queue for ever. A ring of four slots spans twice the threshold of three at
an interval of two, as the code's 64 slots must, and comes round to its first
slot within the time bound; later rounds are the proofs' matter, which hold for
every time bound. Two attempts and a budget of two
are the least that reach "spent". Three drawn events are a line, what parts it
from a second line, and that line; a flush may stand between any two of them,
and a drain, a paint or the expiry of a prediction between any two steps; a
key may take the place of an event. With three rows a frame of one is clipped
and a frame of two is not (`Compared`). Two agent sessions are one and
the one that replaces it while the first still reports its end. One line kept
unreported (4 in the code) is full with the first and evicts with the second,
and four inputs are three lines and a key behind them. Two engines are one to
be replaced and one to receive what was meant for it.

Deadlock is not checked: every module has states in which the program really
stops (all messages sent, engine gone, session over, the bounds spent); the
liveness properties say what must not stop. The `TypeOK` of each module holds
on its instance too, and so do `AcceptedNotLost`, `HandOffAccounted` (which is
proved, `OwedIsCounted`) and `PipeNeverFills`; they are left out of the
configurations because the listed properties say more.

### Where the code and its comments part

`agent_sink_doc` looks for one counterexample, to what `ai_worker.rs:365` says
of dispatch: that the next prompt becomes "a restart instead of a permanent
silent sink". When the agent refuses `initialize`, `authenticate` or
`session/new`, the driver reports a crash and goes on driving; its channel
stays open, so the next prompt finds a session that is not closed, is deferred
for a session that will never exist, and the panel waits for the end of a turn
nobody works on. The finding in `PROJECT.json` quotes the lines.

Modelling met other places where the code does not do what a comment says.
Most are stated as properties, which fail on the models and which no run
lists:

- **Wake.** `clear` stores the flag and then drains (`wake.rs:129`), so a send
  between the two has its byte eaten, with the flag left set; the comment
  above (`wake.rs:124`) counts on the re-check of the queue, which comes
  after both and finds that message, but a later one then writes no byte. With
  no deadline armed the loop sleeps over it until the next key (`NoLostWakeup`).
- **Heartbeat.** Publishing after the stamp (`heartbeat.rs:324`) leaves a
  window in which the slot holds the new probe's time and the generation is
  not yet advanced, which the re-read (`heartbeat.rs:227`) is said to catch
  exactly (`RereadCatchesTheOverwrite`). `NoFalseWedge` holds all the same:
  the mistake is on the side of patience.
- **Supervision.** A replacement that dies before its cutover has drained ends
  the session (`startup.rs:970`) though it announced nothing, where
  `native/supervision.rs:863` makes the announcement "the whole predicate"
  (`OnlyAnAnnouncedStopEndsTheSession`).
- **Pump.** A held read refused again (`damage.rs:1067`) is delivered after its
  successor when the successor's own send finds room, so older float rows are
  painted over newer ones; `damage.rs:515` says they are superseded
  (`RowsNeverGoBack`).
- **Clipboard.** A request still queued to the loop when its engine is replaced
  is dispatched with the new engine's epoch, since the loop's channel carries no
  generation, and the answer goes to the new engine under a msgid of the old
  one (`AnswersReachWhoAsked`), where `clipboard.rs:216` has a stale reply
  dropped because it "would answer whatever request the replacement happens to
  have open under the same msgid". `OnlyOvertakenGoAstray` bounds it: a query
  never goes astray, nor a request dispatched before its engine was replaced. And "every caller therefore returns inside the budget,
  whatever the host's clipboard owner is doing" (`clipboard.rs:536`; line 431
  says the same of a query) holds of `get_text` alone: `connect` and `set_text`
  run on the worker, and one that hangs holds every job behind it
  (`ReleasedWhateverTheHostDoes`).
- **Agent.** `is_closed` (`session.rs:304`) says a caller that sees a closed
  session "already has an explanation on the wire"; the report follows the
  child's reaping, after the channel has closed. `ai_worker.rs:545` says only
  the spawner moves the slot out of `Spawning`; `shutdown` does as well, and the
  session then published into `Idle` is dropped on the spot.
- **Hold.** `submit_hold.rs:958` argues that an older line's late report ends no
  hold because it comes first. It does when that line was evicted at the cap
  and shares the armed line's text, and when a registration's answer
  (`msg.rs:258`: "none of the first `armed` lines is ever reported") overtakes a
  line that nvim has not read. A report of a replaced engine carries no
  generation and can end a hold of the new one. A report under a changed text
  that comes while no hold stands cancels no debt, so the next hold waits for
  its bound. And `note_report_restored` (`line_report.rs:98`) forgets every line
  dropped at the cap, though one armed after that registration may have been
  dropped since and still report, where `submit_hold.rs:338` has `evicted` count
  the dropped "still unreported". The last was found while proving, at five
  inputs: four, the run's bound, are too few for it. `misled` and `Misleads`
  mark all of these but the changed text, and `HoldEndsOnItsOwnLine` is stated
  where neither holds; `ReportEndsItsHold` counts only lines reported under
  their own text.

Smaller ones, which no definition states:

- `Route::deferred_queued` promises that everything queued is delivered
  (`damage.rs:571`); `route_terminal` retries nothing, so what is parked when
  the engine stops stays parked. `ParkedIsDelivered` excepts it.
- `handle.rs:1423` says a caller told `Closed` never reads `false` afterwards;
  a send refused by the writer's channel is answered `Closed` before anyone has
  closed the connection.
- A heartbeat's answer is acknowledged whichever connection it came from
  (`runtime.rs:890`), so the late answer of a replaced engine counts for the
  probes of its replacement.
- The first probe after `resume` goes out at the prober's own phase, not an
  interval after the arming (`heartbeat.rs:595`).
- A dismissed modal is remembered by its kind alone
  (`update/supervision.rs:87`), so a wedge that changes kind and back within
  one episode asks again.

### Fairness

`Outbox` schedules callers alone for `SendReturns`; `BacklogIsWritten` has the
writer thread and a reading nvim as its premise (`WriterRuns`): both are run by
the operating system, and an nvim that never reads is what `Stall` reports.
`Handle` schedules callers, reader, loop and the settler's park. `Wake`
schedules producers inside
`wake` and the loop; `QueueIsDrained` has an armed deadline's expiry as its
premise (`DeadlineArmed`), without which an eaten wake would refute it. `Supervision` schedules the loop, the reader and a
backoff that elapses, never nvim or the user; a posted stop is received with
strong fairness, because the loop's other wakeups take turns with it in a FIFO
channel the model keeps as a set. `Pump` schedules both threads and nvim's
answers to the probes that go out twice a second (`LaterBeat`), which reach a
running loop with its channel empty; without them nothing retries a parked
message. `Clipboard` schedules the loop's steps (a replacement once begun goes
on) and the worker's own, which give up a read of a hung host at its budget;
never nvim, the user, the host or a read thread left behind. That the host
returns from a connect and a write is the premise of `BlockedEngineIsReleased`
(`HostReturns`), since the code waits for both without a bound. `Agent` schedules the loop's
fold, the context worker, spawners, session tasks and the driver's reading of
what the agent sent; never the agent, which may keep a turn as long as it
lives, nor the user. `Hold` schedules the loop's timers alone, since a hold
must end whatever nvim does. All other fairness is weak. `Screen`, `Heartbeat`
and `Stall` state safety only.

## What is proved

Every safety property a run checks, and the one refinement, is a theorem, for
every value of the constants that satisfies the named assumptions of the module
proved about. Eight modules hold the proofs. Each defines an inductive
invariant, proves that the initial states satisfy it and that every step keeps
it, with a step per action, and derives its theorems.

| Module | Theorems | What the invariant adds, and why |
|---|---|---|
| `OutboxProofs`, on `Outbox` | `InductiveInvariant`, `OrderIsKept`, `OwedIsCounted`, `CallerNeverParks`, `TypeCorrect` | What a message waits behind must be known wherever the message is, so `OrderKept` states it for the inline writer, the writer thread's hands and each place in the channel; it needs `LockOwned` (who holds the lock is where its program counter says), `HandOffAccounted` (a zero read under the lock means nothing is in flight), `HistoryOK`, `WriteUnderWay`. |
| | `FramesStayWhole` | A chunk lands behind the right one because of what ends the wire (`LastWhole`), and no frame appears twice because a message has one home at a time (`OneHome`: its caller, the channel, the thread's hands, the wire). |
| | `WriteSideImplementsOrderedWire` | Each step of a caller or of the thread is one of `OrderedWire`'s or a stutter. A last chunk adds its message to what is written and nothing else, because it is on the wire once (`EndsNumbered`); an answer to a send is one the abstract wire may give (`Answered`). |
| `OutboxProofs`, on `Stall` | `AStallIsReal`, `ABacklogIsReported` | The window is never older than the last delivery the watch could have seen, torn loads included (`WindowIsFresh`), and never forgotten while the backlog it saw stands (`BacklogIsWatched`). |
| `HandleProofs` | `NobodyWaitsOnAClosedConnection`, `NoCallLeaksItsWaiter`, `SettledMeansAllWasRead`, `TheWakeIsNeverLost` | A caller is answered because it is still owed something: a waiter, a value in its channel, or one in the reader's hands (`CallersAreOwed`, `WaitersAreWanted`), under a msgid nobody else has (`MsgIdsAreFresh`, `NotYetRegistered`). |
| `SupervisionProofs` | `OnlyTheDeadAreLost`, `AWayOut`, `AnOutageSpendsOne`, `TheWorkingEngineIsSpared` | A stop is believed because of whom it names (`StopsAreNamed`); an attempt that failed is either scheduled again or over (`CountIsScheduled`); after an unattended recovery every failed attempt is counted, so a second one needs the outage to have ended (`OutageIsCounted`); a restart owed over a working engine is the user's (`RestartIsOwed`). |
| `HeartbeatProofs` | `AWedgeIsReal`, `NothingMasksAHang` | What a slot holds may be a later probe's time but never an earlier one's (`RingIsNoOlder`), hence what a reading took from it is no older than what it stands for (`ReadingIsNoOlder`); `Ticking` says where between its stores the prober is. |
| | `TheWakeupNeverOversleeps` | The other direction needs the ring to be exact for the probes it still holds (`RingIsExact`), probes an interval apart (`Spaced`), the cadence dated by the last of them or by an arming (`CadenceIsDated`), and, for each load of a reading, what it can have missed since (`Reading`, `Resting`): all of them `Watch`. |
| `PumpProofs` | `NothingIsStranded`, `NothingLostOrReordered`, `InvocationsSeeTheirScreens`, `PumpTypeOK`, `PumpInvHolds` | Barriers in the buffer pair, in order, with the invocations past the route, each naming its screen (`Paired`); a flush not yet shown has a token in the channel, a flag for the residue, or a drain under way (`WakeupOwed`); hands, parked queues and channel hold consecutive numbers (`OrderOK`). `LockOwned`, `HandsOK`, `SlotsOK` and `BufferOK` say what each thread may hold where. |
| `ScreenProofs`, on `Redraw` | `DrainsShowTheFrame`, `FrameInvHolds` | `FrameInv` compares the registry after each staged flush with the picture nvim flushed, and at the buffer's end with `wire`. Dropping an event leaves the two alike but for the cells it would have written, until the event that superseded it writes the same cells; that no scroll carries the difference elsewhere in between, nor a drain ends there, is what the epochs are for (`EpochsAre`). |
| `ScreenProofs`, on `Screen` | `PredictionsStand`, `TerminalStaysCurrent`, `ScreenTypeOK` | Every prediction stands on what it was made for, in the registry the loop has (`EchoInv`). The terminal is the front buffer; the back buffer differs from it on carried rows only; off the damage not yet drained the front buffer is the composite from scratch; and with no frame owed there is no damage and the layers are the surface's (`PaintInv`). |
| `ClipboardProofs` | `OnlyOvertakenAnswersGoAstray`, `TheShadowIsTheLastCopy` | Who asked is known wherever a request waits: what is queued to the loop was asked by no engine newer than the one running, a redraw by the running one alone, for a respawn empties the pump; a job was asked by the engine of its epoch or is an overtaken get or set (`AskersAreKnown`). Each register's shadow, once the whole backlog is stored into it, is the last copy dispatched (`BacklogIsExpected`), so what the worker takes next, behind any number of jobs, reads that copy (`ShadowIsRead`). |
| `CoreProofs`, on `Agent` | `NoAgentIsLeftRunning`, `TheWatchFollowsItsSession` | Whoever takes the child out of its slot signals it, in either order of the drop and the task (`AllSignalled`); one attempt is under way and it is the newest (`OneAttempt`), before which no later session exists (`Unlaunched`). |
| | `CommandsStayInOrder` | What waits for a live agent, in its channel, among the deferred, in the slot's buffer and in the context queue, is one increasing line above everything any agent has heard (`InLine`). |
| `CoreProofs`, on `Hold` | `HoldsEndOnTheirOwnLines`, `ReportsEndTheirHolds`, `HoldIsWellTyped`, `HoldInvHolds` | Lines ahead, reported, running or unread, are in the order they were armed and known by one text (`InOrder`, `OneText`); lines kept are older than the armed one and sorted (`KeptInOrder`). A line answered and still kept means an older one was passed over (`NoneStale`). Unless view was misled, every report this engine has yet to send is of a line kept, of one dropped and counted, or of the armed one, and a registration's answer comes ahead of every report it does not count (`Owed`). |

Four assumptions are worth naming: the heartbeat's ring spans twice the
threshold (`LogSpansTwiceTheThreshold`, a compile-time assertion in the code),
a stall's threshold is positive, the texts and kinds of `Hold`'s inputs are
apart, and the bounds on what an environment may do are natural numbers.

The invariants were checked by TLC before they were proved, and two claims did
not survive that or the proof. `NeverOversleeps` once said the wakeup comes no
later than the reading took, which a bound at a retry of one unit upheld; with a
longer retry a reading that ticks keep landing in is taken again later than
that, so the property now grants the retry. `HoldEndsOnItsOwnLine` failed at
five inputs, as described above.

Induction over data is out of this prover's reach, and what these proofs need of
it they get from the least number with a property (`NatMin`, from the
well-foundedness of finite sets of numbers). For the same reason the models
state what a filter would pick by the places it picks (`Written` of `Outbox`,
`After` of `Hold`, the queues of `Pump` and `Agent`, the rows of `Screen`),
which the provers can reason about. (`SelectSeq` is left in a bound of `Agent`
that no proof reads.)

Only model-checked:

- liveness, which the prover cannot state under fairness (nor ENABLED):
  `SendReturns`, `BacklogIsWritten`, `AllReturnOnceTheEngineIsGone`,
  `QueueIsDrained` and `NoBusyLoop` (both of `Wake`, which has no proofs: its
  safety claims are auxiliary, and the one its comment makes is false),
  `EveryStopIsAnswered`, `StopGetsThrough`, `ParkedIsDelivered`,
  `BlockedEngineIsReleased`, `TurnEndsWithItsAgent`, `TypedIsSent`;
- the type invariants of `Handle`, `Heartbeat`, `Stall`, `Supervision`, `Clipboard`
  and `Agent`, whose proofs carry the parts of it they use.

No module has a RECURSIVE operator.

tlapm 1.4.5 translates an update of one function at two paths in one EXCEPT
(`[f EXCEPT ![s].a = x, ![s].b = y]`) to SMT as if the second did not see the
first, from which anything follows. The modules proved about update a record
in an inner EXCEPT instead; keep it so.

## What is left

1. `LoopChannel`: one channel over successive engines, with the generation that
   stops carry and requests do not, as the cause of the clipboard's and the
   hold's stale messages.
2. In `Screen`: the palette speculated for a typed colon, a resize of the
   terminal, a second window.
3. Superseded picker searches, hunk review, the holds of key sequences and
   opens.
4. The type invariants that are only model-checked, and the safety half of
   `Wake`.

Not modelled, and not planned: escape sequences, styles and wide
glyphs, the parsing of input, the surface cache and the layout of the layers
above the grid (sequential translation of text, covered by the repository's
oracle tests); configuration, tree and toast (data transformation); wrappers
over the operating system's spawn and pipes; test oracles, harness and
benchmarks, which are not part of the program.
