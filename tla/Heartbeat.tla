------------------------------ MODULE Heartbeat ------------------------------
(***************************************************************************)
(* The read side's watch (view-engine, heartbeat.rs): a prober thread      *)
(* sends one probe per interval and stamps it in a ring of send times; the *)
(* observing thread, the runtime loop, folds answers, asks for a verdict   *)
(* from the oldest probe still owed an answer, and asks how long it may    *)
(* sleep.  The two threads share atomics only, so every load and store is  *)
(* a step of its own; the acknowledged generation is the exception, read   *)
(* and written by the observing thread alone.                              *)
(*                                                                         *)
(* Time is a clock of whole units that may advance between any two steps.  *)
(* Time does not pass inside a tick, which is four stores.                 *)
(* sentTrue, answered, forgiven and began are history: when each probe     *)
(* really went out, which were answered, the newest one a resume forgave,  *)
(* and when the deadline's reading began.                                  *)
(***************************************************************************)
EXTENDS Integers, FiniteSets, FiniteSetsExt

CONSTANTS
  SendLog,       \* SEND_LOG: send times the ring keeps
  Interval,      \* HEARTBEAT_PROBE_INTERVAL
  Threshold,     \* HEARTBEAT_WEDGE_THRESHOLD
  Attempts,      \* ANCHOR_READ_ATTEMPTS
  Retry,         \* UNSETTLED_RETRY
  MaxTime,       \* bound: the clock
  MaxPauses      \* bound: pauses

ASSUME LogSpansTwiceTheThreshold ==
  /\ {SendLog, Interval, Threshold, Attempts, Retry} \subseteq Nat \ {0}
  /\ {MaxTime, MaxPauses} \subseteq Nat
  /\ SendLog * Interval >= 2 * Threshold
  /\ Interval < Threshold /\ Retry <= Interval

VARIABLES
  now,
  sentGen, ackedGen, sentAt, cadenceAt, paused,  \* struct Probe
  ppc, slept, gen, stamp,                        \* prober thread
  replies, closed,                               \* the connection
  opc, op, rAnchor, rSent, rOpened, rClock, tries, \* observer: one read
  verdict, wake,                                 \* what it was told last
  sentTrue, answered, forgiven, began, pauses  \* history

probe == <<sentGen, ackedGen, sentAt, cadenceAt, paused>>
prober == <<ppc, slept, gen, stamp>>
reading == <<op, rAnchor, rSent, rOpened, rClock, tries>>
told == <<verdict, wake>>
history == <<sentTrue, answered, forgiven, began, pauses>>
vars == <<now, probe, prober, replies, closed, opc, reading, told, history>>

Times == 0 .. MaxTime
Gens == 0 .. MaxTime + 1
NoWake == -1
Slot(g) == g % SendLog

TypeOK ==
  /\ now \in Times
  /\ sentGen \in Gens /\ ackedGen \in Gens
  /\ sentAt \in [0 .. SendLog - 1 -> Times] /\ cadenceAt \in Times /\ paused \in BOOLEAN
  /\ ppc \in {"sleeping", "checked", "stamped", "published", "dated", "retired"}
  /\ slept \in Times /\ gen \in Gens /\ stamp \in Times
  /\ replies \subseteq Gens /\ closed \in BOOLEAN
  /\ opc \in {"folding", "forgiven", "dated", "glance", "pair", "slot", "check", "anchor",
              "deadline", "prospect", "asleep"}
  /\ op \in {"observe", "deadline"}
  /\ rAnchor \in Times /\ rSent \in Gens /\ rOpened \in Times /\ rClock \in Times
  /\ tries \in 0 .. Attempts
  /\ verdict \in {"Alive", "Wedged", "Dead"}
  /\ wake \in Nat \cup {NoWake}
  /\ sentTrue \in [Gens -> Times] /\ answered \subseteq Gens
  /\ forgiven \in Gens /\ began \in Times /\ pauses \in 0 .. MaxPauses

(* spawn_prober has started the thread; the watch starts paused.           *)
Init ==
  /\ now = 0
  /\ sentGen = 0 /\ ackedGen = 0 /\ sentAt = [s \in 0 .. SendLog - 1 |-> 0]
  /\ cadenceAt = 0 /\ paused = TRUE
  /\ ppc = "sleeping" /\ slept = 0 /\ gen = 0 /\ stamp = 0
  /\ replies = {} /\ closed = FALSE
  /\ opc = "folding" /\ op = "observe"
  /\ rAnchor = 0 /\ rSent = 0 /\ rOpened = 0 /\ rClock = 0 /\ tries = 0
  /\ verdict = "Alive" /\ wake = NoWake
  /\ sentTrue = [g \in Gens |-> 0] /\ answered = {} /\ forgiven = 0 /\ began = 0
  /\ pauses = 0

-----------------------------------------------------------------------------
(* The prober thread: sleep one interval, tick.                            *)

Prober(from) ==
  /\ ppc = from
  /\ UNCHANGED <<now, ackedGen, paused, closed, opc, reading, told, answered, forgiven, began,
                 pauses>>

Sleeps == slept' = now /\ ppc' = "sleeping" /\ gen' = 0 /\ stamp' = 0

(* The clock is read before anything else; a paused prober sends nothing.  *)
StartTick ==
  /\ Prober("sleeping")
  /\ now >= slept + Interval
  /\ IF closed THEN ppc' = "retired" /\ UNCHANGED <<slept, gen, stamp>>
     ELSE IF paused THEN Sleeps
     ELSE ppc' = "checked" /\ stamp' = now /\ UNCHANGED <<slept, gen>>
  /\ UNCHANGED <<sentGen, sentAt, cadenceAt, replies, sentTrue>>

StampSlot ==
  /\ Prober("checked")
  /\ gen' = sentGen + 1
  /\ sentAt' = [sentAt EXCEPT ![Slot(sentGen + 1)] = stamp]
  /\ ppc' = "stamped"
  /\ UNCHANGED <<slept, stamp, sentGen, cadenceAt, replies, sentTrue>>

Publish ==
  /\ Prober("stamped")
  /\ sentGen' = Max({sentGen, gen})
  /\ sentTrue' = [sentTrue EXCEPT ![gen] = stamp]
  /\ ppc' = "published"
  /\ UNCHANGED <<slept, gen, stamp, sentAt, cadenceAt, replies>>

DateCadence ==
  /\ Prober("published")
  /\ cadenceAt' = stamp
  /\ ppc' = "dated"
  /\ UNCHANGED <<slept, gen, stamp, sentGen, sentAt, replies, sentTrue>>

(* request_heartbeat; a refusal ends the thread.                           *)
SendProbe ==
  /\ Prober("dated")
  /\ IF closed THEN ppc' = "retired" /\ UNCHANGED <<slept, gen, stamp, replies>>
     ELSE Sleeps /\ replies' = replies \cup {gen}
  /\ UNCHANGED <<sentGen, sentAt, cadenceAt, sentTrue>>

ProberThread == StartTick \/ StampSlot \/ Publish \/ DateCadence \/ SendProbe

-----------------------------------------------------------------------------
(* The observing thread, between reads.                                    *)

Folding ==
  /\ opc = "folding"
  /\ UNCHANGED <<now, prober, closed, reading, told, sentGen, sentAt, sentTrue, began>>

(* Mutant: any answer settles everything sent. *)
RecordAck_SettlesAll(g) ==
  /\ Folding /\ g \in replies
  /\ replies' = replies \ {g}
  /\ ackedGen' = sentGen
  /\ answered' = answered \cup {g}
  /\ UNCHANGED <<opc, cadenceAt, paused, forgiven, pauses>>

(* record_ack: an answer to any probe sent, in any order.                  *)
RecordAck(g) ==
  /\ Folding /\ g \in replies
  /\ replies' = replies \ {g}
  /\ ackedGen' = Max({g, ackedGen})
  /\ answered' = answered \cup {g}
  /\ UNCHANGED <<opc, cadenceAt, paused, forgiven, pauses>>

Pause ==
  /\ Folding /\ ~paused /\ pauses < MaxPauses
  /\ paused' = TRUE
  /\ pauses' = pauses + 1
  /\ UNCHANGED <<opc, ackedGen, cadenceAt, replies, answered, forgiven>>

(* resume: everything sent so far is forgiven, under the clock it was read *)
(* at.  A tick that had begun before the pause may still go through.       *)
Resume ==
  /\ opc = "folding" /\ paused
  /\ opc' = "forgiven" /\ rClock' = now
  /\ ackedGen' = sentGen /\ forgiven' = sentGen
  /\ UNCHANGED <<now, prober, closed, told, sentGen, sentAt, sentTrue, began>>
  /\ UNCHANGED <<cadenceAt, paused, replies, answered, pauses, op, rAnchor, rSent, rOpened, tries>>

(* The arming is itself a cadence event.                                   *)
DateArming ==
  /\ opc = "forgiven" /\ opc' = "dated"
  /\ cadenceAt' = rClock
  /\ UNCHANGED <<now, prober, closed, reading, told, history>>
  /\ UNCHANGED <<sentGen, ackedGen, sentAt, paused, replies>>

Release ==
  /\ opc = "dated" /\ opc' = "folding"
  /\ paused' = FALSE /\ rClock' = 0
  /\ UNCHANGED <<now, prober, closed, told, history, sentGen, ackedGen, sentAt, cadenceAt>>
  /\ UNCHANGED <<replies, op, rAnchor, rSent, rOpened, tries>>

BeginObserve ==
  /\ Folding
  /\ opc' = "glance"
  /\ UNCHANGED <<ackedGen, cadenceAt, paused, replies, answered, forgiven, pauses>>

(* Asleep until wake at the latest; traffic wakes it earlier.  The locals  *)
(* of the pass that slept are gone.                                        *)
Wake ==
  /\ opc = "asleep" /\ opc' = "folding"
  /\ op' = "observe" /\ rAnchor' = 0 /\ rSent' = 0 /\ rOpened' = 0 /\ rClock' = 0 /\ tries' = 0
  /\ verdict' = "Alive" /\ wake' = NoWake /\ began' = 0
  /\ UNCHANGED <<now, probe, prober, replies, closed, sentTrue, answered, forgiven, pauses>>

-----------------------------------------------------------------------------
(* observe and poll_deadline, one shared load per step.                    *)

Reads(at) ==
  /\ opc = at
  /\ UNCHANGED <<now, probe, prober, replies, closed, sentTrue, answered, forgiven, pauses>>

Outstanding(sent) == sent > ackedGen
AnchorGen_Acked(sent) == Max({ackedGen, sent - (SendLog - 1)})  \* mutant: one too old
AnchorGen(sent) == Max({ackedGen + 1, sent - (SendLog - 1)})
Silence == Max({0, rClock - rOpened})
Remaining(silence) == IF Threshold > silence THEN Threshold - silence ELSE Threshold

Tell(v) == verdict' = v /\ opc' = "anchor" /\ UNCHANGED wake
SleepUntil(t) == wake' = t /\ opc' = "asleep" /\ UNCHANGED verdict

(* The steady state of observe: closed, or one load and no clock.          *)
Glance ==
  /\ Reads("glance") /\ UNCHANGED began
  /\ IF closed THEN Tell("Dead") /\ UNCHANGED reading
     ELSE IF ~Outstanding(sentGen) THEN Tell("Alive") /\ UNCHANGED reading
     ELSE /\ opc' = "pair" /\ op' = "observe" /\ rClock' = now /\ tries' = 1
          /\ UNCHANGED <<rAnchor, rSent, rOpened, told>>

(* What the reading says, to the question that asked for it.               *)
Conclude(nothing, v, t) ==
  IF op = "observe" THEN Tell(IF nothing THEN "Alive" ELSE v)
  ELSE SleepUntil(IF nothing THEN NoWake ELSE t)

LoadPair ==
  /\ Reads("pair") /\ UNCHANGED began
  /\ rSent' = sentGen
  /\ IF Outstanding(sentGen) THEN opc' = "slot" /\ UNCHANGED told
     ELSE Conclude(TRUE, "Alive", NoWake)
  /\ UNCHANGED <<op, rAnchor, rOpened, rClock, tries>>

LoadSlot ==
  /\ Reads("slot") /\ UNCHANGED began
  /\ rOpened' = sentAt[Slot(AnchorGen(rSent))]
  /\ opc' = "check"
  /\ UNCHANGED <<op, rAnchor, rSent, rClock, tries, told>>

(* The reading stands only if no tick was published meanwhile.             *)
Check ==
  /\ Reads("check") /\ UNCHANGED began
  /\ IF sentGen = rSent
       THEN /\ Conclude(FALSE, IF Silence >= Threshold THEN "Wedged" ELSE "Alive",
                        rClock + Remaining(Silence))
            /\ UNCHANGED tries
     ELSE IF tries < Attempts
       THEN opc' = "pair" /\ tries' = tries + 1 /\ UNCHANGED told
     ELSE Conclude(FALSE, "Alive", rClock + Retry) /\ UNCHANGED tries
  /\ UNCHANGED <<op, rAnchor, rSent, rOpened, rClock>>

(* poll_deadline: the cadence anchor first, the generations after it.      *)
LoadAnchor ==
  /\ Reads("anchor")
  /\ rAnchor' = cadenceAt /\ began' = now
  /\ opc' = "deadline"
  /\ UNCHANGED <<op, rSent, rOpened, rClock, tries, told>>

LoadForDeadline ==
  /\ Reads("deadline") /\ UNCHANGED began
  /\ IF Outstanding(sentGen)
       THEN opc' = "pair" /\ op' = "deadline" /\ rClock' = now /\ tries' = 1
       ELSE opc' = "prospect" /\ UNCHANGED <<op, rClock, tries>>
  /\ UNCHANGED <<rAnchor, rSent, rOpened, told>>

(* Mutant: the cadence anchor is read after the generations. *)
Prospect_ReadsLate ==
  /\ Reads("prospect") /\ UNCHANGED began
  /\ LET owed == cadenceAt + Interval IN
       SleepUntil(IF paused THEN NoWake
                  ELSE IF now <= owed THEN owed + Threshold
                  ELSE now + Remaining(now - owed))
  /\ rClock' = now
  /\ UNCHANGED <<op, rAnchor, rSent, rOpened, tries>>

(* prospective_deadline: the probe that has not gone out yet.              *)
Prospect ==
  /\ Reads("prospect") /\ UNCHANGED began
  /\ LET owed == rAnchor + Interval IN
       SleepUntil(IF paused THEN NoWake
                  ELSE IF now <= owed THEN owed + Threshold
                  ELSE now + Remaining(now - owed))
  /\ rClock' = now
  /\ UNCHANGED <<op, rAnchor, rSent, rOpened, tries>>

Observer ==
  \/ (\E g \in Gens : RecordAck(g)) \/ Pause \/ Resume \/ DateArming \/ Release
  \/ BeginObserve \/ Wake
  \/ Glance \/ LoadPair \/ LoadSlot \/ Check \/ LoadAnchor \/ LoadForDeadline \/ Prospect

-----------------------------------------------------------------------------
(* The world: time passes, the connection closes.                          *)

TimePasses ==
  /\ now < MaxTime /\ ppc \in {"sleeping", "retired"}
  /\ now' = now + 1
  /\ UNCHANGED <<probe, prober, replies, closed, opc, reading, told, history>>

Closes ==
  /\ ~closed /\ closed' = TRUE
  /\ UNCHANGED <<now, probe, prober, replies, opc, reading, told, history>>

Next == ProberThread \/ Observer \/ TimePasses \/ Closes

Spec == Init /\ [][Next]_vars

-----------------------------------------------------------------------------
(* Properties.                                                             *)

Owed == {g \in 1 .. sentGen : g > ackedGen}

(* No engine is called wedged that is not: at the moment the verdict is    *)
(* given, some probe has gone unanswered, as the observing thread knows,   *)
(* for the threshold, whatever ticks landed during the reading.            *)
NoFalseWedge ==
  verdict = "Wedged" /\ opc = "anchor" =>
    \E g \in Owed : now - sentTrue[g] >= Threshold

(* The wakeup never sleeps past the moment the oldest probe's silence      *)
(* becomes a wedge by more than the deadline's own reading took: not for a *)
(* probe that went out during that reading, nor one that went out after.   *)
(* The prober keeps its phase over an arming, so the first probe after one *)
(* may come up to an interval before its date; and a reading that ticks    *)
(* kept landing in is taken again after Retry.                             *)
Crossing == sentTrue[Min(Owed)] + Threshold
Sleeping ==
  /\ opc = "asleep" /\ wake # NoWake
  /\ Owed # {} /\ sentGen - ackedGen < SendLog /\ rClock < Crossing
NeverOversleeps ==
  Sleeping => \/ wake <= Crossing + (rClock - began)
                           + (IF Min(Owed) = forgiven + 1 THEN Interval ELSE 0)
              \/ wake <= rClock + Retry

(* Nothing masks a hang: a probe counts as answered only if it, or a later *)
(* one, was answered, or a resume forgave it; answers to probes from       *)
(* before a pause satisfy none sent after it.                              *)
OnlyAnswersClearAProbe ==
  \A g \in 1 .. ackedGen : g <= forgiven \/ \E a \in answered : a >= g /\ a <= sentGen

(* The doc of anchor_nanos: re-reading the generation catches exactly the  *)
(* tick that overwrites the slot being read, so an accepted reading is     *)
(* never a newer probe's send time.                                        *)
RereadCatchesTheOverwrite ==
  opc = "check" /\ sentGen = rSent => rOpened = sentTrue[AnchorGen(rSent)]
=============================================================================
