-------------------------- MODULE SupervisionProofs --------------------------
(***************************************************************************)
(* Proofs about Supervision, with and without a remote engine and the      *)
(* unattended recovery, for every budget, cap and number of engines.       *)
(***************************************************************************)
EXTENDS Supervision, TLAPS

(* The numbers the argument counts with.                                   *)
Numbers ==
  /\ gen \in Nat /\ unasked \in Nat /\ spent \in 0 .. NotCounting
  /\ late \subseteq Nat /\ chan \subseteq Nat

(* A stop in the channel names an engine that was there, and the running   *)
(* engine's only once its reader has posted it.                            *)
StopsAreNamed ==
  /\ \A g \in late : g < gen
  /\ \A g \in chan : g <= gen
  /\ gen \in chan => reader = "posted"

(* A restart owed over an engine that still works is the user's.           *)
RestartIsOwed ==
  (restartReq \/ due # None) /\ child # "exited" => why = "user"

(* While the reconnect notice has attempts left, one is scheduled.         *)
CountIsScheduled == spent < MaxAttempts => due # None

(* Past an unattended recovery the attempts are counted, unless the one it *)
(* asked for is about to be made or was the last thing the loop did.       *)
OutageIsCounted ==
  /\ unasked > 0 => connLost
  /\ unasked > 0 /\ spent = NotCounting =>
       lpc = "over" \/ (lpc = "top" /\ (restartReq \/ due = "now"))

IInv ==
  /\ Numbers /\ DeathIsReal /\ StopsAreNamed /\ RestartIsOwed /\ CountIsScheduled
  /\ OutageIsCounted /\ OneUnattendedPerOutage /\ NeverStranded

(* An attempt that fails is counted, and never uncounted: past the first    *)
(* the next one is scheduled or the loop is over.                           *)
LEMMA FailedAttempt ==
  ASSUME Numbers, ReplaceFails
  PROVE  /\ spent' \in 0 .. NotCounting
         /\ UNCHANGED <<gen, unasked, late, chan>>
         /\ UNCHANGED <<connLost, restartReq>>
         /\ spent # NotCounting => spent' # NotCounting
         /\ IF spent = NotCounting THEN lpc' = "over" /\ ~(spent' < MaxAttempts)
            ELSE due' = IF spent' < MaxAttempts THEN "waiting" ELSE None
<1>1. spent' = Counted
  BY DEF ReplaceFails
<1>2. UNCHANGED <<gen, unasked, late, chan>>
  BY DEF ReplaceFails, stops
<1>3. UNCHANGED <<connLost, restartReq>>
  BY DEF ReplaceFails, loopState
<1>4. /\ Counted \in 0 .. NotCounting
      /\ spent # NotCounting => Counted # NotCounting
      /\ spent = NotCounting => ~(Counted < MaxAttempts)
  BY CountsAreNat DEF NotCounting, Counted, Numbers
<1>5. IF spent = NotCounting THEN lpc' = "over"
      ELSE due' = IF Counted < MaxAttempts THEN "waiting" ELSE None
  BY DEF ReplaceFails, Return, Goto
<1>6. QED
  BY <1>1, <1>2, <1>3, <1>4, <1>5

(* The numbers stay numbers, and the count of attempts within its bound. *)
LEMMA NextNumbers ==
  ASSUME IInv, [Next]_vars
  PROVE  Numbers'
<1> USE CountsAreNat DEF IInv, Numbers, Gens, NotCounting, engine, stops, loopState,
    schedule, episode, history
<1>1. ASSUME Request PROVE Numbers'
  BY <1>1 DEF Request, Reconnects
<1>2. ASSUME Replace PROVE Numbers'
  BY <1>2 DEF Replace, Due, StillReading, Goto
<1>3. ASSUME ReplaceStillborn PROVE Numbers'
  BY <1>3 DEF ReplaceStillborn, Due, StillReading, Return
<1>4. ASSUME ReplaceFails PROVE Numbers'
  BY <1>4, FailedAttempt DEF None
<1>5. ASSUME FoldUnattended PROVE Numbers'
  BY <1>5 DEF FoldUnattended, Verdicts, RecoversUnattended, Goto
<1>6. ASSUME NEW g \in Gens, DropStop(g) PROVE Numbers'
  BY <1>6 DEF DropStop, Waits, Goto
<1>7. ASSUME NEW g \in Gens, ResolveStop(g) PROVE Numbers'
  BY <1>7 DEF ResolveStop, Waits, Return, Goto
<1>8. ASSUME ReaderPosts PROVE Numbers'
  BY <1>8 DEF ReaderPosts, Outside
<1>9. ASSUME NEW g \in Gens, LateReaderPosts(g) PROVE Numbers'
  BY <1>9 DEF LateReaderPosts, Outside
<1>10. ASSUME NothingDue \/ FoldHealthy \/ FoldCounted
            \/ (\E k \in Kinds : FoldAsking(k)) \/ WriteFails \/ ChooseRestart
            \/ ChooseDismiss \/ ChooseQuit \/ WaitEnds \/ BackoffElapses
            \/ EpisodeAges \/ Announces \/ Exits \/ PipeBreaks \/ ReaderEnds
            \/ Closes
      PROVE  UNCHANGED <<gen, unasked, spent, late, chan>>
  BY <1>10 DEF NothingDue, Goto, FoldHealthy, Verdicts, FoldCounted, Announcing, FoldAsking,
     RecoversUnattended, Dismissible, WriteFails, StopReports, Waits, Return,
     ChooseRestart, ChooseDismiss, ChooseQuit, WaitEnds, BackoffElapses, EpisodeAges,
     Announces, Outside, Exits, PipeBreaks, ReaderEnds, Closes
<1>11. CASE UNCHANGED <<gen, unasked, spent, late, chan>>
  BY <1>11
<1>12. QED
  BY <1>1, <1>2, <1>3, <1>4, <1>5, <1>6, <1>7, <1>8, <1>9, <1>10, <1>11
  DEF Next, Top, Fold, Wait, World, vars

(* A death is only ever concluded, and a concluded death is not taken back. *)
LEMMA NextDeathIsReal ==
  ASSUME IInv, [Next]_vars
  PROVE  DeathIsReal'
<1> USE CountsAreNat DEF IInv, Numbers, DeathIsReal, None, NotCounting, engine, stops,
    loopState, schedule, episode, history
<1>1. ASSUME Replace PROVE DeathIsReal'
  BY <1>1 DEF Replace, Due, StillReading, Goto
<1>2. ASSUME ReplaceStillborn PROVE DeathIsReal'
  BY <1>2 DEF ReplaceStillborn, Due, StillReading, Return
<1>3. ASSUME ReplaceFails PROVE DeathIsReal'
  BY <1>3 DEF ReplaceFails, Due, Counted, Return, Goto
<1>4. ASSUME NEW g \in Gens, ResolveStop(g) PROVE DeathIsReal'
  BY <1>4 DEF ResolveStop, Waits, Return, Goto
<1>5. ASSUME WriteFails PROVE DeathIsReal'
  BY <1>5 DEF WriteFails, StopReports, Waits, Return, Goto
<1>6. ASSUME Announces PROVE DeathIsReal'
  BY <1>6 DEF Announces, Outside
<1>7. ASSUME Exits PROVE DeathIsReal'
  BY <1>7 DEF Exits, Outside
<1>8. ASSUME Request \/ NothingDue \/ FoldHealthy \/ FoldCounted
            \/ FoldUnattended \/ (\E k \in Kinds : FoldAsking(k))
            \/ (\E g \in Gens : DropStop(g)) \/ ChooseRestart \/ ChooseDismiss
            \/ ChooseQuit \/ WaitEnds \/ BackoffElapses \/ EpisodeAges
            \/ PipeBreaks \/ ReaderEnds \/ ReaderPosts
            \/ (\E g \in Gens : LateReaderPosts(g)) \/ Closes
      PROVE  UNCHANGED <<connLost, child, announced>>
  BY <1>8 DEF Request, Reconnects, NothingDue, Goto, FoldHealthy, Verdicts, FoldCounted,
     Announcing, FoldUnattended, RecoversUnattended, FoldAsking, Dismissible,
     DropStop, Waits, ChooseRestart, ChooseDismiss, ChooseQuit, Return, WaitEnds,
     BackoffElapses, EpisodeAges, PipeBreaks, Outside, ReaderEnds, ReaderPosts,
     LateReaderPosts, Closes
<1>9. CASE UNCHANGED <<connLost, child, announced>>
  BY <1>9
<1>10. QED
  BY <1>1, <1>2, <1>3, <1>4, <1>5, <1>6, <1>7, <1>8, <1>9
  DEF Next, Top, Fold, Wait, World, vars

(* Engines are numbered upwards, and a reader posts one stop. *)
LEMMA NextStopsAreNamed ==
  ASSUME IInv, [Next]_vars
  PROVE  StopsAreNamed'
<1> USE CountsAreNat DEF IInv, Numbers, StopsAreNamed, Gens, None, NotCounting, engine,
    stops, loopState, schedule, episode, history
<1>1. ASSUME Replace PROVE StopsAreNamed'
  BY <1>1 DEF Replace, Due, StillReading, Goto
<1>2. ASSUME ReplaceStillborn PROVE StopsAreNamed'
  BY <1>2 DEF ReplaceStillborn, Due, StillReading, Return
<1>3. ASSUME NEW g \in Gens, DropStop(g) PROVE StopsAreNamed'
  BY <1>3 DEF DropStop, Waits, Goto
<1>4. ASSUME NEW g \in Gens, ResolveStop(g) PROVE StopsAreNamed'
  BY <1>4 DEF ResolveStop, Waits, Return, Goto
<1>5. ASSUME ReaderEnds PROVE StopsAreNamed'
  BY <1>5 DEF ReaderEnds, Outside
<1>6. ASSUME ReaderPosts PROVE StopsAreNamed'
  BY <1>6 DEF ReaderPosts, Outside
<1>7. ASSUME NEW g \in Gens, LateReaderPosts(g) PROVE StopsAreNamed'
  BY <1>7 DEF LateReaderPosts, Outside
<1>8. ASSUME Request \/ ReplaceFails \/ NothingDue \/ FoldHealthy \/ FoldCounted
            \/ FoldUnattended \/ (\E k \in Kinds : FoldAsking(k)) \/ WriteFails
            \/ ChooseRestart \/ ChooseDismiss \/ ChooseQuit \/ WaitEnds
            \/ BackoffElapses \/ EpisodeAges \/ Announces \/ Exits \/ PipeBreaks
            \/ Closes
      PROVE  UNCHANGED <<late, chan, gen, reader>>
  BY <1>8 DEF Request, Reconnects, ReplaceFails, Due, Counted, Return, Goto, NothingDue,
     FoldHealthy, Verdicts, FoldCounted, Announcing, FoldUnattended,
     RecoversUnattended, FoldAsking, Dismissible, WriteFails, StopReports, Waits,
     ChooseRestart, ChooseDismiss, ChooseQuit, WaitEnds, BackoffElapses, EpisodeAges,
     Announces, Outside, Exits, PipeBreaks, Closes
<1>9. CASE UNCHANGED <<late, chan, gen, reader>>
  BY <1>9
<1>10. QED
  BY <1>1, <1>2, <1>3, <1>4, <1>5, <1>6, <1>7, <1>8, <1>9
  DEF Next, Top, Fold, Wait, World, vars

(* A restart nobody asked for is only owed over an engine that is gone. *)
LEMMA NextRestartIsOwed ==
  ASSUME IInv, [Next]_vars
  PROVE  RestartIsOwed'
<1> USE CountsAreNat DEF IInv, Numbers, RestartIsOwed, DeathIsReal, None, NotCounting,
    engine, stops, loopState, schedule, episode, history
<1>1. ASSUME Request PROVE RestartIsOwed'
  BY <1>1 DEF Request, Reconnects
<1>2. ASSUME Replace PROVE RestartIsOwed'
  BY <1>2 DEF Replace, Due, StillReading, Goto
<1>3. ASSUME ReplaceStillborn PROVE RestartIsOwed'
  BY <1>3 DEF ReplaceStillborn, Due, StillReading, Return
<1>4. ASSUME ReplaceFails PROVE RestartIsOwed'
  BY <1>4 DEF ReplaceFails, Due, Counted, Return, Goto
<1>5. ASSUME FoldUnattended PROVE RestartIsOwed'
  BY <1>5 DEF FoldUnattended, Verdicts, RecoversUnattended, Goto
<1>6. ASSUME NEW g \in Gens, ResolveStop(g) PROVE RestartIsOwed'
  BY <1>6 DEF ResolveStop, Waits, Return, Goto
<1>7. ASSUME WriteFails PROVE RestartIsOwed'
  BY <1>7 DEF WriteFails, StopReports, Waits, Return, Goto
<1>8. ASSUME ChooseRestart PROVE RestartIsOwed'
  BY <1>8 DEF ChooseRestart, Waits, Goto
<1>9. ASSUME BackoffElapses PROVE RestartIsOwed'
  BY <1>9 DEF BackoffElapses
<1>10. ASSUME Announces PROVE RestartIsOwed'
  BY <1>10 DEF Announces, Outside
<1>11. ASSUME Exits PROVE RestartIsOwed'
  BY <1>11 DEF Exits, Outside
<1>12. ASSUME NothingDue \/ FoldHealthy \/ FoldCounted
            \/ (\E k \in Kinds : FoldAsking(k)) \/ (\E g \in Gens : DropStop(g))
            \/ ChooseDismiss \/ ChooseQuit \/ WaitEnds \/ EpisodeAges
            \/ PipeBreaks \/ ReaderEnds \/ ReaderPosts
            \/ (\E g \in Gens : LateReaderPosts(g)) \/ Closes
      PROVE  UNCHANGED <<restartReq, due, child, why>>
  BY <1>12 DEF NothingDue, Goto, FoldHealthy, Verdicts, FoldCounted, Announcing, FoldAsking,
     RecoversUnattended, Dismissible, DropStop, Waits, ChooseDismiss, ChooseQuit,
     Return, WaitEnds, EpisodeAges, PipeBreaks, Outside, ReaderEnds, ReaderPosts,
     LateReaderPosts, Closes
<1>13. CASE UNCHANGED <<restartReq, due, child, why>>
  BY <1>13
<1>14. QED
  BY <1>1, <1>2, <1>3, <1>4, <1>5, <1>6, <1>7, <1>8, <1>9, <1>10, <1>11, <1>12,
     <1>13
  DEF Next, Top, Fold, Wait, World, vars

(* An attempt left is an attempt scheduled. *)
LEMMA NextCountIsScheduled ==
  ASSUME IInv, [Next]_vars
  PROVE  CountIsScheduled'
<1> USE CountsAreNat DEF IInv, Numbers, CountIsScheduled, None, NotCounting, engine, stops,
    loopState, schedule, episode, history
<1>1. ASSUME Request PROVE CountIsScheduled'
  BY <1>1 DEF Request, Reconnects
<1>2. ASSUME Replace PROVE CountIsScheduled'
  BY <1>2 DEF Replace, Due, StillReading, Goto
<1>3. ASSUME ReplaceStillborn PROVE CountIsScheduled'
  BY <1>3 DEF ReplaceStillborn, Due, StillReading, Return
<1>4. ASSUME ReplaceFails PROVE CountIsScheduled'
  BY <1>4, FailedAttempt DEF None
<1>5. ASSUME BackoffElapses PROVE CountIsScheduled'
  BY <1>5 DEF BackoffElapses
<1>6. ASSUME NothingDue \/ FoldHealthy \/ FoldCounted \/ FoldUnattended
            \/ (\E k \in Kinds : FoldAsking(k)) \/ (\E g \in Gens : DropStop(g))
            \/ (\E g \in Gens : ResolveStop(g)) \/ WriteFails \/ ChooseRestart
            \/ ChooseDismiss \/ ChooseQuit \/ WaitEnds \/ EpisodeAges
            \/ Announces \/ Exits \/ PipeBreaks \/ ReaderEnds \/ ReaderPosts
            \/ (\E g \in Gens : LateReaderPosts(g)) \/ Closes
      PROVE  UNCHANGED <<spent, due>>
  BY <1>6 DEF NothingDue, Goto, FoldHealthy, Verdicts, FoldCounted, Announcing,
     FoldUnattended, RecoversUnattended, FoldAsking, Dismissible, DropStop, Waits,
     ResolveStop, Return, WriteFails, StopReports, ChooseRestart, ChooseDismiss,
     ChooseQuit, WaitEnds, EpisodeAges, Announces, Outside, Exits, PipeBreaks,
     ReaderEnds, ReaderPosts, LateReaderPosts, Closes
<1>7. CASE UNCHANGED <<spent, due>>
  BY <1>7
<1>8. QED
  BY <1>1, <1>2, <1>3, <1>4, <1>5, <1>6, <1>7
  DEF Next, Top, Fold, Wait, World, vars

(* A recovery is asked for once, then counted. *)
LEMMA NextOutageIsCounted ==
  ASSUME IInv, [Next]_vars
  PROVE  OutageIsCounted'
<1> USE CountsAreNat DEF IInv, Numbers, OutageIsCounted, OneUnattendedPerOutage, None,
    NotCounting, engine, stops, loopState, schedule, episode, history
<1>1. ASSUME Request PROVE OutageIsCounted'
  BY <1>1 DEF Request, Reconnects
<1>2. ASSUME Replace PROVE OutageIsCounted'
  BY <1>2 DEF Replace, Due, StillReading, Goto
<1>3. ASSUME ReplaceStillborn PROVE OutageIsCounted'
  BY <1>3 DEF ReplaceStillborn, Due, StillReading, Return
<1>4. ASSUME ReplaceFails PROVE OutageIsCounted'
  BY <1>4, FailedAttempt DEF None
<1>5. ASSUME NothingDue PROVE OutageIsCounted'
  BY <1>5 DEF NothingDue, Goto
<1>6. ASSUME FoldHealthy PROVE OutageIsCounted'
  BY <1>6 DEF FoldHealthy, Verdicts, Goto
<1>7. ASSUME FoldCounted PROVE OutageIsCounted'
  BY <1>7 DEF FoldCounted, Verdicts, Announcing, Goto
<1>8. ASSUME FoldUnattended PROVE OutageIsCounted'
  BY <1>8 DEF FoldUnattended, Verdicts, RecoversUnattended, Goto
<1>9. ASSUME NEW k \in Kinds, FoldAsking(k) PROVE OutageIsCounted'
  BY <1>9 DEF FoldAsking, Verdicts, Announcing, RecoversUnattended, Dismissible, Goto
<1>10. ASSUME NEW g \in Gens, DropStop(g) PROVE OutageIsCounted'
  BY <1>10 DEF DropStop, Waits, Goto
<1>11. ASSUME NEW g \in Gens, ResolveStop(g) PROVE OutageIsCounted'
  BY <1>11 DEF ResolveStop, Waits, Return, Goto
<1>12. ASSUME WriteFails PROVE OutageIsCounted'
  BY <1>12 DEF WriteFails, StopReports, Waits, Return, Goto
<1>13. ASSUME ChooseRestart PROVE OutageIsCounted'
  BY <1>13 DEF ChooseRestart, Waits, Goto
<1>14. ASSUME ChooseDismiss PROVE OutageIsCounted'
  BY <1>14 DEF ChooseDismiss, Waits, Goto
<1>15. ASSUME ChooseQuit PROVE OutageIsCounted'
  BY <1>15 DEF ChooseQuit, Waits, Return
<1>16. ASSUME WaitEnds PROVE OutageIsCounted'
  BY <1>16 DEF WaitEnds, Waits, Goto
<1>17. ASSUME BackoffElapses PROVE OutageIsCounted'
  BY <1>17 DEF BackoffElapses
<1>18. ASSUME EpisodeAges \/ Announces \/ Exits \/ PipeBreaks \/ ReaderEnds
            \/ ReaderPosts \/ (\E g \in Gens : LateReaderPosts(g)) \/ Closes
      PROVE  UNCHANGED <<unasked, connLost, spent, lpc, restartReq, due>>
  BY <1>18 DEF EpisodeAges, Announces, Outside, Exits, PipeBreaks, ReaderEnds, ReaderPosts,
     LateReaderPosts, Closes
<1>19. CASE UNCHANGED <<unasked, connLost, spent, lpc, restartReq, due>>
  BY <1>19
<1>20. QED
  BY <1>1, <1>2, <1>3, <1>4, <1>5, <1>6, <1>7, <1>8, <1>9, <1>10, <1>11, <1>12,
     <1>13, <1>14, <1>15, <1>16, <1>17, <1>18, <1>19
  DEF Next, Top, Fold, Wait, World, vars

(* The recovery is not asked for a second time in one outage. *)
LEMMA NextOneUnattended ==
  ASSUME IInv, [Next]_vars
  PROVE  OneUnattendedPerOutage'
<1> USE CountsAreNat DEF IInv, Numbers, OutageIsCounted, OneUnattendedPerOutage, None,
    NotCounting, engine, stops, loopState, schedule, episode, history
<1>1. ASSUME Replace PROVE OneUnattendedPerOutage'
  BY <1>1 DEF Replace, Due, StillReading, Goto
<1>2. ASSUME ReplaceStillborn PROVE OneUnattendedPerOutage'
  BY <1>2 DEF ReplaceStillborn, Due, StillReading, Return
<1>3. ASSUME FoldUnattended PROVE OneUnattendedPerOutage'
  BY <1>3 DEF FoldUnattended, Verdicts, RecoversUnattended, Goto
<1>4. ASSUME Request \/ ReplaceFails \/ NothingDue \/ FoldHealthy \/ FoldCounted
            \/ (\E k \in Kinds : FoldAsking(k)) \/ (\E g \in Gens : DropStop(g))
            \/ (\E g \in Gens : ResolveStop(g)) \/ WriteFails \/ ChooseRestart
            \/ ChooseDismiss \/ ChooseQuit \/ WaitEnds \/ BackoffElapses
            \/ EpisodeAges \/ Announces \/ Exits \/ PipeBreaks \/ ReaderEnds
            \/ ReaderPosts \/ (\E g \in Gens : LateReaderPosts(g)) \/ Closes
      PROVE  UNCHANGED <<unasked>>
  BY <1>4 DEF Request, Reconnects, ReplaceFails, Due, Counted, Return, Goto, NothingDue,
     FoldHealthy, Verdicts, FoldCounted, Announcing, FoldAsking, RecoversUnattended,
     Dismissible, DropStop, Waits, ResolveStop, WriteFails, StopReports,
     ChooseRestart, ChooseDismiss, ChooseQuit, WaitEnds, BackoffElapses, EpisodeAges,
     Announces, Outside, Exits, PipeBreaks, ReaderEnds, ReaderPosts, LateReaderPosts,
     Closes
<1>5. CASE UNCHANGED <<unasked>>
  BY <1>5
<1>6. QED
  BY <1>1, <1>2, <1>3, <1>4, <1>5
  DEF Next, Top, Fold, Wait, World, vars

(* The loop never goes to wait over a lost connection with nothing to offer. *)
LEMMA NextNeverStranded ==
  ASSUME IInv, [Next]_vars
  PROVE  NeverStranded'
<1> USE CountsAreNat DEF IInv, Numbers, CountIsScheduled, NeverStranded, Waits, None,
    NotCounting, engine, stops, loopState, schedule, episode, history
<1>1. ASSUME Request PROVE NeverStranded'
  BY <1>1 DEF Request, Reconnects
<1>2. ASSUME Replace PROVE NeverStranded'
  BY <1>2 DEF Replace, Due, StillReading, Goto
<1>3. ASSUME ReplaceStillborn PROVE NeverStranded'
  BY <1>3 DEF ReplaceStillborn, Due, StillReading, Return
<1>4. ASSUME ReplaceFails PROVE NeverStranded'
  BY <1>4 DEF ReplaceFails, Due, Counted, Return, Goto
<1>5. ASSUME NothingDue PROVE NeverStranded'
  BY <1>5 DEF NothingDue, Goto
<1>6. ASSUME FoldHealthy PROVE NeverStranded'
  BY <1>6 DEF FoldHealthy, Verdicts, Goto
<1>7. ASSUME FoldCounted PROVE NeverStranded'
  BY <1>7 DEF FoldCounted, Verdicts, Announcing, Goto
<1>8. ASSUME FoldUnattended PROVE NeverStranded'
  BY <1>8 DEF FoldUnattended, Verdicts, RecoversUnattended, Goto
<1>9. ASSUME NEW k \in Kinds, FoldAsking(k) PROVE NeverStranded'
  BY <1>9 DEF FoldAsking, Verdicts, Announcing, RecoversUnattended, Dismissible, Goto
<1>10. ASSUME NEW g \in Gens, DropStop(g) PROVE NeverStranded'
  BY <1>10 DEF DropStop, Waits, Goto
<1>11. ASSUME NEW g \in Gens, ResolveStop(g) PROVE NeverStranded'
  BY <1>11 DEF ResolveStop, Waits, Return, Goto
<1>12. ASSUME WriteFails PROVE NeverStranded'
  BY <1>12 DEF WriteFails, StopReports, Waits, Return, Goto
<1>13. ASSUME ChooseRestart PROVE NeverStranded'
  BY <1>13 DEF ChooseRestart, Waits, Goto
<1>14. ASSUME ChooseDismiss PROVE NeverStranded'
  BY <1>14 DEF ChooseDismiss, Waits, Goto
<1>15. ASSUME ChooseQuit PROVE NeverStranded'
  BY <1>15 DEF ChooseQuit, Waits, Return
<1>16. ASSUME WaitEnds PROVE NeverStranded'
  BY <1>16 DEF WaitEnds, Waits, Goto
<1>17. ASSUME BackoffElapses PROVE NeverStranded'
  BY <1>17 DEF BackoffElapses
<1>18. ASSUME EpisodeAges \/ Announces \/ Exits \/ PipeBreaks \/ ReaderEnds
            \/ ReaderPosts \/ (\E g \in Gens : LateReaderPosts(g)) \/ Closes
      PROVE  UNCHANGED <<lpc, connLost, due, modal>>
  BY <1>18 DEF EpisodeAges, Announces, Outside, Exits, PipeBreaks, ReaderEnds, ReaderPosts,
     LateReaderPosts, Closes
<1>19. CASE UNCHANGED <<lpc, connLost, due, modal>>
  BY <1>19
<1>20. QED
  BY <1>1, <1>2, <1>3, <1>4, <1>5, <1>6, <1>7, <1>8, <1>9, <1>10, <1>11, <1>12,
     <1>13, <1>14, <1>15, <1>16, <1>17, <1>18, <1>19
  DEF Next, Top, Fold, Wait, World, vars

(* The initial state. *)
LEMMA InitIInv == Init => IInv
<1> SUFFICES ASSUME Init PROVE IInv
  OBVIOUS
<1>2. Numbers
  BY CountsAreNat DEF Init, Numbers, NotCounting
<1>3. DeathIsReal /\ StopsAreNamed /\ RestartIsOwed /\ NeverStranded
  BY DEF Init, DeathIsReal, StopsAreNamed, RestartIsOwed, NeverStranded, Waits, None
<1>4. CountIsScheduled /\ OutageIsCounted /\ OneUnattendedPerOutage
  BY CountsAreNat DEF Init, CountIsScheduled, OutageIsCounted, OneUnattendedPerOutage,
     NotCounting
<1>5. QED
  BY <1>2, <1>3, <1>4 DEF IInv

LEMMA NextIInv == IInv /\ [Next]_vars => IInv'
BY NextNumbers, NextDeathIsReal, NextStopsAreNamed, NextRestartIsOwed, NextCountIsScheduled,
   NextOutageIsCounted, NextOneUnattended, NextNeverStranded DEF IInv

LEMMA Invariance == Spec => []IInv
BY InitIInv, NextIInv, PTL DEF Spec

(* A connection is called lost only for an engine that is gone and never   *)
(* announced it was leaving (resolve, note_engine_stop, stop_report).       *)
THEOREM OnlyTheDeadAreLost == Spec => []DeathIsReal
<1>1. IInv => DeathIsReal
  BY DEF IInv
<1>2. QED
  BY <1>1, Invariance, PTL

(* While the loop waits over a lost connection an attempt is scheduled or   *)
(* the modal stands (note_failure, note_engine_liveness).                   *)
THEOREM AWayOut == Spec => []NeverStranded
<1>1. IInv => NeverStranded
  BY DEF IInv
<1>2. QED
  BY <1>1, Invariance, PTL

(* An outage spends at most one unattended recovery, however many attempts  *)
(* and passes it lasts (note_engine_liveness, ReconnectSchedule).           *)
THEOREM AnOutageSpendsOne == Spec => []OneUnattendedPerOutage
<1>1. IInv => OneUnattendedPerOutage
  BY DEF IInv
<1>2. QED
  BY <1>1, Invariance, PTL

(* The part of WorkingEngineIsSpared about one step. *)
Spared ==
  /\ lpc = "top" /\ child = "running" /\ (child' = "exited" \/ gen' # gen) /\ due' # due
       => why = "user"
  /\ Waits /\ lpc' # "wait" /\ child = "running" /\ child' = "exited"
       => reader = "posted"

LEMMA NextSpared == IInv /\ [Next]_vars => Spared
<1> SUFFICES ASSUME IInv, [Next]_vars PROVE Spared
  OBVIOUS
<1> USE DEF IInv, Spared, Waits, RestartIsOwed, StopsAreNamed, None, engine, loopState,
    schedule
<1>1. CASE Top
  BY <1>1 DEF Top, Request, Reconnects, Replace, ReplaceStillborn, ReplaceFails, Due,
     NothingDue, Goto, Return
<1>2. CASE Fold
  <2>1. UNCHANGED child /\ lpc = "fold"
    BY <1>2 DEF Fold, FoldHealthy, FoldCounted, FoldUnattended, FoldAsking
  <2>2. QED
    BY <2>1
<1>3. CASE Wait
  BY <1>3 DEF Wait, DropStop, ResolveStop, WriteFails, StopReports, ChooseRestart,
     ChooseDismiss, ChooseQuit, WaitEnds
<1>4. CASE BackoffElapses \/ EpisodeAges
  BY <1>4 DEF BackoffElapses, EpisodeAges
<1>5. CASE World
  <2>1. UNCHANGED <<lpc, due>>
    BY <1>5 DEF World, Announces, Exits, PipeBreaks, ReaderEnds, ReaderPosts, Closes,
       LateReaderPosts, Outside
  <2>2. QED
    BY <2>1
<1>6. CASE UNCHANGED vars
  BY <1>6 DEF vars
<1>7. QED
  BY <1>1, <1>2, <1>3, <1>4, <1>5, <1>6 DEF Next

(* A running engine is torn down for a replacement only at the user's       *)
(* request, and otherwise only after its own reader has stopped             *)
(* (replace_engine, intake_engine_stop, resolve).                           *)
THEOREM TheWorkingEngineIsSpared == Spec => WorkingEngineIsSpared
<1>1. IInv /\ [Next]_vars => [Spared]_vars
  BY NextSpared
<1>2. QED
  BY <1>1, Invariance, PTL DEF Spec, WorkingEngineIsSpared, Spared
==============================================================================
