-------------------------------- MODULE Hold --------------------------------
(***************************************************************************)
(* The hold of submitted lines: view-core's SubmitHold                     *)
(* (native/submit_hold.rs, native/submit_hold/line_report.rs) as update    *)
(* folds it, with the engine it waits for.                                 *)
(*                                                                         *)
(* A typed `:View ...' line goes to nvim and arms a hold: the input typed  *)
(* after it is kept, because the line may move view's focus and with it    *)
(* where that input belongs.  nvim reports each line once it has run, and  *)
(* the report of the armed line ends the hold; so do the bound armed with  *)
(* it, a prompt the line stops at, and the attachment of another engine.   *)
(* A line whose hold ended without its report is kept in `timedOut', so    *)
(* that its late report is not taken for that of the next line.  The       *)
(* kept input is replayed through the same fold, so that a `:View' line    *)
(* in it arms a hold of its own in front of the rest.                      *)
(*                                                                         *)
(* nvim is external: it reads its typeahead in order, may stop a line at a *)
(* prompt, where whatever it reads next is the answer, may report a line   *)
(* under a text an abbreviation gave it, and reports a line only where the *)
(* autocommand that does it was in place when the line was submitted.      *)
(*                                                                         *)
(* Only the holds of lines are modelled (Armed::Command); the guesses view *)
(* makes about a line nvim never showed, and holds of key sequences and    *)
(* opens, are left out.  A line is one input, and every other input is a   *)
(* key.  Names are apart from Agent's, so that one module can prove about  *)
(* both folds of view-core.                                                *)
(***************************************************************************)
EXTENDS Naturals, Sequences, FiniteSetsExt

CONSTANTS
    ViewLines,      \* texts of lines that name a view command
    Key, Clear,     \* a plain key; a line whose command clears the reports
    Expanded,       \* a text naming a view command that nobody typed
    Other,          \* the text of a line that names none
    None,           \* no line
    Kept,           \* TIMED_OUT_KEPT
    MaxInputs,      \* bound: inputs typed
    MaxClears,      \* bound: lines that clear the reports
    MaxAsked,       \* bound: prompts
    MaxRestarts     \* bound: engines attached

ASSUME HoldAssumption ==
    /\ {Key, Clear, Expanded, Other, None} \cap ViewLines = {}
    /\ Cardinality({Key, Clear, Expanded, Other, None}) = 5
    /\ Kept \in Nat \ {0}
    /\ MaxInputs \in Nat /\ MaxClears \in Nat /\ MaxAsked \in Nat
    /\ MaxRestarts \in Nat

VARIABLES
    typed,          \* how many inputs the user has typed
    cleared,        \* bound's counter: lines typed that clear the reports
    standing,       \* whether a command hold stands
    held,           \* the inputs it keeps
    armedLine,      \* the text of the line it waits for
    linesArmed,     \* how many lines were armed, and the hold's generation
    timedOut,       \* lines whose hold ended unreported
    evicted,        \* how many of those were dropped at the cap
    fired,          \* generations whose bound has fired
    sent,           \* the inputs sent to nvim, in the order they went
    typeahead,      \* the lines and keys nvim has not read
    running,        \* the line nvim is running
    registered,     \* whether the reporting autocommand is in place
    restores,       \* registrations asked for and not yet run
    channel,        \* nvim's messages to view, oldest first
    epoch,          \* which engine is attached
    asked,          \* bound's counter: prompts shown
    answered,       \* lines view was told of, under their own text
    misled          \* whether view was told what does not hold: by a
                    \* replaced engine, or by a registration that overtook
                    \* a line it counts

view == <<standing, held, armedLine, linesArmed, timedOut, evicted, fired>>
nvim == <<typeahead, running, registered, restores, channel, epoch, asked,
          misled>>
holdVars == <<typed, cleared, view, sent, nvim, answered>>

Inputs == ViewLines \cup {Key, Clear}

(***************************************************************************)
(* The fold.                                                               *)
(***************************************************************************)

\* Whether a report of `text' is one of a view command.
NamesView(text) == text \in ViewLines \cup {Expanded}

\* Whether a line kept unreported is owed a report.
OwesUnreported == evicted > 0 \/ timedOut # <<>>

\* The places of the timed-out lines of this text.
OfText(text) == {i \in DOMAIN timedOut : timedOut[i].line = text}

\* Whether nvim's report of `text' ends the standing hold.
EndedByReport(text) ==
    /\ standing
    /\ OfText(text) = {}
    /\ armedLine = text \/ (NamesView(text) /\ ~OwesUnreported)

\* The lines still owed after line n has reported, and which line a report of
\* `text' is of: the oldest timed-out one of that text, else the armed one.
After(n) ==
    LET left == {i \in DOMAIN timedOut : timedOut[i].seq > n}
    IN  IF left = {} THEN <<>> ELSE SubSeq(timedOut, Min(left), Len(timedOut))
ReportedLine(text) ==
    CASE OfText(text) # {} -> timedOut[Min(OfText(text))].seq
      [] OTHER             -> linesArmed

\* Whether a report of `text' is of a line view knows by its text, and, where
\* it is not, whether it is of an armed line that nvim's text differs from.
Matched(text) == OfText(text) # {} \/ armedLine = text
Renamed(text) == ~Matched(text) /\ standing /\ NamesView(text)

\* Mutant: the lines that made room stay owed for ever.
NoteReported_OwesForEver(text) ==
    /\ \/ /\ Matched(text) \/ (Renamed(text) /\ timedOut = <<>>)
          /\ timedOut' = After(ReportedLine(text))
       \/ /\ Renamed(text) /\ timedOut # <<>>
          /\ timedOut' = Tail(timedOut)
       \/ ~Matched(text) /\ ~Renamed(text) /\ UNCHANGED timedOut
    /\ UNCHANGED evicted

\* What is owed after a report of `text': a line known by its text takes the
\* lines before it with it, another spends the oldest that is owed.
NoteReported(text) ==
    \/ /\ Matched(text) \/ (Renamed(text) /\ ~OwesUnreported)
       /\ timedOut' = After(ReportedLine(text)) /\ evicted' = 0
    \/ /\ Renamed(text) /\ evicted > 0
       /\ evicted' = evicted - 1 /\ UNCHANGED timedOut
    \/ /\ Renamed(text) /\ evicted = 0 /\ timedOut # <<>>
       /\ timedOut' = Tail(timedOut) /\ UNCHANGED evicted
    \/ /\ ~Matched(text) /\ ~Renamed(text)
       /\ UNCHANGED <<timedOut, evicted>>

\* Mutant: a line that makes room is forgotten.
KeepUnreported_Uncounted ==
    /\ timedOut' = Append(IF Len(timedOut) = Kept THEN Tail(timedOut)
                          ELSE timedOut,
                          [line |-> armedLine, seq |-> linesArmed])
    /\ UNCHANGED evicted

\* The armed line is kept unreported, the oldest making room for it.
KeepUnreported ==
    LET full == Len(timedOut) = Kept
        rest == IF full THEN Tail(timedOut) ELSE timedOut
    IN  /\ timedOut' = Append(rest, [line |-> armedLine, seq |-> linesArmed])
        /\ evicted' = IF full THEN evicted + 1 ELSE evicted

\* `inputs' go out in order, up to the first that arms a hold; that hold
\* keeps the rest.  `waiting' is what nvim has not read yet, `line' the line
\* armed so far; a line's keys carry its place among the armed.
Deliver(inputs, waiting, line) ==
    LET lines == {i \in DOMAIN inputs : inputs[i].is \in ViewLines}
        arms  == lines # {}
        last  == IF arms THEN Min(lines) ELSE Len(inputs)
    IN  /\ sent' = sent \o [i \in 1..last |-> inputs[i].at]
        /\ typeahead' = waiting \o
             [i \in 1..last |->
                 [is  |-> inputs[i].is,
                  seq |-> IF arms /\ i = last THEN linesArmed + 1 ELSE 0]]
        /\ standing' = arms
        /\ held' = SubSeq(inputs, last + 1, Len(inputs))
        /\ linesArmed' = IF arms THEN linesArmed + 1 ELSE linesArmed
        /\ armedLine' = IF arms THEN inputs[last].is ELSE line

\* An input is typed: kept while a hold stands, sent otherwise.
Type(is) ==
    /\ typed < MaxInputs
    /\ typed' = typed + 1
    /\ is = Clear => cleared < MaxClears
    /\ cleared' = IF is = Clear THEN cleared + 1 ELSE cleared
    /\ LET input == [is |-> is, at |-> typed + 1]
       IN  IF standing
           THEN /\ held' = Append(held, input)
                /\ UNCHANGED <<standing, armedLine, linesArmed, sent,
                               typeahead>>
           ELSE Deliver(<<input>>, typeahead, armedLine)
    /\ UNCHANGED <<timedOut, evicted, fired, running, registered, restores,
                   channel, epoch, asked, answered, misled>>

\* The bound of generation g fires.  It ends the hold that armed it, and
\* asks nvim for the registration again.
Expire(g) ==
    /\ g \in 1..linesArmed \ fired
    /\ fired' = fired \cup {g}
    /\ IF standing /\ g = linesArmed
       THEN /\ KeepUnreported
            /\ restores' = Append(restores, linesArmed)
            /\ Deliver(held, typeahead, None)
       ELSE UNCHANGED <<standing, held, armedLine, linesArmed, timedOut,
                        evicted, sent, typeahead, restores>>
    /\ UNCHANGED <<typed, cleared, running, registered, channel, epoch, asked,
                   answered, misled>>

\* Whether a message says what is not so, or view takes it to: a replaced
\* engine's, the report of a line dropped from `timedOut' under the text of a
\* line after it, or the answer of a registration that a line dropped from
\* `timedOut' was armed after, which view forgets with those it names.
Misleads(m) ==
    \/ m.epoch # epoch
    \/ /\ m.is = "ran" /\ evicted > 0 /\ timedOut # <<>>
       /\ m.seq < timedOut[1].seq
       /\ OfText(m.line) # {} \/ armedLine = m.line
    \/ /\ m.is = "restored" /\ evicted > 0 /\ timedOut # <<>>
       /\ m.seq + 1 < timedOut[1].seq

\* The oldest of nvim's messages is folded.
Received(kind) ==
    /\ channel # <<>>
    /\ Head(channel).is = kind
    /\ channel' = Tail(channel)
    /\ misled' = (misled \/ Misleads(Head(channel)))
    /\ UNCHANGED <<typed, cleared, fired, running, registered, restores,
                   epoch, asked>>

FoldReport ==
    /\ Received("ran")
    /\ LET m == Head(channel)
       IN  /\ NoteReported(m.line)
           /\ IF EndedByReport(m.line)
              THEN Deliver(held, typeahead, armedLine)
              ELSE UNCHANGED <<standing, held, armedLine, linesArmed, sent,
                               typeahead>>
           /\ answered' = IF m.line = Expanded THEN answered
                          ELSE answered \cup {m.seq}

FoldPrompt ==
    /\ Received("prompt")
    /\ IF standing
       THEN KeepUnreported /\ Deliver(held, typeahead, None)
       ELSE UNCHANGED <<standing, held, armedLine, linesArmed, timedOut,
                        evicted, sent, typeahead>>
    /\ UNCHANGED answered

\* nvim found the reports cleared: the lines armed up to that registration
\* are taken never to be reported.
FoldRestored ==
    /\ Received("restored")
    /\ timedOut' = After(Head(channel).seq)
    /\ evicted' = 0
    /\ UNCHANGED <<standing, held, armedLine, linesArmed, sent, typeahead,
                   answered>>

\* Mutant: the input kept is forgotten with the line it waited for.
Attach_ForgetsInput ==
    /\ epoch < MaxRestarts
    /\ epoch' = epoch + 1
    /\ timedOut' = <<>> /\ evicted' = 0
    /\ typeahead' = <<>> /\ armedLine' = None
    /\ standing' = FALSE /\ held' = <<>>
    /\ running' = None /\ registered' = TRUE /\ restores' = <<>>
    /\ misled' = FALSE
    /\ UNCHANGED <<typed, cleared, fired, channel, asked, answered, linesArmed,
                   sent>>

\* Another engine is attached (restart, recovery): it owes no report, and
\* the input kept goes to it.  Messages of the one it replaces that view
\* has not folded stay in the channel.
Attach ==
    /\ epoch < MaxRestarts
    /\ epoch' = epoch + 1
    /\ timedOut' = <<>> /\ evicted' = 0
    /\ IF standing THEN Deliver(held, <<>>, None)
       ELSE /\ typeahead' = <<>> /\ armedLine' = None
            /\ UNCHANGED <<standing, held, linesArmed, sent>>
    /\ running' = None /\ registered' = TRUE /\ restores' = <<>>
    /\ misled' = FALSE
    /\ UNCHANGED <<typed, cleared, fired, channel, asked, answered>>

(***************************************************************************)
(* nvim.                                                                   *)
(***************************************************************************)
Tell(kind, line, seq) ==
    channel' = Append(channel, [is |-> kind, line |-> line, seq |-> seq,
                                epoch |-> epoch])

\* nvim reads the next of its typeahead.  A line starts to run, and will be
\* reported if the autocommand stands as it is submitted; at a prompt
\* whatever is read is the answer, and never runs.
Read ==
    /\ typeahead # <<>>
    /\ typeahead' = Tail(typeahead)
    /\ LET next == Head(typeahead)
       IN  \/ /\ running = None
              /\ IF next.is = Key THEN UNCHANGED <<running, registered>>
                 ELSE /\ running' = [line |-> next.is, seq |-> next.seq,
                                     reports |-> registered, at |-> "run"]
                      /\ registered' = (registered /\ next.is # Clear)
           \/ /\ running # None
              /\ running.at = "prompt"
              /\ running' = [running EXCEPT !.at = "run"]
              /\ UNCHANGED registered
    /\ UNCHANGED <<typed, cleared, view, sent, restores, channel, epoch,
                   asked, answered, misled>>

\* The line stops at a prompt nvim shows.
Ask ==
    /\ running # None
    /\ running.at = "run"
    /\ asked < MaxAsked
    /\ asked' = asked + 1
    /\ running' = [running EXCEPT !.at = "prompt"]
    /\ Tell("prompt", None, 0)
    /\ UNCHANGED <<typed, cleared, view, sent, typeahead, registered,
                   restores, epoch, answered, misled>>

\* The line has run.  Its report carries its text as submitted, which an
\* abbreviation may have changed from what was typed.  A line that waits at
\* a confirm() or :s///c question is reported there, before it is through;
\* here it is reported once it is through, in the same order of reports.
Finish ==
    /\ running # None
    /\ running.at = "run"
    /\ running' = None
    /\ IF running.reports
       THEN \E text \in IF running.line = Clear THEN {Other}
                        ELSE {running.line, Expanded} :
                Tell("ran", text, running.seq)
       ELSE UNCHANGED channel
    /\ UNCHANGED <<typed, cleared, view, sent, typeahead, registered,
                   restores, epoch, asked, answered, misled>>

\* The armed lines nvim may still report: those it has not read, and the
\* one it runs.
ToReport ==
    {typeahead[i].seq : i \in DOMAIN typeahead}
        \cup (IF running # None /\ running.reports THEN {running.seq} ELSE {})

\* A registration asked for at a bound is run, between two keys or while a
\* line sleeps.  It answers where it finds the reports cleared; the answer
\* misleads view where a line it counts may still be reported.
Register ==
    /\ restores # <<>>
    /\ restores' = Tail(restores)
    /\ registered' = TRUE
    /\ IF registered THEN UNCHANGED <<channel, misled>>
       ELSE /\ Tell("restored", None, Head(restores))
            /\ misled' = (misled \/ ToReport \cap 1..Head(restores) # {})
    /\ UNCHANGED <<typed, cleared, view, sent, typeahead, running, epoch,
                   asked, answered>>

HoldInit ==
    /\ typed = 0 /\ cleared = 0 /\ sent = <<>> /\ answered = {}
    /\ standing = FALSE /\ held = <<>> /\ armedLine = None /\ linesArmed = 0
    /\ timedOut = <<>> /\ evicted = 0 /\ fired = {}
    /\ typeahead = <<>> /\ running = None /\ registered = TRUE
    /\ restores = <<>> /\ channel = <<>> /\ epoch = 0 /\ asked = 0
    /\ misled = FALSE

FoldMessage == FoldReport \/ FoldPrompt \/ FoldRestored
Bound == \E g \in 1..linesArmed : Expire(g)

HoldNext ==
    \/ \E is \in Inputs : Type(is)
    \/ Bound
    \/ FoldMessage
    \/ Attach
    \/ Read \/ Ask \/ Finish \/ Register

HoldSpec == HoldInit /\ [][HoldNext]_holdVars

\* The timers fire, whatever nvim does: no fairness of the engine's.
HoldFairSpec == HoldSpec /\ WF_holdVars(Bound)

(***************************************************************************)
(* Properties.                                                             *)
(***************************************************************************)

\* Every variable stays in its type, and the lines kept are in the order
\* they were armed.
HoldTypeOK ==
    /\ typed \in 0..MaxInputs /\ cleared \in 0..MaxClears
    /\ standing \in BOOLEAN /\ (standing => linesArmed > 0)
    /\ (~standing => held = <<>>)
    /\ armedLine \in ViewLines \cup {None}
    /\ linesArmed \in Nat
    /\ Len(timedOut) <= Kept
    /\ \A i \in DOMAIN timedOut : timedOut[i].seq \in 1..linesArmed
    /\ \A i, j \in DOMAIN timedOut : i < j => timedOut[i].seq < timedOut[j].seq
    /\ evicted \in Nat
    /\ fired \subseteq 1..linesArmed
    /\ registered \in BOOLEAN

\* Whether a message is this engine's report of the line armed last.
OfArmedLine(m) == m.is = "ran" /\ m.seq = linesArmed /\ m.epoch = epoch

\* The report that ends a hold is the report of the line that armed it, not
\* the late one of a line before it, of the same text or of another.  (Where
\* nothing has misled view: see Misleads and Register.)
HoldEndsOnItsOwnLine ==
    (channel # <<>> /\ Head(channel).is = "ran"
        /\ ~misled /\ ~Misleads(Head(channel))
        /\ EndedByReport(Head(channel).line))
    => OfArmedLine(Head(channel))

\* A hold does not wait for its bound for nothing: the report of its line ends
\* it, whatever text that report carries, once every line armed before was
\* reported under its own, however many of those outlived their bounds.
ReportEndsItsHold ==
    (channel # <<>> /\ standing /\ OfArmedLine(Head(channel))
        /\ 1..linesArmed - 1 \subseteq answered)
    => EndedByReport(Head(channel).line)

\* Whatever nvim does, and however many lines wait behind one another, all
\* that was typed is sent in the end: every input once, in the order typed.
TypedIsSent == []<>(sent = [i \in 1..typed |-> i])
=============================================================================
