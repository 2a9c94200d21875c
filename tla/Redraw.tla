------------------------------- MODULE Redraw -------------------------------
(***************************************************************************)
(* A redraw event's way to the model.  The reader thread folds nvim's      *)
(* events into the damage buffer (view-engine, damage.rs), which marks     *)
(* dead what a later event of the same unflushed stretch supersedes; the   *)
(* loop drains whole flushed prefixes and applies what is left to the grid *)
(* registry (view-core, grid.rs and grid/registry.rs), the mode and the    *)
(* command line.  Screen takes it from there to the terminal.              *)
(*                                                                         *)
(* Pump has the locks, tokens and channels around the same buffer.  Here   *)
(* the buffer holds real events, over a global grid and one window grid.   *)
(* A line writes its serial number, so no two writes look alike.  wire and *)
(* shown are history: the registry nvim means, every event applied, and    *)
(* the picture it stood at when it sent the last Flush drained.            *)
(***************************************************************************)
EXTENDS Grid, Sequences

CONSTANTS
  Wire,         \* the events nvim draws from
  Rows, Cols,   \* the terminal's size, which the global grid starts with
  MaxEvents,    \* bound: events nvim sends and keys the user types
  MaxBarriers   \* bound: invocations on their way to the loop

Global == 1
Win == 2
Grids == {Global, Win}
CellKinds == {"resize", "line", "goto", "scroll", "clear"}
Placements == {"pos", "hide", "close", "destroy"}

(* UiEvent, of which these reach the grids, the mode, the command line and *)
(* the predictions.                                                        *)
UiEvent ==
  [kind : {"resize"}, grid : Grids, w : Nat, h : Nat]
    \cup [kind : {"line"}, grid : Grids, row : Nat, col : Nat, span : Nat, value : Nat]
    \cup [kind : {"goto"}, grid : Grids, row : Nat, col : Nat]
    \cup [kind : {"scroll"}, grid : Grids, top : Nat, bot : Nat, by : Int]
    \cup [kind : {"clear"}, grid : Grids]
    \cup [kind : {"pos"}, row : Nat]
    \cup [kind : {"hide", "close", "destroy", "cmdline_hide"}]
    \cup [kind : {"mode"}, mode : STRING]
    \cup [kind : {"viewport"}, top : Nat]
    \cup [kind : {"cmdline_show"}, value : Nat]

ASSUME WireOfEvents == Wire \subseteq UiEvent
ASSUME SizeIsNat == Rows \in Nat \ {0} /\ Cols \in Nat \ {0} /\ MaxEvents \in Nat /\ MaxBarriers \in Nat

VARIABLES
  staged, flushIndex, epochs, barriers,  \* DamageBuffer; flushIndex 0 is None
  reg,                   \* the model's GridRegistry, mode and command line
  nr,                                    \* bound
  wire, shown                            \* history

buffer == <<staged, flushIndex, epochs, barriers>>
redrawVars == <<buffer, reg, nr, wire, shown>>

Nowhere == [row |-> 0, hidden |-> TRUE]
NoLine == 0              \* no command line is open

-----------------------------------------------------------------------------
(* The registry: a grid per id, where the window is placed (an unplaced    *)
(* one paints like a hidden one), the cursor's grid, and placement_dirty.  *)

(* apply_cells: only a cursor that changes grids repaints more than rows.  *)
ApplyCells(r, e) ==
  LET g == r.grids[e.grid]
      new == CASE e.kind = "resize" -> Resize(g, e.w, e.h)
               [] e.kind = "line" -> PutLine(g, e.row, e.col, e.span, e.value)
               [] e.kind = "goto" -> CursorGoto(g, e.row, e.col)
               [] e.kind = "scroll" -> Scroll(g, e.top, e.bot, 0, Cols, e.by)
               [] e.kind = "clear" -> Clear(g)
  IN  [r EXCEPT !.grids[e.grid] = new,
                !.moved = @ \/ (e.kind = "goto" /\ r.cursor # e.grid),
                !.cursor = IF e.kind = "goto" THEN e.grid ELSE @]

(* Every placement event repaints the whole frame. *)
ApplyPlacement(r, e) ==
  LET s == [r EXCEPT !.moved = TRUE]
  IN  CASE e.kind = "pos" -> [s EXCEPT !.placed = [row |-> e.row, hidden |-> FALSE]]
        [] e.kind = "hide" -> [s EXCEPT !.placed.hidden = TRUE]
        [] e.kind = "close" -> [s EXCEPT !.placed = Nowhere]
        [] e.kind = "destroy" -> [s EXCEPT !.placed = Nowhere, !.grids[Win] = New]

Apply(r, e) ==
  CASE e.kind \in CellKinds -> ApplyCells(r, e)
    [] e.kind \in Placements -> ApplyPlacement(r, e)
    [] e.kind = "mode" -> [r EXCEPT !.mode = e.mode]
    [] e.kind = "cmdline_show" -> [r EXCEPT !.cmdline = e.value]
    [] e.kind = "cmdline_hide" -> [r EXCEPT !.cmdline = NoLine]
    [] e.kind \in {"flush", "viewport"} -> r        \* Screen reads the viewport

(* take_damage: every grid is drained, the unplaced and hidden ones too,
   but only a window on screen has rows to report. *)
TakenDamage(r) ==
  LET g == Damage(r.grids[Global])
      w == Damage(r.grids[Win])
      seen == ~r.placed.hidden
  IN  [full |-> r.moved \/ g.full \/ (seen /\ w.full),
       rows |-> g.rows \cup IF seen THEN {row + r.placed.row : row \in w.rows} ELSE {}]

Drained(r) == [r EXCEPT !.grids = [i \in Grids |-> Clean(r.grids[i])], !.moved = FALSE]

(* What the grid layer shows: the window over the global grid, clipped to
   it, each cell with whether its pane has the cursor, which dims the
   others. *)
Terminal == (0..Rows-1) \X (0..Cols-1)
Composite(r) ==
  LET at(p) == <<p[1] - r.placed.row, p[2]>>
      pane(p) == IF /\ ~r.placed.hidden
                    /\ p \in DOMAIN r.grids[Global].cells /\ at(p) \in DOMAIN r.grids[Win].cells
                 THEN Win ELSE Global
      cell(p) == IF pane(p) = Win THEN r.grids[Win].cells[at(p)]
                 ELSE IF p \in DOMAIN r.grids[Global].cells THEN r.grids[Global].cells[p]
                 ELSE Blank
  IN  [p \in Terminal |-> <<cell(p), pane(p) = r.cursor>>]

(* Everything of a registry but its damage. *)
Picture(r) ==
  [grids |-> [i \in Grids |-> <<r.grids[i].w, r.grids[i].h, r.grids[i].cells, r.grids[i].cursor>>],
   placed |-> r.placed, cursor |-> r.cursor, mode |-> r.mode, cmdline |-> r.cmdline]

-----------------------------------------------------------------------------
(* The buffer.                                                             *)

(* The first staged event compaction may touch: after the last Flush.      *)
CompactionStart == flushIndex + 1

(* Mutant: a scroll does not part the lines before it from those after. *)
EpochsAfter_NoScroll(e) ==
  CASE e.kind = "resize" ->
         [epochs EXCEPT ![e.grid] = [barrier |-> @.barrier + 1, scroll |-> @.scroll + 1]]
    [] OTHER -> epochs

EpochsAfter(e) ==
  CASE e.kind = "resize" ->
         [epochs EXCEPT ![e.grid] = [barrier |-> @.barrier + 1, scroll |-> @.scroll + 1]]
    [] e.kind = "scroll" -> [epochs EXCEPT ![e.grid].scroll = @ + 1]
    [] OTHER -> epochs

(* Whether the event of s is accounted for by e, staged after it. *)
Superseded(s, e) ==
  /\ s.alive
  /\ \/ /\ e.kind = "clear"
        /\ s.event.kind \in {"line", "scroll", "clear"} /\ s.event.grid = e.grid
        /\ s.barrier = epochs[e.grid].barrier
     \/ /\ e.kind = "line"
        /\ s.event.kind = "line" /\ s.event.grid = e.grid /\ s.event.row = e.row
        /\ s.barrier = epochs[e.grid].barrier /\ s.scroll = epochs[e.grid].scroll
        /\ e.col <= s.event.col /\ e.col + e.span >= s.event.col + s.event.span

(* fold_one.                                                               *)
FoldOne(e) ==
  LET kept == [i \in DOMAIN staged |->
                 IF i >= CompactionStart /\ Superseded(staged[i], e)
                 THEN [staged[i] EXCEPT !.alive = FALSE] ELSE staged[i]]
      ep == IF e.kind \in CellKinds THEN EpochsAfter(e)[e.grid] ELSE [barrier |-> 0, scroll |-> 0]
  IN  /\ epochs' = EpochsAfter(e)
      /\ staged' = Append(kept, [event |-> e, alive |-> TRUE,
                                 barrier |-> ep.barrier, scroll |-> ep.scroll])
      /\ flushIndex' = IF e.kind = "flush" THEN Len(staged) + 1 ELSE flushIndex
      /\ UNCHANGED barriers

(* What a drain hands the loop: the events of a prefix that are alive.     *)
Batch(end) == {i \in 1..end : staged[i].alive}

(* The registry after each prefix of the buffer, as the loop that is handed *)
(* it applies one event after the other.                                   *)
Trail(r, events) ==
  LET after[i \in 0..Len(events)] ==
        IF i = 0 THEN r
        ELSE IF events[i].alive THEN Apply(after[i - 1], events[i].event)
        ELSE after[i - 1]
  IN  after

(* drain_to, with the loop applying what it is handed. *)
DrainTo(end) ==
  /\ staged' = SubSeq(staged, end + 1, Len(staged))
  /\ flushIndex' = IF flushIndex > end THEN flushIndex - end ELSE 0
  /\ reg' = Trail(reg, staged)[end]
  /\ shown' = IF end = 0 THEN shown ELSE staged[end].event.shows

Less(bs, end) == [i \in DOMAIN bs |-> IF bs[i] > end THEN bs[i] - end ELSE 0]

-----------------------------------------------------------------------------
(* Steps.                                                                  *)

(* A session under way: the user is typing in insert mode, and what is
   drained is on screen. *)
RedrawInit ==
  LET start == [w |-> Cols, h |-> Rows, cells |-> [p \in Terminal |-> -(p[1] * Cols + p[2] + 1)],
                cursor |-> <<0, 0>>, full |-> FALSE, rows |-> {}]
      small == [Resize(New, 1, 1) EXCEPT !.full = FALSE]
  IN  \E placed \in {Nowhere, [row |-> 1, hidden |-> FALSE]} :
      LET r == [grids |-> [i \in Grids |-> IF i = Global THEN start ELSE small],
                placed |-> placed, cursor |-> Global, moved |-> FALSE,
                mode |-> "insert", cmdline |-> NoLine]
      IN
      /\ staged = <<>> /\ flushIndex = 0 /\ barriers = <<>>
      /\ epochs = [i \in Grids |-> [barrier |-> 0, scroll |-> 0]]
      /\ reg = r /\ wire = r /\ shown = Picture(r)
      /\ nr = 0

(* The reader folds one event of nvim's. *)
Fold ==
  \E e \in Wire :
    /\ nr < MaxEvents
    /\ nr' = nr + 1
    /\ LET ev == IF e.kind \in {"line", "cmdline_show"} THEN [e EXCEPT !.value = nr + 1] ELSE e
       IN  FoldOne(ev) /\ wire' = Apply(wire, ev)
    /\ UNCHANGED <<reg, shown>>

FoldFlush ==
  /\ staged # <<>> /\ flushIndex < Len(staged)
  /\ FoldOne([kind |-> "flush", shows |-> Picture(wire)])
  /\ UNCHANGED <<reg, nr, wire, shown>>

(* raise_barrier, where the reader routes an invocation. *)
RaiseBarrier ==
  /\ Len(barriers) < MaxBarriers
  /\ barriers' = Append(barriers, flushIndex)
  /\ UNCHANGED <<staged, flushIndex, epochs, reg, nr, wire, shown>>

(* lower_barrier, for an invocation the channel refused. *)
LowerBarrier ==
  /\ barriers # <<>>
  /\ barriers' = SubSeq(barriers, 1, Len(barriers) - 1)
  /\ UNCHANGED <<staged, flushIndex, epochs, reg, nr, wire, shown>>

(* take_to_barrier, the loop's drain. *)
BarrierEnd == IF barriers # <<>> /\ Head(barriers) < flushIndex THEN Head(barriers) ELSE flushIndex
TakeToBarrier ==
  /\ DrainTo(BarrierEnd)
  /\ barriers' = Less(barriers, BarrierEnd)
  /\ UNCHANGED <<epochs, nr, wire>>

(* pass_barrier, when the loop receives the invocation. *)
PassBarrier ==
  /\ barriers # <<>>
  /\ DrainTo(Head(barriers))
  /\ barriers' = Less(Tail(barriers), Head(barriers))
  /\ UNCHANGED <<epochs, nr, wire>>

-----------------------------------------------------------------------------
(* Properties.                                                             *)

(* The buffer's indices stay inside it and end at a Flush, and the grids   *)
(* keep their shape (DamageBuffer, Grid).                                  *)
BufferTypeOK ==
  /\ flushIndex \in 0..Len(staged)
  /\ flushIndex > 0 => staged[flushIndex].event.kind = "flush"
  /\ \A i \in DOMAIN barriers :
       barriers[i] \in 0..flushIndex /\ (barriers[i] > 0 => staged[barriers[i]].event.kind = "flush")
  /\ \A i \in Grids : DOMAIN reg.grids[i].cells = Places(reg.grids[i].w, reg.grids[i].h)

(* What is drained shows the frame nvim meant: with the superseded events  *)
(* left out, the registry stands exactly as if every event up to the last  *)
(* Flush drained had been applied, wherever a drain or a barrier cut the   *)
(* stream (DamageBuffer: under-retaining is never legal).                  *)
DrainsShowTheWiresFrame == Picture(reg) = shown
=============================================================================
