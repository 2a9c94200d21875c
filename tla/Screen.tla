------------------------------- MODULE Screen -------------------------------
(***************************************************************************)
(* What the terminal shows of the model Redraw keeps: the speculative echo *)
(* (view-core/src/native/speculate.rs), which paints a typed character     *)
(* before nvim has answered it, the layers of a frame (view-surface), and  *)
(* the painter (view-tui/src/paint.rs), whose two buffers trade places     *)
(* after every frame and which composes only the rows it was told of.      *)
(*                                                                         *)
(* A prediction's serial number is its glyph.  made is history: what stood *)
(* under the prediction when it was made.                                  *)
(***************************************************************************)
EXTENDS Redraw, FiniteSetsExt

VARIABLES
  pending, topline,       \* SpeculateState: the predictions, and viewports
  dirty,                  \* model.dirty: a frame is owed
  front, back, carried,   \* Shadow: both buffers, the last frame's damage
  layers,                 \* OverlayShadow.painted
  terminal                \* what the terminal's own cells hold

echo == <<pending, topline>>
painter == <<front, back, carried, layers, terminal>>
vars == <<redrawVars, echo, dirty, painter>>

Unseen == -1              \* a window that has reported no viewport yet
AllRows == 0..Rows-1

-----------------------------------------------------------------------------
(* Speculation.                                                            *)

Covers(e, cell) == e.row = cell.row /\ cell.col \in e.col..(e.col + e.span - 1)

(* Mutant: a run counts as one cell, however often it repeats. *)
Answers_Entry(e, cell) ==
  \/ e.kind = "line" /\ e.grid = cell.grid /\ e.row = cell.row /\ e.col = cell.col
  \/ e.kind \in {"scroll", "clear", "resize"} /\ e.grid = cell.grid
  \/ e.kind \in Placements /\ cell.grid = Win

(* answered_by: an event wrote the cell, or moved what was there. *)
Answers(e, cell) ==
  \/ e.kind = "line" /\ e.grid = cell.grid /\ Covers(e, cell)
  \/ e.kind \in {"scroll", "clear", "resize"} /\ e.grid = cell.grid
  \/ e.kind \in Placements /\ cell.grid = Win

(* note_viewport: the topline the window reported last, at each event of a *)
(* batch.                                                                  *)
Toplines(end) ==
  LET after[i \in 0..end] ==
        IF i = 0 THEN topline
        ELSE IF i \in Batch(end) /\ staged[i].event.kind = "viewport" THEN staged[i].event.top
        ELSE after[i - 1]
  IN  after

(* A window seen for the first time has not moved. *)
Shifted(end) ==
  \E i \in Batch(end) :
    /\ staged[i].event.kind = "viewport"
    /\ Toplines(end)[i - 1] \notin {Unseen, staged[i].event.top}

(* The predictions at some of the positions, in the order they were made.  *)
Kept(keep) ==
  LET out[i \in 0..Len(pending)] ==
        IF i = 0 THEN <<>>
        ELSE IF i \in keep THEN Append(out[i - 1], pending[i])
        ELSE out[i - 1]
  IN  out[Len(pending)]

(* reconcile.  A shift of the window retires the global grid's predictions
   with the window's own, which here is all of them.  That a prediction's
   epoch is the current one is not kept: whatever turns the epoch over
   clears them all. *)
Reconciled(end) ==
  IF (\E i \in Batch(end) : staged[i].event.kind = "mode") \/ Shifted(end) THEN <<>>
  ELSE Kept({j \in DOMAIN pending : ~\E i \in Batch(end) : Answers(staged[i].event, pending[j])})

(* mark_retirement: a change of what is pending owes a frame. *)
MarkRetirement(now) == Len(now) # Len(pending)

(* What a prediction on a grid is about. *)
Under(grid, row, col) ==
  [cursor |-> reg.cursor, mode |-> reg.mode, top |-> topline,
   placed |-> IF grid = Win THEN reg.placed ELSE Nowhere,
   cell |-> IF <<row, col>> \in DOMAIN reg.grids[grid].cells
            THEN <<reg.grids[grid].cells[<<row, col>>]>> ELSE <<>>]

(* cursor_local: the global grid stands in for a window not on screen. *)
CursorGrid == IF reg.cursor = Win /\ reg.placed.hidden THEN Global ELSE reg.cursor

(* predict: past the predictions already made on that row. *)
Predicted ==
  LET g == CursorGrid
      row == reg.grids[g].cursor[1]
      col == reg.grids[g].cursor[2]
      taken == {pending[i].col : i \in {j \in DOMAIN pending :
                  pending[j].grid = g /\ pending[j].row = row /\ pending[j].col >= col}}
      at == IF taken = {} THEN col ELSE Max(taken) + 1
  IN  Append(pending, [grid |-> g, row |-> row, col |-> at, glyph |-> nr + 1,
                       made |-> Under(g, row, at)])

-----------------------------------------------------------------------------
(* The frame.                                                              *)

(* speculated_layer: the predictions that are on a pane on screen and on
   its grid, and the rows from the first of them to the last. *)
SpeculatedLayer ==
  LET shows == Kept({i \in DOMAIN pending :
                 /\ pending[i].grid = Win => ~reg.placed.hidden
                 /\ <<pending[i].row, pending[i].col>> \in DOMAIN reg.grids[pending[i].grid].cells})
      cells == [i \in DOMAIN shows |->
                  [at |-> <<shows[i].row + IF shows[i].grid = Win THEN reg.placed.row ELSE 0,
                            shows[i].col>>,
                   glyph |-> shows[i].glyph]]
      on == {cells[i].at[1] : i \in DOMAIN cells}
  IN  IF cells = <<>> THEN <<>>
      ELSE <<[kind |-> "speculated", rows |-> Min(on)..Max(on), cells |-> cells]>>

(* The command line, over the global grid's last row. *)
CmdlineLayer ==
  LET g == reg.grids[Global]
  IN  IF reg.cmdline = NoLine THEN <<>>
      ELSE <<[kind |-> "cmdline", rows |-> {g.h - 1},
              cells |-> [i \in 1..g.w |-> [at |-> <<g.h - 1, i - 1>>, glyph |-> reg.cmdline]]]>>

(* render, without the grid layer that every frame opens with. *)
Surface == SpeculatedLayer \o CmdlineLayer

(* OverlayShadow::advance: layers are paired by their place in the stack,
   and one that differs repaints both of its extents. *)
OverlayDamage(surface) ==
  UNION {IF /\ i \in DOMAIN layers /\ i \in DOMAIN surface
            /\ surface[i] = layers[i]
         THEN {}
         ELSE (IF i \in DOMAIN surface THEN surface[i].rows ELSE {})
                \cup (IF i \in DOMAIN layers THEN layers[i].rows ELSE {})
         : i \in DOMAIN surface \cup DOMAIN layers}

(* One cell of a frame composed from scratch.  A predicted glyph keeps the
   style the grid gave the cell under it. *)
Cell(surface, p) ==
  LET over(l) == {i \in DOMAIN l.cells : l.cells[i].at = p}
      on == {i \in DOMAIN surface : over(surface[i]) # {}}
      top == surface[Max(on)]
      glyph == top.cells[Max(over(top))].glyph
  IN  IF on = {} THEN Composite(reg)[p]
      ELSE <<glyph, top.kind = "speculated" /\ Composite(reg)[p][2]>>

(* compose: the damaged rows over a buffer that holds the frame before the
   one on screen. *)
Composed(repaint, surface) ==
  [p \in Terminal |-> IF p[1] \in repaint THEN Cell(surface, p) ELSE back[p]]

(* row_runs and clipping_pays: the rows the diff looks at. *)
Compared(repaint) ==
  IF 2 * Cardinality(repaint \cap AllRows) < Rows THEN repaint \cap AllRows ELSE AllRows

(* emit_updates and commit: what differs is written, and the buffers trade
   places. *)
Emit(composed, rows) ==
  /\ terminal' = [p \in Terminal |->
                    IF p[1] \in rows /\ composed[p] # front[p] THEN composed[p] ELSE terminal[p]]
  /\ front' = composed
  /\ back' = front

(* Mutant: the rows the frame before repainted are not carried over. *)
QueueFrame_NoCarry(damage, surface) ==
  /\ Emit(Composed(damage, surface), Compared(damage))
  /\ carried' = damage
  /\ layers' = surface

(* queue_frame: the rows this frame changed, and those the last one did. *)
QueueFrame(damage, surface) ==
  LET repaint == damage \cup carried
  IN  /\ Emit(Composed(repaint, surface), Compared(repaint))
      /\ carried' = damage
      /\ layers' = surface

-----------------------------------------------------------------------------
(* Steps.                                                                  *)

Init ==
  /\ RedrawInit
  /\ pending = <<>>
  /\ topline = IF reg.placed.hidden THEN Unseen ELSE 0
  /\ dirty = FALSE
  /\ front = Composite(reg) /\ back = front /\ terminal = front
  /\ carried = {} /\ layers = <<>>

(* dispatch of a drained batch: the predictions are judged by it ahead of
   the fold that applies it, whose Flush owes a frame. *)
Dispatch(end) ==
  /\ pending' = Reconciled(end)
  /\ topline' = Toplines(end)[end]
  /\ dirty' = (dirty \/ Batch(end) # {} \/ MarkRetirement(pending'))
  /\ UNCHANGED painter

Drain ==
  \/ TakeToBarrier /\ Dispatch(BarrierEnd)
  \/ PassBarrier /\ Dispatch(Head(barriers))

(* A plain character on its way to nvim (fold_keystroke).  A cursor in a
   window that is not on screen leaves no cell to predict. *)
TypePlain ==
  /\ nr < MaxEvents
  /\ nr' = nr + 1
  /\ pending' = IF CursorGrid # reg.cursor THEN pending
                ELSE IF reg.mode # "insert" THEN <<>>
                ELSE Predicted
  /\ dirty' = (dirty \/ MarkRetirement(pending'))
  /\ UNCHANGED <<buffer, reg, wire, shown, topline, painter>>

(* Any other key, a paste or a click (fold_invalidation). *)
TypeOther ==
  /\ pending # <<>>
  /\ pending' = <<>>
  /\ dirty' = TRUE
  /\ UNCHANGED <<redrawVars, topline, painter>>

(* A pass finds the oldest predictions too old (fold_expiry). *)
Expire ==
  /\ \E n \in 1..Len(pending) : pending' = SubSeq(pending, n + 1, Len(pending))
  /\ dirty' = (dirty \/ MarkRetirement(pending'))
  /\ UNCHANGED <<redrawVars, topline, painter>>

(* A pass paints the frame it owes. *)
Paint ==
  LET taken == TakenDamage(reg)
      damage == IF taken.full THEN AllRows ELSE taken.rows \cup OverlayDamage(Surface)
  IN  /\ dirty
      /\ QueueFrame(damage, Surface)
      /\ reg' = Drained(reg)
      /\ dirty' = FALSE
      /\ UNCHANGED <<buffer, nr, wire, shown, echo>>

Next ==
  \/ (Fold \/ FoldFlush \/ RaiseBarrier \/ LowerBarrier) /\ UNCHANGED <<echo, dirty, painter>>
  \/ Drain \/ TypePlain \/ TypeOther \/ Expire
  \/ Paint

Spec == Init /\ [][Next]_vars

-----------------------------------------------------------------------------
(* Properties.                                                             *)

TypeOK ==
  /\ BufferTypeOK
  /\ dirty \in BOOLEAN
  /\ carried \subseteq Int
  /\ \A f \in {front, back, terminal} : DOMAIN f = Terminal

(* The terminal never rests on a stale picture: unless a frame is owed, it *)
(* shows cell for cell what a composite from scratch would, predictions    *)
(* and overlays included.  It takes every fold that retires a painted      *)
(* prediction to owe the frame that takes it off, every change of a grid   *)
(* or a layer to report its rows, and the two buffers to carry the last    *)
(* frame's rows over (Shadow, OverlayShadow, mark_retirement).             *)
TerminalIsCurrent ==
  ~dirty => \A p \in Terminal : terminal[p] = Cell(Surface, p)

(* A prediction stands only over what it was made for: it is on the grid   *)
(* that had the cursor, and the cell under it, the place of its window,    *)
(* the viewport it has reported and the mode are what they were when the   *)
(* key was typed.  Whatever changed one of them has retired it, though     *)
(* compaction may have left parts of the batch out                         *)
(* (SpeculateState::reconcile, fold_keystroke).                            *)
PredictionsStandOnTheirContent ==
  \A i \in DOMAIN pending :
    LET cell == pending[i]
        now == Under(cell.grid, cell.row, cell.col)
    IN  /\ cell.made.cursor = cell.grid /\ now.mode = "insert"
        /\ now.cell = cell.made.cell
        /\ now.placed = cell.made.placed
        /\ cell.made.top \in {Unseen, now.top}
=============================================================================
