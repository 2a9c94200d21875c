---------------------------- MODULE ScreenProofs ----------------------------
(***************************************************************************)
(* Proofs about Screen and the buffer and registry of Redraw under it.     *)
(***************************************************************************)
EXTENDS Screen, FiniteSetTheorems, WellFoundedInduction, TLAPS

-----------------------------------------------------------------------------
(* Events, grids and registries.                                           *)

IsStep(e) == e \in UiEvent \/ e.kind = "flush"

IsGrid(g) ==
  /\ g = [w |-> g.w, h |-> g.h, cells |-> g.cells, cursor |-> g.cursor,
          full |-> g.full, rows |-> g.rows]
  /\ g.w \in Nat /\ g.h \in Nat
  /\ g.cells = [p \in Places(g.w, g.h) |-> g.cells[p]]
  /\ g.cursor \in Nat \X Nat
  /\ g.full \in BOOLEAN /\ g.rows \subseteq Nat

IsReg(r) ==
  /\ r = [grids |-> r.grids, placed |-> r.placed, cursor |-> r.cursor, moved |-> r.moved,
          mode |-> r.mode, cmdline |-> r.cmdline]
  /\ r.grids = [i \in Grids |-> r.grids[i]]
  /\ \A i \in Grids : IsGrid(r.grids[i])
  /\ r.placed = [row |-> r.placed.row, hidden |-> r.placed.hidden]
  /\ r.placed.row \in Nat /\ r.placed.hidden \in BOOLEAN
  /\ r.cursor \in Grids /\ r.moved \in BOOLEAN

LEMMA LineFields ==
  ASSUME NEW e \in UiEvent, e.kind = "line"
  PROVE  e.grid \in Grids /\ e.row \in Nat /\ e.col \in Nat /\ e.span \in Nat /\ e.value \in Nat
BY DEF UiEvent

LEMMA CellFields ==
  ASSUME NEW e \in UiEvent, e.kind \in CellKinds
  PROVE  /\ e.grid \in Grids
         /\ e.kind = "resize" => e.w \in Nat /\ e.h \in Nat
         /\ e.kind = "goto" => e.row \in Nat /\ e.col \in Nat
         /\ e.kind = "scroll" => e.top \in Nat /\ e.bot \in Nat /\ e.by \in Int
BY DEF UiEvent, CellKinds

LEMMA Kinds ==
  ASSUME NEW e, IsStep(e)
  PROVE  /\ e.kind \in CellKinds \cup Placements
                        \cup {"mode", "cmdline_show", "cmdline_hide", "viewport", "flush"}
         /\ e.kind = "flush" \/ e \in UiEvent
         /\ e.kind = "pos" => e.row \in Nat
         /\ e.kind = "cmdline_show" => e.value \in Nat
         /\ e.kind = "viewport" => e.top \in Nat
BY DEF IsStep, UiEvent, CellKinds, Placements

LEMMA SerialIsAnEvent ==
  ASSUME NEW e \in UiEvent, e.kind \in {"line", "cmdline_show"}, NEW n \in Nat
  PROVE  [e EXCEPT !.value = n] \in UiEvent
<1>1. CASE e.kind = "line"
  <2>1. e \in [kind : {"line"}, grid : Grids, row : Nat, col : Nat, span : Nat, value : Nat]
    BY <1>1 DEF UiEvent
  <2>2. [e EXCEPT !.value = n]
          \in [kind : {"line"}, grid : Grids, row : Nat, col : Nat, span : Nat, value : Nat]
    BY <2>1
  <2>3. QED
    BY <2>2 DEF UiEvent
<1>2. CASE e.kind = "cmdline_show"
  <2>1. e \in [kind : {"cmdline_show"}, value : Nat]
    BY <1>2 DEF UiEvent
  <2>2. [e EXCEPT !.value = n] \in [kind : {"cmdline_show"}, value : Nat]
    BY <2>1
  <2>3. QED
    BY <2>2 DEF UiEvent
<1>3. QED
  BY <1>1, <1>2

(* ApplyCells' new grid. *)
Changed(g, e) ==
  CASE e.kind = "resize" -> Resize(g, e.w, e.h)
    [] e.kind = "line" -> PutLine(g, e.row, e.col, e.span, e.value)
    [] e.kind = "goto" -> CursorGoto(g, e.row, e.col)
    [] e.kind = "scroll" -> Scroll(g, e.top, e.bot, 0, Cols, e.by)
    [] e.kind = "clear" -> Clear(g)

LEMMA MakesAGrid ==
  ASSUME NEW w \in Nat, NEW h \in Nat, NEW c, c = [p \in Places(w, h) |-> c[p]],
         NEW cursor \in Nat \X Nat, NEW full \in BOOLEAN, NEW rows \in SUBSET Nat
  PROVE  IsGrid([w |-> w, h |-> h, cells |-> c, cursor |-> cursor, full |-> full, rows |-> rows])
<1> DEFINE g == [w |-> w, h |-> h, cells |-> c, cursor |-> cursor, full |-> full, rows |-> rows]
<1>1. g = [w |-> g.w, h |-> g.h, cells |-> g.cells, cursor |-> g.cursor, full |-> g.full, rows |-> g.rows]
  OBVIOUS
<1>2. g.w = w /\ g.h = h /\ g.cells = c /\ g.cursor = cursor /\ g.full = full /\ g.rows = rows
  OBVIOUS
<1> HIDE DEF g
<1>3. IsGrid(g)
  BY <1>1, <1>2 DEF IsGrid
<1>4. QED
  BY <1>3 DEF g

LEMMA ResizeIs ==
  ASSUME NEW g, IsGrid(g), NEW w \in Nat, NEW h \in Nat
  PROVE  IsGrid(Resize(g, w, h))
<1> DEFINE c == [p \in Places(w, h) |-> IF p \in DOMAIN g.cells THEN g.cells[p] ELSE Blank]
<1>1. c = [p \in Places(w, h) |-> c[p]]
  OBVIOUS
<1>2. Resize(g, w, h).cursor \in Nat \X Nat
  BY DEF Resize, Lesser, IsGrid
<1>3. Resize(g, w, h) = [w |-> w, h |-> h, cells |-> c, cursor |-> Resize(g, w, h).cursor,
                         full |-> TRUE, rows |-> {}]
  BY DEF Resize
<1> HIDE DEF c
<1>4. QED
  <2> DEFINE cursor == Resize(g, w, h).cursor
  <2>1. cursor \in Nat \X Nat /\ TRUE \in BOOLEAN /\ {} \in SUBSET Nat
    BY <1>2
  <2>2. Resize(g, w, h) = [w |-> w, h |-> h, cells |-> c, cursor |-> cursor,
                           full |-> TRUE, rows |-> {}]
    BY <1>3
  <2> HIDE DEF cursor
  <2>3. QED
    BY <1>1, <2>1, <2>2, MakesAGrid

LEMMA PutLineIs ==
  ASSUME NEW g, IsGrid(g), NEW row \in Nat, NEW col, NEW span, NEW v
  PROVE  IsGrid(PutLine(g, row, col, span, v))
<1> DEFINE c == [p \in DOMAIN g.cells |->
                   IF p[1] = row /\ p[2] \in col..(col + span - 1) THEN v ELSE g.cells[p]]
<1>1. CASE row >= g.h
  BY <1>1 DEF PutLine
<1>2. CASE ~(row >= g.h)
  <2>1. PutLine(g, row, col, span, v) = [g EXCEPT !.cells = c, !.rows = @ \cup {row}]
    BY <1>2 DEF PutLine
  <2>2. DOMAIN g.cells = Places(g.w, g.h)
    BY DEF IsGrid
  <2>3. c = [p \in Places(g.w, g.h) |-> c[p]]
    BY <2>2
  <2> HIDE DEF c
  <2>4. PutLine(g, row, col, span, v)
          = [w |-> g.w, h |-> g.h, cells |-> c, cursor |-> g.cursor,
             full |-> g.full, rows |-> g.rows \cup {row}]
    BY <2>1 DEF IsGrid
  <2>5. g.rows \cup {row} \in SUBSET Nat
    BY DEF IsGrid
  <2>6. QED
    BY <2>3, <2>4, <2>5, MakesAGrid DEF IsGrid
<1>3. QED
  BY <1>1, <1>2

LEMMA GotoIs ==
  ASSUME NEW g, IsGrid(g), NEW row \in Nat, NEW col \in Nat
  PROVE  IsGrid(CursorGoto(g, row, col))
<1>1. CursorGoto(g, row, col).cursor \in Nat \X Nat
  BY DEF CursorGoto, Lesser, IsGrid
<1>2. QED
  BY <1>1 DEF IsGrid, CursorGoto

LEMMA ScrollIs ==
  ASSUME NEW g, IsGrid(g), NEW top \in Nat, NEW bottom \in Nat, NEW n \in Int
  PROVE  IsGrid(Scroll(g, top, bottom, 0, Cols, n))
<1> DEFINE bot == Lesser(bottom, g.h)
           right == Lesser(Cols, g.w)
           c == [p \in DOMAIN g.cells |->
                   IF ~(p[1] \in top..bot-1 /\ p[2] \in 0..right-1) THEN g.cells[p]
                   ELSE IF p[1] + n \in top..bot-1 THEN g.cells[<<p[1] + n, p[2]>>]
                   ELSE Blank]
<1>1. CASE top >= bot \/ 0 >= right \/ n = 0
  BY <1>1 DEF Scroll
<1>2. CASE ~(top >= bot \/ 0 >= right \/ n = 0)
  <2>1. Scroll(g, top, bottom, 0, Cols, n)
          = [g EXCEPT !.cells = c, !.rows = @ \cup (top..bot-1)]
    BY <1>2 DEF Scroll
  <2>2. DOMAIN g.cells = Places(g.w, g.h) /\ (top..bot-1) \subseteq Nat
    <3>1. bot \in Int
      BY DEF Lesser, IsGrid
    <3>2. QED
      BY <3>1 DEF IsGrid
  <2>3. c = [p \in Places(g.w, g.h) |-> c[p]]
    BY <2>2
  <2> HIDE DEF c, bot
  <2>4. QED
    BY <2>1, <2>2, <2>3 DEF IsGrid
<1>3. QED
  BY <1>1, <1>2

LEMMA ClearIs ==
  ASSUME NEW g, IsGrid(g)
  PROVE  IsGrid(Clear(g))
<1> DEFINE c == [p \in DOMAIN g.cells |-> Blank]
<1>1. c = [p \in Places(g.w, g.h) |-> c[p]]
  BY DEF IsGrid
<1>2. Clear(g) = [g EXCEPT !.cells = c, !.full = TRUE]
  BY DEF Clear
<1> HIDE DEF c
<1>3. QED
  BY <1>1, <1>2 DEF IsGrid

LEMMA ChangedIs ==
  ASSUME NEW g, IsGrid(g), NEW e \in UiEvent, e.kind \in CellKinds
  PROVE  IsGrid(Changed(g, e))
<1> USE CellFields DEF Changed
<1>1. CASE e.kind = "resize"
  BY <1>1, ResizeIs
<1>2. CASE e.kind = "line"
  BY <1>2, PutLineIs, LineFields
<1>3. CASE e.kind = "goto"
  BY <1>3, GotoIs
<1>4. CASE e.kind = "scroll"
  BY <1>4, ScrollIs
<1>5. CASE e.kind = "clear"
  BY <1>5, ClearIs
<1>6. QED
  BY <1>1, <1>2, <1>3, <1>4, <1>5 DEF CellKinds

LEMMA NewIs == IsGrid(New)
<1> DEFINE c == [p \in {} |-> Blank]
<1>1. Places(0, 0) = {}
  BY DEF Places
<1>2. c = [p \in Places(0, 0) |-> c[p]]
  BY <1>1
<1>3. New = [w |-> 0, h |-> 0, cells |-> c, cursor |-> <<0, 0>>, full |-> FALSE, rows |-> {}]
  BY DEF New
<1> HIDE DEF c
<1>4. QED
  BY <1>2, <1>3 DEF IsGrid

LEMMA MakesAReg ==
  ASSUME NEW gs, gs = [i \in Grids |-> gs[i]], \A i \in Grids : IsGrid(gs[i]),
         NEW row \in Nat, NEW hidden \in BOOLEAN, NEW placed, placed = [row |-> row, hidden |-> hidden],
         NEW cursor \in Grids, NEW moved \in BOOLEAN, NEW mode, NEW cmdline
  PROVE  IsReg([grids |-> gs, placed |-> placed, cursor |-> cursor, moved |-> moved,
                mode |-> mode, cmdline |-> cmdline])
<1> DEFINE r == [grids |-> gs, placed |-> placed, cursor |-> cursor, moved |-> moved,
                 mode |-> mode, cmdline |-> cmdline]
<1>1. /\ r = [grids |-> r.grids, placed |-> r.placed, cursor |-> r.cursor, moved |-> r.moved,
              mode |-> r.mode, cmdline |-> r.cmdline]
      /\ r.grids = gs /\ r.placed = placed /\ r.cursor = cursor /\ r.moved = moved
  OBVIOUS
<1>2. placed = [row |-> placed.row, hidden |-> placed.hidden] /\ placed.row = row /\ placed.hidden = hidden
  OBVIOUS
<1> HIDE DEF r
<1>3. IsReg(r)
  BY <1>1, <1>2 DEF IsReg
<1>4. QED
  BY <1>3 DEF r

(* What each kind of event leaves of a registry.                           *)
LEMMA ApplyCellsIs ==
  ASSUME NEW r, IsReg(r), NEW e \in UiEvent, e.kind \in CellKinds
  PROVE  LET new == ApplyCells(r, e)
         IN  /\ IsReg(new)
             /\ new.grids[e.grid] = Changed(r.grids[e.grid], e)
             /\ \A i \in Grids : i # e.grid => new.grids[i] = r.grids[i]
             /\ new.placed = r.placed /\ new.mode = r.mode /\ new.cmdline = r.cmdline
             /\ new.cursor = IF e.kind = "goto" THEN e.grid ELSE r.cursor
             /\ new.moved = (r.moved \/ (e.kind = "goto" /\ r.cursor # e.grid))
<1> DEFINE c == Changed(r.grids[e.grid], e)
           gs == [r.grids EXCEPT ![e.grid] = c]
           moved == r.moved \/ (e.kind = "goto" /\ r.cursor # e.grid)
           cursor == IF e.kind = "goto" THEN e.grid ELSE r.cursor
           new == ApplyCells(r, e)
<1>1. e.grid \in Grids
  BY CellFields
<1>2. new = [r EXCEPT !.grids = gs, !.moved = moved, !.cursor = cursor]
  BY DEF ApplyCells, Changed
<1>3. IsGrid(c) /\ IsGrid(r.grids[e.grid])
  BY <1>1, ChangedIs DEF IsReg
<1> HIDE DEF c
<1>4. /\ gs = [i \in Grids |-> gs[i]] /\ gs[e.grid] = c
      /\ \A i \in Grids : IsGrid(gs[i]) /\ (i # e.grid => gs[i] = r.grids[i])
  BY <1>1, <1>3 DEF IsReg
<1>5. moved \in BOOLEAN /\ cursor \in Grids
  BY <1>1 DEF IsReg
<1> HIDE DEF gs, moved, cursor, new
<1>6. new = [grids |-> gs, placed |-> r.placed, cursor |-> cursor, moved |-> moved,
             mode |-> r.mode, cmdline |-> r.cmdline]
  <2>1. r = [grids |-> r.grids, placed |-> r.placed, cursor |-> r.cursor, moved |-> r.moved,
             mode |-> r.mode, cmdline |-> r.cmdline]
    BY DEF IsReg
  <2>2. QED
    BY <1>2, <2>1
<1>7. IsReg(new)
  <2>1. /\ r.placed.row \in Nat /\ r.placed.hidden \in BOOLEAN
        /\ r.placed = [row |-> r.placed.row, hidden |-> r.placed.hidden]
    BY DEF IsReg
  <2>2. QED
    BY <1>4, <1>5, <1>6, <2>1, MakesAReg
<1>8. QED
  BY <1>4, <1>6, <1>7 DEF c, cursor, moved, new

LEMMA ApplyPlacementIs ==
  ASSUME NEW r, IsReg(r), NEW e \in UiEvent, e.kind \in Placements
  PROVE  LET new == ApplyPlacement(r, e)
         IN  /\ IsReg(new) /\ new.moved
             /\ new.grids[Global] = r.grids[Global]
             /\ new.grids[Win] = IF e.kind = "destroy" THEN New ELSE r.grids[Win]
             /\ e.kind = "pos" => new.placed = [row |-> e.row, hidden |-> FALSE]
             /\ e.kind = "hide" => new.placed = [row |-> r.placed.row, hidden |-> TRUE]
             /\ e.kind \in {"close", "destroy"} => new.placed = Nowhere
             /\ new.mode = r.mode /\ new.cmdline = r.cmdline /\ new.cursor = r.cursor
<1> DEFINE s == [r EXCEPT !.moved = TRUE]
           new == ApplyPlacement(r, e)
           gs == IF e.kind = "destroy" THEN [r.grids EXCEPT ![Win] = New] ELSE r.grids
<1>1. /\ r = [grids |-> r.grids, placed |-> r.placed, cursor |-> r.cursor, moved |-> r.moved,
              mode |-> r.mode, cmdline |-> r.cmdline]
      /\ r.grids = [i \in Grids |-> r.grids[i]] /\ \A i \in Grids : IsGrid(r.grids[i])
      /\ r.cursor \in Grids /\ r.placed.row \in Nat
      /\ r.placed = [row |-> r.placed.row, hidden |-> r.placed.hidden]
      /\ TRUE \in BOOLEAN /\ FALSE \in BOOLEAN
  BY DEF IsReg
<1>2. /\ Global \in Grids /\ Win \in Grids /\ Global # Win
      /\ \A i \in Grids : i = Global \/ i = Win
  BY DEF Global, Win, Grids
<1>3. s = [r EXCEPT !.moved = TRUE]
  OBVIOUS
<1> HIDE DEF s
<1>4. s = [grids |-> r.grids, placed |-> r.placed, cursor |-> r.cursor, moved |-> TRUE,
           mode |-> r.mode, cmdline |-> r.cmdline]
  BY <1>1, <1>3
<1>5. /\ gs = [i \in Grids |-> gs[i]] /\ gs[Global] = r.grids[Global]
      /\ gs[Win] = IF e.kind = "destroy" THEN New ELSE r.grids[Win]
      /\ \A i \in Grids : IsGrid(gs[i])
  BY <1>1, <1>2, NewIs
<1>6. \E row \in Nat, hidden \in BOOLEAN :
        LET placed == [row |-> row, hidden |-> hidden]
        IN  /\ new = [grids |-> gs, placed |-> placed, cursor |-> r.cursor, moved |-> TRUE,
                      mode |-> r.mode, cmdline |-> r.cmdline]
            /\ e.kind = "pos" => placed = [row |-> e.row, hidden |-> FALSE]
            /\ e.kind = "hide" => placed = [row |-> r.placed.row, hidden |-> TRUE]
            /\ e.kind \in {"close", "destroy"} => placed = Nowhere
  <2>1. CASE e.kind = "pos"
    <3>1. new = [s EXCEPT !.placed = [row |-> e.row, hidden |-> FALSE]]
      BY <2>1 DEF ApplyPlacement, s
    <3>2. e.row \in Nat
      BY <2>1, Kinds DEF IsStep
    <3> HIDE DEF new
    <3>3. new = [grids |-> r.grids, placed |-> [row |-> e.row, hidden |-> FALSE],
                 cursor |-> r.cursor, moved |-> TRUE, mode |-> r.mode, cmdline |-> r.cmdline]
      BY <1>4, <3>1
    <3>4. QED
      BY <1>1, <2>1, <3>2, <3>3
  <2>2. CASE e.kind = "hide"
    <3>1. new = [s EXCEPT !.placed.hidden = TRUE]
      BY <2>2 DEF ApplyPlacement, s
    <3> DEFINE p == [r.placed EXCEPT !.hidden = TRUE]
    <3>2. p = [r.placed EXCEPT !.hidden = TRUE]
      OBVIOUS
    <3>3. new = [s EXCEPT !.placed = p]
      BY <1>4, <3>1
    <3> HIDE DEF new, p
    <3>4. p = [row |-> r.placed.row, hidden |-> TRUE]
      BY <1>1, <3>2
    <3>5. new = [grids |-> r.grids, placed |-> p,
                 cursor |-> r.cursor, moved |-> TRUE, mode |-> r.mode, cmdline |-> r.cmdline]
      BY <1>4, <3>3
    <3>6. QED
      BY <1>1, <2>2, <3>4, <3>5
  <2>3. CASE e.kind = "close"
    <3>1. new = [s EXCEPT !.placed = Nowhere]
      BY <2>3 DEF ApplyPlacement, s
    <3> HIDE DEF new
    <3>2. new = [grids |-> r.grids, placed |-> Nowhere,
                 cursor |-> r.cursor, moved |-> TRUE, mode |-> r.mode, cmdline |-> r.cmdline]
      BY <1>4, <3>1
    <3>3. QED
      BY <1>1, <2>3, <3>2 DEF Nowhere
  <2>4. CASE e.kind = "destroy"
    <3>1. new = [s EXCEPT !.placed = Nowhere, !.grids[Win] = New]
      BY <2>4 DEF ApplyPlacement, s
    <3>2. gs = [r.grids EXCEPT ![Win] = New]
      BY <2>4
    <3> HIDE DEF new, gs
    <3>3. new = [grids |-> gs, placed |-> Nowhere,
                 cursor |-> r.cursor, moved |-> TRUE, mode |-> r.mode, cmdline |-> r.cmdline]
      BY <1>4, <3>1, <3>2
    <3>4. QED
      BY <1>1, <2>4, <3>3 DEF Nowhere
  <2>5. QED
    BY <2>1, <2>2, <2>3, <2>4 DEF Placements
<1> HIDE DEF new, gs
<1>7. PICK row \in Nat, hidden \in BOOLEAN :
        /\ new = [grids |-> gs, placed |-> [row |-> row, hidden |-> hidden], cursor |-> r.cursor,
                  moved |-> TRUE, mode |-> r.mode, cmdline |-> r.cmdline]
        /\ e.kind = "pos" => [row |-> row, hidden |-> hidden] = [row |-> e.row, hidden |-> FALSE]
        /\ e.kind = "hide" => [row |-> row, hidden |-> hidden] = [row |-> r.placed.row, hidden |-> TRUE]
        /\ e.kind \in {"close", "destroy"} => [row |-> row, hidden |-> hidden] = Nowhere
  BY <1>6
<1>8. IsReg(new)
  BY <1>1, <1>5, <1>7, MakesAReg
<1>9. QED
  BY <1>5, <1>7, <1>8 DEF new

LEMMA ApplyOtherIs ==
  ASSUME NEW r, IsReg(r), NEW e, IsStep(e), e.kind \notin CellKinds \cup Placements
  PROVE  LET new == Apply(r, e)
         IN  /\ IsReg(new)
             /\ new.grids = r.grids /\ new.placed = r.placed /\ new.cursor = r.cursor
             /\ new.moved = r.moved
             /\ new.mode = IF e.kind = "mode" THEN e.mode ELSE r.mode
             /\ new.cmdline = IF e.kind = "cmdline_show" THEN e.value
                              ELSE IF e.kind = "cmdline_hide" THEN NoLine ELSE r.cmdline
<1>1. CASE e.kind = "mode"
  BY <1>1 DEF Apply, CellKinds, Placements, IsReg
<1>2. CASE e.kind = "cmdline_show"
  BY <1>2 DEF Apply, CellKinds, Placements, IsReg
<1>3. CASE e.kind = "cmdline_hide"
  BY <1>3 DEF Apply, CellKinds, Placements, IsReg
<1>4. CASE e.kind \in {"flush", "viewport"}
  BY <1>4 DEF Apply, CellKinds, Placements
<1>5. QED
  BY <1>1, <1>2, <1>3, <1>4, Kinds

LEMMA ApplyIs ==
  ASSUME NEW r, IsReg(r), NEW e, IsStep(e)
  PROVE  /\ IsReg(Apply(r, e))
         /\ e.kind \in CellKinds => Apply(r, e) = ApplyCells(r, e)
         /\ e.kind \in Placements => Apply(r, e) = ApplyPlacement(r, e)
<1>1. CASE e.kind \in CellKinds
  <2>1. Apply(r, e) = ApplyCells(r, e) /\ e \in UiEvent
    BY <1>1 DEF Apply, IsStep, CellKinds, Placements
  <2>2. QED
    BY <1>1, <2>1, ApplyCellsIs DEF CellKinds, Placements
<1>2. CASE e.kind \in Placements
  <2>1. Apply(r, e) = ApplyPlacement(r, e) /\ e \in UiEvent
    BY <1>2 DEF Apply, IsStep, CellKinds, Placements
  <2>2. QED
    BY <1>2, <2>1, ApplyPlacementIs DEF CellKinds, Placements
<1>3. QED
  BY <1>1, <1>2, ApplyOtherIs

-----------------------------------------------------------------------------
(* Registries alike but for some cells of one grid: what an event that was *)
(* left out may have made of them, until the one that superseded it comes. *)

GridsAlike(a, b, X) ==
  /\ a.w = b.w /\ a.h = b.h /\ a.cursor = b.cursor
  /\ \A p \in Places(a.w, a.h) : p \in X \/ a.cells[p] = b.cells[p]

Alike(A, B, g, X) ==
  /\ \A i \in Grids : GridsAlike(A.grids[i], B.grids[i], IF i = g THEN X ELSE {})
  /\ A.placed = B.placed /\ A.cursor = B.cursor /\ A.mode = B.mode /\ A.cmdline = B.cmdline

Everywhere == Nat \X Nat

(* The cells a line writes.                                                *)
Written(e) == {p \in Everywhere : p[1] = e.row /\ p[2] \in e.col..(e.col + e.span - 1)}

LEMMA PlacesAre ==
  ASSUME NEW w \in Nat, NEW h \in Nat
  PROVE  /\ Places(w, h) \subseteq Everywhere
         /\ \A p \in Places(w, h) : /\ p = <<p[1], p[2]>> /\ p[1] \in Nat /\ p[2] \in Nat
                                    /\ p[1] < h /\ p[2] < w
         /\ \A p \in Everywhere : p[1] < h /\ p[2] < w => p \in Places(w, h)
BY DEF Places, Everywhere

LEMMA ChangedAlike ==
  ASSUME NEW a, IsGrid(a), NEW b, IsGrid(b), NEW X, GridsAlike(a, b, X),
         NEW e \in UiEvent, e.kind \in CellKinds,
         e.kind = "scroll" => X = {} \/ Everywhere \subseteq X
  PROVE  GridsAlike(Changed(a, e), Changed(b, e), X)
<1>1. /\ DOMAIN a.cells = Places(a.w, a.h) /\ DOMAIN b.cells = Places(a.w, a.h)
      /\ a.w = b.w /\ a.h = b.h /\ a.cursor = b.cursor
      /\ a.w \in Nat /\ a.h \in Nat
      /\ \A p \in Places(a.w, a.h) : p \in X \/ a.cells[p] = b.cells[p]
  BY DEF GridsAlike, IsGrid
<1>2. CASE e.kind = "resize"
  <2>1. e.w \in Nat /\ e.h \in Nat /\ Changed(a, e) = Resize(a, e.w, e.h) /\ Changed(b, e) = Resize(b, e.w, e.h)
    BY <1>2, CellFields DEF Changed
  <2>2. /\ Resize(a, e.w, e.h).cells = [p \in Places(e.w, e.h) |-> IF p \in Places(a.w, a.h) THEN a.cells[p] ELSE Blank]
        /\ Resize(b, e.w, e.h).cells = [p \in Places(e.w, e.h) |-> IF p \in Places(a.w, a.h) THEN b.cells[p] ELSE Blank]
        /\ Resize(a, e.w, e.h).w = e.w /\ Resize(b, e.w, e.h).w = e.w
        /\ Resize(a, e.w, e.h).h = e.h /\ Resize(b, e.w, e.h).h = e.h
        /\ Resize(a, e.w, e.h).cursor = Resize(b, e.w, e.h).cursor
    BY <1>1 DEF Resize
  <2>3. QED
    BY <1>1, <2>1, <2>2 DEF GridsAlike
<1>3. CASE e.kind = "line"
  <2>1. Changed(a, e) = PutLine(a, e.row, e.col, e.span, e.value)
        /\ Changed(b, e) = PutLine(b, e.row, e.col, e.span, e.value)
    BY <1>3 DEF Changed
  <2>2. CASE e.row >= a.h
    BY <1>1, <2>1, <2>2 DEF PutLine, GridsAlike
  <2>3. CASE ~(e.row >= a.h)
    <3> DEFINE on(p) == p[1] = e.row /\ p[2] \in e.col..(e.col + e.span - 1)
               na == Changed(a, e)
               nb == Changed(b, e)
    <3>1. /\ na = [a EXCEPT !.cells = [p \in Places(a.w, a.h) |-> IF on(p) THEN e.value ELSE a.cells[p]],
                            !.rows = @ \cup {e.row}]
          /\ nb = [b EXCEPT !.cells = [p \in Places(a.w, a.h) |-> IF on(p) THEN e.value ELSE b.cells[p]],
                            !.rows = @ \cup {e.row}]
      BY <1>1, <2>1, <2>3 DEF PutLine
    <3> HIDE DEF on, na, nb
    <3>2. /\ na.cells = [p \in Places(a.w, a.h) |-> IF on(p) THEN e.value ELSE a.cells[p]]
          /\ nb.cells = [p \in Places(a.w, a.h) |-> IF on(p) THEN e.value ELSE b.cells[p]]
          /\ na.w = a.w /\ na.h = a.h /\ na.cursor = a.cursor
          /\ nb.w = b.w /\ nb.h = b.h /\ nb.cursor = b.cursor
      BY <3>1 DEF IsGrid
    <3>3. QED
      BY <1>1, <3>2 DEF GridsAlike, na, nb
  <2>4. QED
    BY <2>2, <2>3
<1>4. CASE e.kind = "goto"
  <2>1. Changed(a, e) = CursorGoto(a, e.row, e.col) /\ Changed(b, e) = CursorGoto(b, e.row, e.col)
    BY <1>4 DEF Changed
  <2> DEFINE na == Changed(a, e)
             nb == Changed(b, e)
             at == CursorGoto(a, e.row, e.col).cursor
  <2>2. na = [a EXCEPT !.cursor = at] /\ nb = [b EXCEPT !.cursor = at]
    BY <1>1, <2>1 DEF CursorGoto, IsGrid
  <2> HIDE DEF na, nb, at
  <2>3. /\ na.cells = a.cells /\ na.w = a.w /\ na.h = a.h /\ na.cursor = at
        /\ nb.cells = b.cells /\ nb.w = b.w /\ nb.h = b.h /\ nb.cursor = at
    BY <2>2 DEF IsGrid
  <2>4. QED
    BY <1>1, <2>3 DEF GridsAlike, na, nb
<1>5. CASE e.kind = "scroll"
  <2>1. /\ Changed(a, e) = Scroll(a, e.top, e.bot, 0, Cols, e.by)
        /\ Changed(b, e) = Scroll(b, e.top, e.bot, 0, Cols, e.by)
    BY <1>5 DEF Changed
  <2> DEFINE bot == Lesser(e.bot, a.h)
             right == Lesser(Cols, a.w)
             in(p) == p[1] \in e.top..bot-1 /\ p[2] \in 0..right-1
             on(p) == p[1] + e.by \in e.top..bot-1
             from(p) == <<p[1] + e.by, p[2]>>
             na == Changed(a, e)
             nb == Changed(b, e)
  <2>2. CASE e.top >= bot \/ 0 >= right \/ e.by = 0
    BY <1>1, <2>1, <2>2 DEF Scroll, GridsAlike
  <2>3. CASE ~(e.top >= bot \/ 0 >= right \/ e.by = 0)
    <3>1. /\ na = [a EXCEPT !.cells = [p \in Places(a.w, a.h) |-> IF ~in(p) THEN a.cells[p]
                                         ELSE IF on(p) THEN a.cells[from(p)] ELSE Blank],
                            !.rows = @ \cup (e.top..bot-1)]
          /\ nb = [b EXCEPT !.cells = [p \in Places(a.w, a.h) |-> IF ~in(p) THEN b.cells[p]
                                         ELSE IF on(p) THEN b.cells[from(p)] ELSE Blank],
                            !.rows = @ \cup (e.top..bot-1)]
      BY <1>1, <2>1, <2>3 DEF Scroll
    <3>2. \A p \in Places(a.w, a.h) : in(p) /\ on(p) => from(p) \in Places(a.w, a.h)
      <4>1. SUFFICES ASSUME NEW p \in Places(a.w, a.h), in(p), on(p) PROVE from(p) \in Places(a.w, a.h)
        OBVIOUS
      <4>2. e.top \in Nat /\ e.bot \in Nat /\ e.by \in Int
        BY <1>5, CellFields
      <4>3. bot \in Int /\ bot <= a.h /\ p[1] \in Nat /\ p[2] \in Nat /\ p[2] < a.w
        BY <1>1, <4>2, PlacesAre DEF Lesser
      <4>4. p[1] + e.by \in 0..a.h - 1
        BY <1>1, <4>1, <4>2, <4>3
      <4>5. QED
        BY <1>1, <4>3, <4>4 DEF Places
    <3> HIDE DEF in, on, from, na, nb, bot, right
    <3>3. /\ na.cells = [p \in Places(a.w, a.h) |-> IF ~in(p) THEN a.cells[p]
                           ELSE IF on(p) THEN a.cells[from(p)] ELSE Blank]
          /\ nb.cells = [p \in Places(a.w, a.h) |-> IF ~in(p) THEN b.cells[p]
                           ELSE IF on(p) THEN b.cells[from(p)] ELSE Blank]
          /\ na.w = a.w /\ na.h = a.h /\ na.cursor = a.cursor
          /\ nb.w = b.w /\ nb.h = b.h /\ nb.cursor = b.cursor
      BY <3>1 DEF IsGrid
    <3>4. \A p \in Places(a.w, a.h) : p \in X \/ na.cells[p] = nb.cells[p]
      <4>1. CASE Everywhere \subseteq X
        BY <1>1, <4>1, PlacesAre
      <4>2. CASE X = {}
        BY <1>1, <3>2, <3>3, <4>2
      <4>3. QED
        BY <1>5, <4>1, <4>2
    <3>5. QED
      BY <1>1, <3>3, <3>4 DEF GridsAlike, na, nb
  <2>4. QED
    BY <2>2, <2>3
<1>6. CASE e.kind = "clear"
  <2>1. Changed(a, e) = Clear(a) /\ Changed(b, e) = Clear(b)
    BY <1>6 DEF Changed
  <2> DEFINE na == Changed(a, e)
             nb == Changed(b, e)
             none == [p \in Places(a.w, a.h) |-> Blank]
  <2>2. na = [a EXCEPT !.cells = none, !.full = TRUE] /\ nb = [b EXCEPT !.cells = none, !.full = TRUE]
    BY <1>1, <2>1 DEF Clear
  <2> HIDE DEF na, nb, none
  <2>3. /\ na.cells = none /\ na.w = a.w /\ na.h = a.h /\ na.cursor = a.cursor
        /\ nb.cells = none /\ nb.w = b.w /\ nb.h = b.h /\ nb.cursor = b.cursor
    BY <2>2 DEF IsGrid
  <2>4. QED
    BY <1>1, <2>3 DEF GridsAlike, na, nb
<1>7. QED
  BY <1>2, <1>3, <1>4, <1>5, <1>6 DEF CellKinds

(* An event keeps two registries as alike as they were, but a scroll       *)
(* carries a difference along.                                             *)
LEMMA ApplyAlike ==
  ASSUME NEW A, IsReg(A), NEW B, IsReg(B), NEW g \in Grids, NEW X, Alike(A, B, g, X),
         NEW e, IsStep(e),
         e.kind = "scroll" /\ e.grid = g => X = {} \/ Everywhere \subseteq X
  PROVE  Alike(Apply(A, e), Apply(B, e), g, X)
<1> DEFINE na == Apply(A, e)
           nb == Apply(B, e)
<1>1. /\ \A i \in Grids : GridsAlike(A.grids[i], B.grids[i], IF i = g THEN X ELSE {})
      /\ A.placed = B.placed /\ A.cursor = B.cursor /\ A.mode = B.mode /\ A.cmdline = B.cmdline
      /\ \A i \in Grids : IsGrid(A.grids[i]) /\ IsGrid(B.grids[i])
  BY DEF Alike, IsReg
<1>2. CASE e.kind \in CellKinds
  <2>1. e \in UiEvent /\ e.grid \in Grids
    BY <1>2, Kinds, CellFields DEF CellKinds
  <2>2. na = ApplyCells(A, e) /\ nb = ApplyCells(B, e)
    BY <1>2, ApplyIs
  <2>3. /\ na.grids[e.grid] = Changed(A.grids[e.grid], e)
        /\ nb.grids[e.grid] = Changed(B.grids[e.grid], e)
        /\ \A i \in Grids : i # e.grid => na.grids[i] = A.grids[i] /\ nb.grids[i] = B.grids[i]
        /\ na.placed = A.placed /\ na.mode = A.mode /\ na.cmdline = A.cmdline
        /\ nb.placed = B.placed /\ nb.mode = B.mode /\ nb.cmdline = B.cmdline
        /\ na.cursor = IF e.kind = "goto" THEN e.grid ELSE A.cursor
        /\ nb.cursor = IF e.kind = "goto" THEN e.grid ELSE B.cursor
    BY <1>2, <2>1, <2>2, ApplyCellsIs
  <2>4. GridsAlike(Changed(A.grids[e.grid], e), Changed(B.grids[e.grid], e),
                   IF e.grid = g THEN X ELSE {})
    BY <1>1, <1>2, <2>1, ChangedAlike
  <2> HIDE DEF na, nb
  <2>5. QED
    BY <1>1, <2>3, <2>4 DEF Alike, na, nb
<1>3. CASE e.kind \in Placements
  <2>1. e \in UiEvent
    BY <1>3, Kinds DEF Placements
  <2>2. na = ApplyPlacement(A, e) /\ nb = ApplyPlacement(B, e)
    BY <1>3, ApplyIs
  <2>3. /\ na.grids[Global] = A.grids[Global]
        /\ na.grids[Win] = IF e.kind = "destroy" THEN New ELSE A.grids[Win]
        /\ e.kind = "pos" => na.placed = [row |-> e.row, hidden |-> FALSE]
        /\ e.kind = "hide" => na.placed = [row |-> A.placed.row, hidden |-> TRUE]
        /\ e.kind \in {"close", "destroy"} => na.placed = Nowhere
        /\ na.mode = A.mode /\ na.cmdline = A.cmdline /\ na.cursor = A.cursor
    <3>1. na = ApplyPlacement(A, e)
      BY <2>2
    <3> HIDE DEF na
    <3>2. QED
      BY <1>3, <2>1, <3>1, ApplyPlacementIs
  <2>8. /\ nb.grids[Global] = B.grids[Global]
        /\ nb.grids[Win] = IF e.kind = "destroy" THEN New ELSE B.grids[Win]
        /\ e.kind = "pos" => nb.placed = [row |-> e.row, hidden |-> FALSE]
        /\ e.kind = "hide" => nb.placed = [row |-> B.placed.row, hidden |-> TRUE]
        /\ e.kind \in {"close", "destroy"} => nb.placed = Nowhere
        /\ nb.mode = B.mode /\ nb.cmdline = B.cmdline /\ nb.cursor = B.cursor
    <3>1. nb = ApplyPlacement(B, e)
      BY <2>2
    <3> HIDE DEF nb
    <3>2. QED
      BY <1>3, <2>1, <3>1, ApplyPlacementIs
  <2> HIDE DEF na, nb
  <2>4. na.placed = nb.placed
    BY <1>1, <1>3, <2>3, <2>8 DEF Placements
  <2>5. Global \in Grids /\ Win \in Grids /\ \A i \in Grids : i = Global \/ i = Win
    BY DEF Grids
  <2>6. \A Y : GridsAlike(New, New, Y)
    BY DEF GridsAlike
  <2>7. QED
    BY <1>1, <2>3, <2>8, <2>4, <2>5, <2>6 DEF Alike, na, nb
<1>4. CASE e.kind \notin CellKinds \cup Placements
  <2>1. /\ na.grids = A.grids /\ na.placed = A.placed /\ na.cursor = A.cursor
        /\ nb.grids = B.grids /\ nb.placed = B.placed /\ nb.cursor = B.cursor
        /\ na.mode = nb.mode /\ na.cmdline = nb.cmdline
    BY <1>1, <1>4, ApplyOtherIs
  <2> HIDE DEF na, nb
  <2>2. QED
    BY <1>1, <2>1 DEF Alike, na, nb
<1>5. QED
  BY <1>2, <1>3, <1>4

(* What an event does to a grid's cells alone is a difference in the cells *)
(* it writes.                                                              *)
LEMMA ChangedOnce ==
  ASSUME NEW a, IsGrid(a), NEW b, IsGrid(b), NEW X, GridsAlike(a, b, X), NEW e \in UiEvent,
         \/ e.kind = "line" /\ Written(e) \subseteq X
         \/ e.kind \in {"line", "scroll", "clear"} /\ Everywhere \subseteq X
  PROVE  GridsAlike(a, Changed(b, e), X)
<1> DEFINE n == Changed(b, e)
<1>1. e.kind \in CellKinds /\ IsGrid(n)
  BY ChangedIs DEF CellKinds
<1>2. n.w = b.w /\ n.h = b.h /\ n.cursor = b.cursor
  <2>1. CASE e.kind = "line"
    BY <2>1 DEF Changed, PutLine, IsGrid
  <2>2. CASE e.kind = "scroll"
    <3> DEFINE s == Scroll(b, e.top, e.bot, 0, Cols, e.by)
    <3>1. n = s
      BY <2>2 DEF Changed
    <3>2. s.w = b.w /\ s.h = b.h /\ s.cursor = b.cursor
      BY DEF Scroll, IsGrid
    <3>3. QED
      BY <3>1, <3>2
  <2>3. CASE e.kind = "clear"
    BY <2>3 DEF Changed, Clear, IsGrid
  <2>4. QED
    BY <2>1, <2>2, <2>3
<1>3. \A p \in Places(a.w, a.h) : p \in X \/ b.cells[p] = n.cells[p]
  <2>1. CASE Everywhere \subseteq X
    BY <2>1, PlacesAre DEF IsGrid
  <2>2. CASE e.kind = "line" /\ Written(e) \subseteq X
    <3>1. SUFFICES ASSUME NEW p \in Places(a.w, a.h), p \notin X PROVE b.cells[p] = n.cells[p]
      OBVIOUS
    <3>2. p \in Everywhere /\ p \in DOMAIN b.cells
      BY PlacesAre DEF IsGrid, GridsAlike
    <3>3. ~(p[1] = e.row /\ p[2] \in e.col..(e.col + e.span - 1))
      BY <2>2, <3>1, <3>2 DEF Written
    <3>4. n = PutLine(b, e.row, e.col, e.span, e.value)
      BY <2>2 DEF Changed
    <3>5. CASE e.row >= b.h
      BY <3>4, <3>5 DEF PutLine
    <3>6. CASE ~(e.row >= b.h)
      <4> DEFINE c == [q \in DOMAIN b.cells |->
                         IF q[1] = e.row /\ q[2] \in e.col..(e.col + e.span - 1)
                         THEN e.value ELSE b.cells[q]]
      <4>1. n.cells = c
        BY <3>4, <3>6 DEF PutLine, IsGrid
      <4>2. c[p] = b.cells[p]
        BY <3>2, <3>3
      <4>3. QED
        BY <4>1, <4>2
    <3>7. QED
      BY <3>5, <3>6
  <2>3. QED
    BY <2>1, <2>2
<1> HIDE DEF n
<1>4. QED
  BY <1>2, <1>3 DEF GridsAlike, n

LEMMA ApplyOnce ==
  ASSUME NEW A, IsReg(A), NEW B, IsReg(B), NEW e \in UiEvent, NEW X, Alike(A, B, e.grid, X),
         \/ e.kind = "line" /\ Written(e) \subseteq X
         \/ e.kind \in {"line", "scroll", "clear"} /\ Everywhere \subseteq X
  PROVE  Alike(A, Apply(B, e), e.grid, X)
<1> DEFINE nb == Apply(B, e)
<1>1. e.kind \in CellKinds /\ e.kind # "goto" /\ e.grid \in Grids
  BY CellFields DEF CellKinds
<1>2. nb = ApplyCells(B, e)
  BY <1>1, ApplyIs DEF IsStep
<1>3. /\ nb.grids[e.grid] = Changed(B.grids[e.grid], e)
      /\ \A i \in Grids : i # e.grid => nb.grids[i] = B.grids[i]
      /\ nb.placed = B.placed /\ nb.mode = B.mode /\ nb.cmdline = B.cmdline
      /\ nb.cursor = B.cursor
  BY <1>1, <1>2, ApplyCellsIs
<1>4. GridsAlike(A.grids[e.grid], Changed(B.grids[e.grid], e), X)
  BY <1>1, ChangedOnce DEF Alike, IsReg
<1> HIDE DEF nb
<1>5. QED
  BY <1>1, <1>3, <1>4 DEF Alike, nb

(* The event that supersedes makes the difference good.                    *)
LEMMA ChangedRestores ==
  ASSUME NEW a, IsGrid(a), NEW b, IsGrid(b), NEW X, GridsAlike(a, b, X), NEW e \in UiEvent,
         e.kind = "clear" \/ (e.kind = "line" /\ X \subseteq Written(e))
  PROVE  GridsAlike(Changed(a, e), Changed(b, e), {})
<1> DEFINE na == Changed(a, e)
           nb == Changed(b, e)
<1>1. /\ DOMAIN a.cells = Places(a.w, a.h) /\ DOMAIN b.cells = Places(a.w, a.h)
      /\ a.w = b.w /\ a.h = b.h /\ a.cursor = b.cursor
      /\ a.w \in Nat /\ a.h \in Nat
      /\ \A p \in Places(a.w, a.h) : p \in X \/ a.cells[p] = b.cells[p]
  BY DEF GridsAlike, IsGrid
<1>2. CASE e.kind = "clear"
  <2>1. na = Clear(a) /\ nb = Clear(b)
    BY <1>2 DEF Changed
  <2> DEFINE none == [p \in Places(a.w, a.h) |-> Blank]
  <2>2. na = [a EXCEPT !.cells = none, !.full = TRUE] /\ nb = [b EXCEPT !.cells = none, !.full = TRUE]
    BY <1>1, <2>1 DEF Clear
  <2> HIDE DEF na, nb, none
  <2>3. /\ na.cells = none /\ na.w = a.w /\ na.h = a.h /\ na.cursor = a.cursor
        /\ nb.cells = none /\ nb.w = b.w /\ nb.h = b.h /\ nb.cursor = b.cursor
    BY <2>2 DEF IsGrid
  <2>4. QED
    BY <1>1, <2>3 DEF GridsAlike, na, nb
<1>3. CASE e.kind = "line" /\ X \subseteq Written(e)
  <2> DEFINE on(p) == p[1] = e.row /\ p[2] \in e.col..(e.col + e.span - 1)
  <2>1. na = PutLine(a, e.row, e.col, e.span, e.value) /\ nb = PutLine(b, e.row, e.col, e.span, e.value)
    BY <1>3 DEF Changed
  <2>2. \A p \in X : on(p)
    BY <1>3 DEF Written
  <2>3. CASE e.row >= a.h
    <3>1. \A p \in Places(a.w, a.h) : p \notin X
      BY <1>1, <1>3, <2>2, <2>3, LineFields, PlacesAre
    <3>2. na = a /\ nb = b
      BY <1>1, <2>1, <2>3 DEF PutLine
    <3> HIDE DEF na, nb
    <3>3. QED
      BY <1>1, <3>1, <3>2 DEF GridsAlike, na, nb
  <2>4. CASE ~(e.row >= a.h)
    <3>1. /\ na = [a EXCEPT !.cells = [p \in Places(a.w, a.h) |-> IF on(p) THEN e.value ELSE a.cells[p]],
                            !.rows = @ \cup {e.row}]
          /\ nb = [b EXCEPT !.cells = [p \in Places(a.w, a.h) |-> IF on(p) THEN e.value ELSE b.cells[p]],
                            !.rows = @ \cup {e.row}]
      BY <1>1, <2>1, <2>4 DEF PutLine
    <3> HIDE DEF on, na, nb
    <3>2. /\ na.cells = [p \in Places(a.w, a.h) |-> IF on(p) THEN e.value ELSE a.cells[p]]
          /\ nb.cells = [p \in Places(a.w, a.h) |-> IF on(p) THEN e.value ELSE b.cells[p]]
          /\ na.w = a.w /\ na.h = a.h /\ na.cursor = a.cursor
          /\ nb.w = b.w /\ nb.h = b.h /\ nb.cursor = b.cursor
      BY <3>1 DEF IsGrid
    <3>3. QED
      BY <1>1, <2>2, <3>2 DEF GridsAlike, na, nb
  <2>5. QED
    BY <2>3, <2>4
<1>4. QED
  BY <1>2, <1>3

LEMMA ApplyRestores ==
  ASSUME NEW A, IsReg(A), NEW B, IsReg(B), NEW e \in UiEvent, NEW X, Alike(A, B, e.grid, X),
         e.kind = "clear" \/ (e.kind = "line" /\ X \subseteq Written(e))
  PROVE  \A g \in Grids : Alike(Apply(A, e), Apply(B, e), g, {})
<1> DEFINE na == Apply(A, e)
           nb == Apply(B, e)
<1>1. e.kind \in CellKinds /\ e.kind # "goto" /\ e.grid \in Grids
  BY CellFields DEF CellKinds
<1>2. na = ApplyCells(A, e) /\ nb = ApplyCells(B, e)
  BY <1>1, ApplyIs DEF IsStep
<1>3. /\ na.grids[e.grid] = Changed(A.grids[e.grid], e)
      /\ nb.grids[e.grid] = Changed(B.grids[e.grid], e)
      /\ \A i \in Grids : i # e.grid => na.grids[i] = A.grids[i] /\ nb.grids[i] = B.grids[i]
      /\ na.placed = A.placed /\ na.mode = A.mode /\ na.cmdline = A.cmdline
      /\ nb.placed = B.placed /\ nb.mode = B.mode /\ nb.cmdline = B.cmdline
      /\ na.cursor = A.cursor /\ nb.cursor = B.cursor
  BY <1>1, <1>2, ApplyCellsIs
<1>4. GridsAlike(Changed(A.grids[e.grid], e), Changed(B.grids[e.grid], e), {})
  BY <1>1, ChangedRestores DEF Alike, IsReg
<1> HIDE DEF na, nb
<1>5. QED
  BY <1>1, <1>3, <1>4 DEF Alike, na, nb

(* Alike everywhere is the same picture.                                   *)
LEMMA SamePicture ==
  ASSUME NEW A, IsReg(A), NEW B, IsReg(B), NEW g \in Grids
  PROVE  Picture(A) = Picture(B) <=> Alike(A, B, g, {})
<1> DEFINE look(r) == [i \in Grids |-> <<r.grids[i].w, r.grids[i].h, r.grids[i].cells, r.grids[i].cursor>>]
<1>1. Picture(A) = Picture(B) <=>
        look(A) = look(B) /\ A.placed = B.placed /\ A.cursor = B.cursor
          /\ A.mode = B.mode /\ A.cmdline = B.cmdline
  BY DEF Picture
<1>2. look(A) = look(B) <=> \A i \in Grids : look(A)[i] = look(B)[i]
  OBVIOUS
<1>3. ASSUME NEW i \in Grids
      PROVE  look(A)[i] = look(B)[i] <=> GridsAlike(A.grids[i], B.grids[i], {})
  <2> DEFINE a == A.grids[i]
             b == B.grids[i]
  <2>1. a.cells = [p \in Places(a.w, a.h) |-> a.cells[p]] /\ b.cells = [p \in Places(b.w, b.h) |-> b.cells[p]]
    BY DEF IsReg, IsGrid
  <2>2. look(A)[i] = look(B)[i] <=> a.w = b.w /\ a.h = b.h /\ a.cells = b.cells /\ a.cursor = b.cursor
    OBVIOUS
  <2> HIDE DEF look, a, b
  <2>3. look(A)[i] = look(B)[i] <=> GridsAlike(a, b, {})
    BY <2>1, <2>2 DEF GridsAlike
  <2>4. QED
    BY <2>3 DEF a, b
<1> HIDE DEF look
<1>4. QED
  BY <1>1, <1>2, <1>3 DEF Alike

-----------------------------------------------------------------------------
(* The buffer's trail.                                                     *)

IsSeq(s) == Len(s) \in Nat /\ s = [i \in 1..Len(s) |-> s[i]]

LEMMA SeqOfItsOwn ==
  ASSUME NEW s, IsSeq(s)
  PROVE  \E S : s \in Seq(S)
<1> DEFINE S == {s[i] : i \in 1..Len(s)}
<1>1. s \in [1..Len(s) -> S]
  BY DEF IsSeq
<1> HIDE DEF S
<1>2. s \in Seq(S)
  BY <1>1 DEF IsSeq
<1>3. QED
  BY <1>2

LEMMA SeqIs ==
  ASSUME NEW S, NEW s \in Seq(S)
  PROVE  IsSeq(s)
BY DEF IsSeq

LEMMA AppendIs ==
  ASSUME NEW s, IsSeq(s), NEW x
  PROVE  /\ IsSeq(Append(s, x)) /\ Len(Append(s, x)) = Len(s) + 1
         /\ \A i \in 1..Len(s) : Append(s, x)[i] = s[i]
         /\ Append(s, x)[Len(s) + 1] = x
<1>1. PICK S : s \in Seq(S)
  BY SeqOfItsOwn
<1> DEFINE T == S \cup {x}
<1>2. s \in Seq(T) /\ x \in T
  BY <1>1
<1> HIDE DEF T
<1>3. Append(s, x) \in Seq(T) /\ Len(Append(s, x)) = Len(s) + 1 /\ Len(s) \in Nat
  BY <1>2
<1>4. \A i \in 1..Len(s) + 1 : Append(s, x)[i] = IF i = Len(s) + 1 THEN x ELSE s[i]
  BY <1>2, <1>3
<1>5. IsSeq(Append(s, x))
  BY <1>3, SeqIs
<1>6. QED
  BY <1>3, <1>4, <1>5

LEMMA SubSeqIs ==
  ASSUME NEW s, IsSeq(s), NEW k \in 0..Len(s)
  PROVE  /\ IsSeq(SubSeq(s, k + 1, Len(s))) /\ Len(SubSeq(s, k + 1, Len(s))) = Len(s) - k
         /\ \A i \in 1..Len(s) - k : SubSeq(s, k + 1, Len(s))[i] = s[k + i]
<1>1. PICK S : s \in Seq(S)
  BY SeqOfItsOwn
<1>2. Len(s) \in Nat
  BY DEF IsSeq
<1>3. SubSeq(s, k + 1, Len(s)) \in Seq(S) /\ Len(SubSeq(s, k + 1, Len(s))) = Len(s) - k
  BY <1>1, <1>2
<1>4. \A i \in 1..Len(s) - k : SubSeq(s, k + 1, Len(s))[i] = s[k + i]
  BY <1>1, <1>2, <1>3
<1>5. QED
  BY <1>3, <1>4, SeqIs

(* A set of naturals that is not empty has a least member: of the intervals *)
(* its members end, one contains no other.                                  *)
LEMMA NatMin ==
  ASSUME NEW T \in SUBSET Nat, T # {}
  PROVE  \E x \in T : \A y \in T : x <= y
<1> DEFINE F == {1 .. x : x \in T}
<1>1. \A x \in T : x \in Nat /\ 1 .. x \in FiniteSubsetsOf(Nat)
  <2>1. SUFFICES ASSUME NEW x \in T PROVE x \in Nat /\ 1 .. x \in FiniteSubsetsOf(Nat)
    OBVIOUS
  <2>2. IsFiniteSet(1 .. x)
    BY FS_Interval
  <2>3. QED
    BY <2>2 DEF FiniteSubsetsOf
<1>2. F \subseteq FiniteSubsetsOf(Nat) /\ F # {}
  BY <1>1
<1>3. PICK m \in F : \A y \in F : <<y, m>> \notin StrictSubsetOrdering(Nat)
  <2> HIDE DEF F
  <2>1. IsWellFoundedOn(StrictSubsetOrdering(Nat), FiniteSubsetsOf(Nat))
    BY FS_StrictSubsetOrderingWellFounded
  <2>2. QED
    BY <2>1, <1>2, WFMin
<1>4. PICK x \in T : m = 1 .. x
  BY <1>3
<1>5. \A y \in T : x <= y
  <2>1. SUFFICES ASSUME NEW y \in T, y < x PROVE FALSE
    BY <1>1
  <2>2. x \in Nat /\ y \in Nat
    BY <1>1
  <2>3. (1 .. y) \subseteq (1 .. x) /\ x \in 1 .. x /\ x \notin 1 .. y
    BY <2>1, <2>2
  <2>4. 1 .. y \in F
    BY <2>1
  <2>5. 1 .. y \in SUBSET Nat /\ 1 .. x \in SUBSET Nat
    BY <2>2
  <2>6. 1 .. y # 1 .. x
    BY <2>3
  <2>7. <<1 .. y, 1 .. x>> \in StrictSubsetOrdering(Nat)
    BY <2>3, <2>5, <2>6 DEF StrictSubsetOrdering
  <2>8. QED
    BY <2>7, <2>4, <1>3, <1>4
<1>6. QED
  BY <1>5

(* The trail is what its definition says, for every buffer: one entry after *)
(* the other, each made from the one before it.                            *)
Follows(r, s, n, t) ==
  t = [i \in 0..n |-> IF i = 0 THEN r
                      ELSE IF s[i].alive THEN Apply(t[i - 1], s[i].event)
                      ELSE t[i - 1]]

LEMMA TrailExists ==
  ASSUME NEW r, NEW s, NEW n \in Nat
  PROVE  \E t : Follows(r, s, n, t)
<1> DEFINE T == {k \in Nat : ~\E t : Follows(r, s, k, t)}
<1>1. SUFFICES ASSUME T # {} PROVE FALSE
  BY <1>1
<1>2. PICK k \in T : \A j \in T : k <= j
  BY <1>1, NatMin
<1>3. CASE k = 0
  <2>1. Follows(r, s, 0, [i \in 0..0 |-> r])
    BY DEF Follows
  <2>2. QED
    BY <2>1, <1>2, <1>3
<1>4. CASE k # 0
  <2>1. k \in Nat /\ k - 1 \in Nat /\ k - 1 \notin T
    BY <1>2, <1>4
  <2>2. PICK t : Follows(r, s, k - 1, t)
    BY <2>1
  <2> DEFINE next == IF s[k].alive THEN Apply(t[k - 1], s[k].event) ELSE t[k - 1]
             u == [i \in 0..k |-> IF i = k THEN next ELSE t[i]]
  <2>3. \A i \in 0..k - 1 : t[i] = IF i = 0 THEN r
                                   ELSE IF s[i].alive THEN Apply(t[i - 1], s[i].event)
                                   ELSE t[i - 1]
    BY <2>2 DEF Follows
  <2>4. \A i \in 0..k : u[i] = IF i = 0 THEN r
                               ELSE IF s[i].alive THEN Apply(u[i - 1], s[i].event)
                               ELSE u[i - 1]
    <3>1. SUFFICES ASSUME NEW i \in 0..k
                   PROVE  u[i] = IF i = 0 THEN r
                                 ELSE IF s[i].alive THEN Apply(u[i - 1], s[i].event)
                                 ELSE u[i - 1]
      OBVIOUS
    <3>2. i # 0 => i - 1 \in 0..k /\ i - 1 # k
      BY <2>1
    <3>3. CASE i = k
      BY <3>2, <3>3, <1>4
    <3>4. CASE i # k
      <4>1. i \in 0..k - 1
        BY <2>1, <3>4
      <4>2. QED
        BY <2>3, <3>2, <3>4, <4>1
    <3>5. QED
      BY <3>3, <3>4
  <2>5. u = [i \in 0..k |-> u[i]]
    OBVIOUS
  <2> HIDE DEF u
  <2>6. Follows(r, s, k, u)
    BY <2>4, <2>5 DEF Follows
  <2>7. QED
    BY <2>6, <1>2
<1>5. QED
  BY <1>3, <1>4

LEMMA TrailIs ==
  ASSUME NEW r, NEW s, Len(s) \in Nat
  PROVE  LET t == Trail(r, s)
         IN  /\ t[0] = r
             /\ \A i \in 1..Len(s) :
                  t[i] = IF s[i].alive THEN Apply(t[i - 1], s[i].event) ELSE t[i - 1]
<1> DEFINE t == Trail(r, s)
<1>1. Trail(r, s) = CHOOSE u : Follows(r, s, Len(s), u)
  BY Zenon DEF Trail, Follows
<1>2. Follows(r, s, Len(s), t)
  BY <1>1, TrailExists
<1> HIDE DEF t
<1>3. \A i \in 0..Len(s) : t[i] = IF i = 0 THEN r
                                  ELSE IF s[i].alive THEN Apply(t[i - 1], s[i].event)
                                  ELSE t[i - 1]
  BY <1>2 DEF Follows
<1>4. QED
  BY <1>3 DEF t

Entries(s) ==
  \A i \in 1..Len(s) :
    /\ s[i].alive \in BOOLEAN /\ IsStep(s[i].event)
    /\ DOMAIN s[i] = {"event", "alive", "barrier", "scroll"}

LEMMA TrailOfRegs ==
  ASSUME NEW r, IsReg(r), NEW s, Len(s) \in Nat, Entries(s)
  PROVE  \A i \in 0..Len(s) : IsReg(Trail(r, s)[i])
<1> DEFINE t == Trail(r, s)
           T == {i \in 0..Len(s) : ~IsReg(t[i])}
<1>1. /\ t[0] = r
      /\ \A i \in 1..Len(s) : t[i] = IF s[i].alive THEN Apply(t[i - 1], s[i].event) ELSE t[i - 1]
  BY TrailIs
<1> HIDE DEF t
<1>2. SUFFICES ASSUME T # {} PROVE FALSE
  BY DEF t
<1>3. T \in SUBSET Nat
  OBVIOUS
<1>4. PICK k \in T : \A j \in T : k <= j
  <2> HIDE DEF T
  <2>1. QED
    BY <1>2, <1>3, NatMin
<1>5. k \in 1..Len(s) /\ k - 1 \in 0..Len(s) /\ k - 1 \notin T
  BY <1>1, <1>4
<1>6. IsReg(t[k - 1])
  BY <1>5
<1>7. IsReg(t[k])
  BY <1>1, <1>5, <1>6, ApplyIs DEF Entries
<1>8. QED
  BY <1>4, <1>7

(* Two buffers with the same events in front have the same trail there.    *)
LEMMA TrailAgrees ==
  ASSUME NEW r, NEW s, Len(s) \in Nat, NEW q, Len(q) \in Nat,
         NEW n \in Nat, n <= Len(s), n <= Len(q),
         \A i \in 1..n : s[i].alive = q[i].alive /\ s[i].event = q[i].event
  PROVE  \A i \in 0..n : Trail(r, s)[i] = Trail(r, q)[i]
<1> DEFINE t == Trail(r, s)
           u == Trail(r, q)
           T == {i \in 0..n : t[i] # u[i]}
<1>1. /\ t[0] = r
      /\ \A i \in 1..Len(s) : t[i] = IF s[i].alive THEN Apply(t[i - 1], s[i].event) ELSE t[i - 1]
  BY TrailIs
<1>2. /\ u[0] = r
      /\ \A i \in 1..Len(q) : u[i] = IF q[i].alive THEN Apply(u[i - 1], q[i].event) ELSE u[i - 1]
  BY TrailIs
<1> HIDE DEF t, u
<1>3. SUFFICES ASSUME T # {} PROVE FALSE
  BY DEF t, u
<1>4. T \in SUBSET Nat
  OBVIOUS
<1>5. PICK k \in T : \A j \in T : k <= j
  <2> HIDE DEF T
  <2>1. QED
    BY <1>3, <1>4, NatMin
<1>6. k \in 1..n /\ k - 1 \in 0..n /\ k - 1 \notin T /\ k \in 1..Len(s) /\ k \in 1..Len(q)
  BY <1>1, <1>2, <1>5
<1>7. t[k - 1] = u[k - 1]
  BY <1>6
<1>8. t[k] = u[k]
  BY <1>1, <1>2, <1>6, <1>7
<1>9. QED
  BY <1>5, <1>8

(* What is left after a drain goes on where the drain stopped.             *)
LEMMA TrailGoesOn ==
  ASSUME NEW r, NEW s, IsSeq(s), NEW k \in 0..Len(s)
  PROVE  \A i \in 0..Len(s) - k :
           Trail(Trail(r, s)[k], SubSeq(s, k + 1, Len(s)))[i] = Trail(r, s)[k + i]
<1> DEFINE t == Trail(r, s)
           q == SubSeq(s, k + 1, Len(s))
           u == Trail(t[k], q)
           n == Len(s) - k
           T == {i \in 0..n : u[i] # t[k + i]}
<1>1. Len(s) \in Nat /\ n \in Nat
  BY DEF IsSeq
<1>2. /\ Len(q) = n /\ \A i \in 1..n : q[i] = s[k + i]
  BY SubSeqIs
<1>3. /\ t[0] = r
      /\ \A i \in 1..Len(s) : t[i] = IF s[i].alive THEN Apply(t[i - 1], s[i].event) ELSE t[i - 1]
  BY <1>1, TrailIs
<1> HIDE DEF t, q
<1>4. /\ u[0] = t[k]
      /\ \A i \in 1..Len(q) : u[i] = IF q[i].alive THEN Apply(u[i - 1], q[i].event) ELSE u[i - 1]
  BY <1>1, <1>2, TrailIs
<1> HIDE DEF u
<1>5. SUFFICES ASSUME T # {} PROVE FALSE
  BY DEF t, u, q
<1>6. T \in SUBSET Nat
  BY <1>1
<1>7. PICK m \in T : \A j \in T : m <= j
  <2> HIDE DEF T
  <2>1. QED
    BY <1>5, <1>6, NatMin
<1>8. m \in 1..n /\ m - 1 \in 0..n /\ m - 1 \notin T
  BY <1>1, <1>4, <1>7
<1>9. u[m - 1] = t[k + (m - 1)]
  BY <1>8
<1>10. k + m \in 1..Len(s) /\ (k + m) - 1 = k + (m - 1)
  BY <1>1, <1>8
<1>11. u[m] = t[k + m]
  BY <1>2, <1>3, <1>4, <1>8, <1>9, <1>10, SMTT(30)
<1>12. QED
  BY <1>7, <1>11

(* A later registry that looks the same takes the same pictures.           *)
LEMMA TrailAlike ==
  ASSUME NEW A, IsReg(A), NEW B, IsReg(B), NEW g \in Grids, Alike(A, B, g, {}),
         NEW s, Len(s) \in Nat, Entries(s)
  PROVE  \A i \in 0..Len(s) : Alike(Trail(A, s)[i], Trail(B, s)[i], g, {})
<1> DEFINE t == Trail(A, s)
           u == Trail(B, s)
           T == {i \in 0..Len(s) : ~Alike(t[i], u[i], g, {})}
<1>1. /\ t[0] = A
      /\ \A i \in 1..Len(s) : t[i] = IF s[i].alive THEN Apply(t[i - 1], s[i].event) ELSE t[i - 1]
  BY TrailIs
<1>2. /\ u[0] = B
      /\ \A i \in 1..Len(s) : u[i] = IF s[i].alive THEN Apply(u[i - 1], s[i].event) ELSE u[i - 1]
  BY TrailIs
<1>3. \A i \in 0..Len(s) : IsReg(t[i]) /\ IsReg(u[i])
  BY TrailOfRegs
<1> HIDE DEF t, u
<1>4. SUFFICES ASSUME T # {} PROVE FALSE
  BY DEF t, u
<1>5. T \in SUBSET Nat
  OBVIOUS
<1>6. PICK k \in T : \A j \in T : k <= j
  <2> HIDE DEF T
  <2>1. QED
    BY <1>4, <1>5, NatMin
<1>7. k \in 1..Len(s) /\ k - 1 \in 0..Len(s) /\ k - 1 \notin T
  BY <1>1, <1>2, <1>6
<1>8. Alike(t[k - 1], u[k - 1], g, {})
  BY <1>7
<1>9. Alike(t[k], u[k], g, {})
  <2>1. Alike(Apply(t[k - 1], s[k].event), Apply(u[k - 1], s[k].event), g, {})
    BY <1>3, <1>7, <1>8, ApplyAlike DEF Entries
  <2>2. QED
    BY <1>1, <1>2, <1>7, <1>8, <2>1
<1>10. QED
  BY <1>6, <1>9

(* Leaving out an entry of s that q has lost. *)
Lost(s, q, i) == s[i].alive /\ ~q[i].alive

Covered(e, g, X) ==
  /\ e \in UiEvent /\ e.grid = g
  /\ \/ e.kind = "line" /\ Written(e) \subseteq X
     \/ e.kind \in {"line", "scroll", "clear"} /\ Everywhere \subseteq X

(* A buffer that has lost entries differs only where those would have       *)
(* written, if no scroll of the grid follows one of them.                   *)
LEMMA TrailWithout ==
  ASSUME NEW r, IsReg(r), NEW s, NEW q, Len(s) \in Nat, Len(q) = Len(s), Entries(s), Entries(q),
         NEW g \in Grids, NEW X,
         \A i \in 1..Len(s) : /\ s[i].event = q[i].event
                              /\ \/ s[i].alive = q[i].alive
                                 \/ Lost(s, q, i) /\ Covered(s[i].event, g, X),
         \A i, j \in 1..Len(s) :
           i < j /\ Lost(s, q, i) /\ s[j].event.kind = "scroll" /\ s[j].event.grid = g
             => Everywhere \subseteq X
  PROVE  Alike(Trail(r, q)[Len(s)], Trail(r, s)[Len(s)], g, X)
<1> DEFINE t == Trail(r, s)
           u == Trail(r, q)
           Z(i) == IF \E j \in 1..i : Lost(s, q, j) THEN X ELSE {}
           T == {i \in 0..Len(s) : ~Alike(u[i], t[i], g, Z(i))}
<1>1. /\ t[0] = r
      /\ \A i \in 1..Len(s) : t[i] = IF s[i].alive THEN Apply(t[i - 1], s[i].event) ELSE t[i - 1]
  BY TrailIs
<1>2. /\ u[0] = r
      /\ \A i \in 1..Len(s) : u[i] = IF q[i].alive THEN Apply(u[i - 1], q[i].event) ELSE u[i - 1]
  BY TrailIs
<1>3. \A i \in 0..Len(s) : IsReg(t[i]) /\ IsReg(u[i])
  BY TrailOfRegs
<1> HIDE DEF t, u
<1>4. T = {}
  <2>1. SUFFICES ASSUME T # {} PROVE FALSE
    BY DEF t, u
  <2>2. T \in SUBSET Nat
    OBVIOUS
  <2>3. PICK k \in T : \A j \in T : k <= j
    <3> HIDE DEF T
    <3>1. QED
      BY <2>1, <2>2, NatMin
  <2>4. Alike(r, r, g, {})
    BY DEF Alike, GridsAlike
  <2>5. Z(0) = {}
    OBVIOUS
  <2>6. k # 0
    BY <1>1, <1>2, <2>3, <2>4, <2>5
  <2>7. k \in 1..Len(s) /\ k - 1 \in 0..Len(s) /\ k - 1 \notin T
    BY <2>3, <2>6
  <2>8. Alike(u[k - 1], t[k - 1], g, Z(k - 1))
    BY <2>7
  <2>9. s[k].event = q[k].event /\ IsStep(s[k].event)
    BY <2>7 DEF Entries
  <2>10. CASE s[k].alive = q[k].alive
    <3>1. Z(k) = Z(k - 1)
      BY <2>7, <2>10 DEF Lost
    <3>2. s[k].event.kind = "scroll" /\ s[k].event.grid = g
            => Z(k - 1) = {} \/ Everywhere \subseteq Z(k - 1)
      BY <2>7
    <3> HIDE DEF Z
    <3>3. Alike(Apply(u[k - 1], s[k].event), Apply(t[k - 1], s[k].event), g, Z(k - 1))
      BY <1>3, <2>7, <2>8, <2>9, <3>2, ApplyAlike
    <3>4. Alike(u[k], t[k], g, Z(k))
      BY <1>1, <1>2, <2>7, <2>8, <2>9, <2>10, <3>1, <3>3
    <3>5. QED
      BY <2>3, <3>4
  <2>11. CASE Lost(s, q, k) /\ Covered(s[k].event, g, X)
    <3>1. Z(k) = X /\ (Z(k - 1) = {} \/ Z(k - 1) = X)
      BY <2>7, <2>11
    <3>2. Alike(u[k - 1], t[k - 1], g, X)
      BY <2>8, <3>1 DEF Alike, GridsAlike
    <3> HIDE DEF Z
    <3>3. Alike(u[k - 1], Apply(t[k - 1], s[k].event), g, X)
      BY <1>3, <2>7, <2>11, <3>2, ApplyOnce DEF Covered
    <3>4. Alike(u[k], t[k], g, X)
      BY <1>1, <1>2, <2>7, <2>9, <2>11, <3>3 DEF Lost
    <3>5. QED
      BY <2>3, <3>1, <3>4
  <2>12. QED
    BY <2>7, <2>10, <2>11
<1>5. Alike(u[Len(s)], t[Len(s)], g, Z(Len(s)))
  BY <1>4
<1>6. Z(Len(s)) = X \/ Z(Len(s)) = {}
  OBVIOUS
<1> HIDE DEF Z
<1>7. Alike(u[Len(s)], t[Len(s)], g, X)
  BY <1>5, <1>6 DEF Alike, GridsAlike
<1>8. QED
  BY <1>7 DEF t, u

-----------------------------------------------------------------------------
(* Between the buffer, the epochs, the registry and nvim's own: the buffer  *)
(* is flushed up to flushIndex and no further, and every barrier stands at  *)
(* a Flush.                                                                *)
BufferIs(s, f, bs) ==
  /\ IsSeq(s) /\ Entries(s)
  /\ f \in 0..Len(s)
  /\ f > 0 => s[f].event.kind = "flush"
  /\ \A i \in f + 1..Len(s) : s[i].event.kind # "flush"
  /\ bs \in Seq(Nat)
  /\ \A i \in 1..Len(bs) : bs[i] <= f /\ (bs[i] > 0 => s[bs[i]].event.kind = "flush")

(* A scroll's epoch is later than that of everything on its grid before it. *)
EpochsAre(s, ep) ==
  /\ ep \in [Grids -> [barrier : Nat, scroll : Nat]]
  /\ \A i \in 1..Len(s) :
       /\ s[i].scroll \in Nat
       /\ s[i].event.kind \in CellKinds => s[i].scroll <= ep[s[i].event.grid].scroll
  /\ \A i, j \in 1..Len(s) :
       /\ i < j /\ s[j].event.kind = "scroll"
       /\ s[i].event.kind \in CellKinds /\ s[i].event.grid = s[j].event.grid
       => s[i].scroll < s[j].scroll

(* Applied as far as any of its Flushes, the buffer shows what nvim meant   *)
(* there; applied to its end, what nvim means now.                         *)
FramesAre(s, r, w, sh) ==
  /\ IsReg(r) /\ IsReg(w) /\ Picture(r) = sh
  /\ \A i \in 1..Len(s) :
       s[i].event.kind = "flush" => Picture(Trail(r, s)[i]) = s[i].event.shows
  /\ Alike(Trail(r, s)[Len(s)], w, Global, {})

FrameInv ==
  /\ BufferIs(staged, flushIndex, barriers)
  /\ EpochsAre(staged, epochs)
  /\ FramesAre(staged, reg, wire, shown)
  /\ nr \in Nat

(* The staged events after a fold, ahead of the one folded.                *)
Left(e) ==
  [i \in DOMAIN staged |->
     IF i >= CompactionStart /\ Superseded(staged[i], e)
     THEN [staged[i] EXCEPT !.alive = FALSE] ELSE staged[i]]

EpochOf(e) == IF e.kind \in CellKinds THEN EpochsAfter(e)[e.grid] ELSE [barrier |-> 0, scroll |-> 0]

LEMMA LeftIs ==
  ASSUME BufferIs(staged, flushIndex, barriers), NEW e
  PROVE  /\ IsSeq(Left(e)) /\ Entries(Left(e)) /\ Len(Left(e)) = Len(staged)
         /\ \A i \in 1..Len(staged) :
              /\ Left(e)[i].event = staged[i].event
              /\ Left(e)[i].scroll = staged[i].scroll /\ Left(e)[i].barrier = staged[i].barrier
              /\ Left(e)[i].alive # staged[i].alive
                   => i >= CompactionStart /\ Superseded(staged[i], e) /\ ~Left(e)[i].alive
<1>1. Len(staged) \in Nat /\ DOMAIN staged = 1..Len(staged) /\ Entries(staged)
  BY DEF BufferIs, IsSeq
<1> DEFINE q == Left(e)
           T == {q[i] : i \in 1..Len(staged)}
<1>2. q = [i \in 1..Len(staged) |-> q[i]]
  BY <1>1 DEF Left
<1>3. \A i \in 1..Len(staged) :
        q[i] = IF i >= CompactionStart /\ Superseded(staged[i], e)
               THEN [staged[i] EXCEPT !.alive = FALSE] ELSE staged[i]
  BY <1>1 DEF Left
<1> HIDE DEF q
<1>4. q \in [1..Len(staged) -> T]
  BY <1>2
<1> HIDE DEF T
<1>5. q \in Seq(T) /\ Len(q) = Len(staged)
  BY <1>1, <1>4
<1>6. IsSeq(q)
  BY <1>5, SeqIs
<1>7. ASSUME NEW i \in 1..Len(staged)
      PROVE  /\ q[i].event = staged[i].event
             /\ q[i].scroll = staged[i].scroll /\ q[i].barrier = staged[i].barrier
             /\ q[i].alive \in BOOLEAN /\ DOMAIN q[i] = {"event", "alive", "barrier", "scroll"}
             /\ q[i].alive # staged[i].alive
                  => i >= CompactionStart /\ Superseded(staged[i], e) /\ ~q[i].alive
  <2>1. staged[i].alive \in BOOLEAN /\ DOMAIN staged[i] = {"event", "alive", "barrier", "scroll"}
    BY <1>1 DEF Entries
  <2>2. CASE i >= CompactionStart /\ Superseded(staged[i], e)
    <3>1. q[i] = [staged[i] EXCEPT !.alive = FALSE]
      BY <1>3, <2>2
    <3>2. QED
      BY <2>1, <2>2, <3>1
  <2>3. CASE ~(i >= CompactionStart /\ Superseded(staged[i], e))
    <3>1. q[i] = staged[i]
      BY <1>3, <2>3
    <3>2. QED
      BY <2>1, <3>1
  <2>4. QED
    BY <2>2, <2>3
<1>8. Entries(q)
  BY <1>1, <1>5, <1>7 DEF Entries
<1>9. QED
  BY <1>5, <1>6, <1>7, <1>8 DEF q

LEMMA FoldedIs ==
  ASSUME BufferIs(staged, flushIndex, barriers), NEW e, FoldOne(e)
  PROVE  LET n == Len(staged)
         IN  /\ IsSeq(staged') /\ Len(staged') = n + 1 /\ n \in Nat
             /\ \A i \in 1..n : staged'[i] = Left(e)[i]
             /\ staged'[n + 1] = [event |-> e, alive |-> TRUE, barrier |-> EpochOf(e).barrier,
                                  scroll |-> EpochOf(e).scroll]
             /\ \A i \in 1..n : staged'[i].event = staged[i].event /\ staged'[i].scroll = staged[i].scroll
             /\ staged'[n + 1].event = e /\ staged'[n + 1].scroll = EpochOf(e).scroll
             /\ staged'[n + 1].alive = TRUE
             /\ \A i \in 1..n + 1 : i \in 1..n \/ i = n + 1
<1> DEFINE x == [event |-> e, alive |-> TRUE, barrier |-> EpochOf(e).barrier, scroll |-> EpochOf(e).scroll]
           q == Left(e)
<1>1. staged' = Append(q, x)
  BY DEF FoldOne, Left, EpochOf
<1>2. IsSeq(q) /\ Len(q) = Len(staged) /\ Len(staged) \in Nat
  BY LeftIs DEF BufferIs, IsSeq
<1>3. \A i \in 1..Len(staged) : q[i].event = staged[i].event /\ q[i].scroll = staged[i].scroll
  BY LeftIs
<1> HIDE DEF x, q
<1>4. QED
  BY <1>1, <1>2, <1>3, AppendIs DEF x, q

LEMMA EpochsGrow ==
  ASSUME EpochsAre(staged, epochs), NEW e, IsStep(e)
  PROVE  /\ EpochsAfter(e) \in [Grids -> [barrier : Nat, scroll : Nat]]
         /\ \A g \in Grids : epochs[g].scroll <= EpochsAfter(e)[g].scroll
         /\ e.kind \in CellKinds => EpochOf(e) = EpochsAfter(e)[e.grid]
         /\ e.kind = "scroll" => EpochOf(e).scroll = epochs[e.grid].scroll + 1
         /\ EpochOf(e).scroll \in Nat
         /\ e.kind \in CellKinds => e.grid \in Grids
<1>1. epochs \in [Grids -> [barrier : Nat, scroll : Nat]]
  BY DEF EpochsAre
<1>2. e.kind \in CellKinds => e.grid \in Grids
  BY Kinds, CellFields DEF CellKinds
<1>3. CASE e.kind = "resize"
  <2>1. EpochsAfter(e) = [epochs EXCEPT ![e.grid] = [barrier |-> @.barrier + 1, scroll |-> @.scroll + 1]]
    BY <1>3 DEF EpochsAfter
  <2>2. e.grid \in Grids
    BY <1>2, <1>3 DEF CellKinds
  <2>3. QED
    BY <1>1, <1>3, <2>1, <2>2 DEF EpochOf, CellKinds
<1>4. CASE e.kind = "scroll"
  <2>1. EpochsAfter(e) = [epochs EXCEPT ![e.grid].scroll = @ + 1]
    BY <1>4 DEF EpochsAfter
  <2>2. e.grid \in Grids
    BY <1>2, <1>4 DEF CellKinds
  <2>3. QED
    BY <1>1, <1>4, <2>1, <2>2 DEF EpochOf, CellKinds
<1>5. CASE e.kind \notin {"resize", "scroll"}
  <2>1. EpochsAfter(e) = epochs
    BY <1>5 DEF EpochsAfter
  <2>2. QED
    BY <1>1, <1>2, <1>5, <2>1 DEF EpochOf
<1>6. QED
  BY <1>3, <1>4, <1>5

LEMMA FoldKeepsEpochs ==
  ASSUME BufferIs(staged, flushIndex, barriers), EpochsAre(staged, epochs),
         NEW e, IsStep(e), FoldOne(e)
  PROVE  EpochsAre(staged', epochs')
<1> DEFINE n == Len(staged)
           s == staged'
           ep == EpochsAfter(e)
<1>1. /\ Len(s) = n + 1 /\ n \in Nat
      /\ \A i \in 1..n : s[i].event = staged[i].event /\ s[i].scroll = staged[i].scroll
      /\ s[n + 1].event = e /\ s[n + 1].scroll = EpochOf(e).scroll
      /\ \A i \in 1..n + 1 : i \in 1..n \/ i = n + 1
  BY FoldedIs
<1>2. /\ ep \in [Grids -> [barrier : Nat, scroll : Nat]]
      /\ \A g \in Grids : epochs[g].scroll <= ep[g].scroll
      /\ e.kind \in CellKinds => EpochOf(e) = ep[e.grid] /\ e.grid \in Grids
      /\ e.kind = "scroll" => EpochOf(e).scroll = epochs[e.grid].scroll + 1
      /\ EpochOf(e).scroll \in Nat
  BY EpochsGrow
<1>3. epochs' = ep
  BY DEF FoldOne
<1>4. /\ epochs \in [Grids -> [barrier : Nat, scroll : Nat]]
      /\ \A i \in 1..n : staged[i].scroll \in Nat
      /\ \A i \in 1..n : staged[i].event.kind \in CellKinds
                           => /\ staged[i].event.grid \in Grids
                              /\ staged[i].scroll <= epochs[staged[i].event.grid].scroll
      /\ \A i, j \in 1..n :
           /\ i < j /\ staged[j].event.kind = "scroll"
           /\ staged[i].event.kind \in CellKinds /\ staged[i].event.grid = staged[j].event.grid
           => staged[i].scroll < staged[j].scroll
  <2>1. \A i \in 1..n : staged[i].event.kind \in CellKinds => staged[i].event.grid \in Grids
    BY EpochsGrow DEF BufferIs, Entries
  <2>2. QED
    BY <2>1 DEF EpochsAre
<1> HIDE DEF n, s, ep
<1>5. \A i \in 1..n + 1 :
        /\ s[i].scroll \in Nat
        /\ s[i].event.kind \in CellKinds => s[i].scroll <= ep[s[i].event.grid].scroll
  <2>1. SUFFICES ASSUME NEW i \in 1..n + 1
                 PROVE  /\ s[i].scroll \in Nat
                        /\ s[i].event.kind \in CellKinds => s[i].scroll <= ep[s[i].event.grid].scroll
    OBVIOUS
  <2>2. CASE i \in 1..n
    <3>1. s[i].scroll \in Nat /\ s[i].event = staged[i].event /\ s[i].scroll = staged[i].scroll
      BY <1>1, <1>4, <2>2
    <3>2. ASSUME s[i].event.kind \in CellKinds PROVE s[i].scroll <= ep[s[i].event.grid].scroll
      <4> DEFINE g == s[i].event.grid
      <4>1. g \in Grids /\ s[i].scroll <= epochs[g].scroll
        BY <1>4, <2>2, <3>1, <3>2
      <4>2. epochs[g].scroll <= ep[g].scroll /\ epochs[g].scroll \in Nat /\ ep[g].scroll \in Nat
        BY <1>2, <1>4, <4>1
      <4> HIDE DEF g
      <4>3. s[i].scroll <= ep[g].scroll
        BY <3>1, <4>1, <4>2
      <4>4. QED
        BY <4>3 DEF g
    <3>3. QED
      BY <3>1, <3>2
  <2>3. CASE i = n + 1
    <3>1. s[i].event = e /\ s[i].scroll = EpochOf(e).scroll
      BY <1>1, <2>3
    <3>2. QED
      BY <1>2, <3>1
  <2>4. QED
    BY <1>1, <2>2, <2>3
<1>6. \A i, j \in 1..n + 1 :
        /\ i < j /\ s[j].event.kind = "scroll"
        /\ s[i].event.kind \in CellKinds /\ s[i].event.grid = s[j].event.grid
        => s[i].scroll < s[j].scroll
  <2>1. SUFFICES ASSUME NEW i \in 1..n + 1, NEW j \in 1..n + 1, i < j, s[j].event.kind = "scroll",
                        s[i].event.kind \in CellKinds, s[i].event.grid = s[j].event.grid
                 PROVE  s[i].scroll < s[j].scroll
    OBVIOUS
  <2>2. i \in 1..n
    BY <1>1, <2>1
  <2>3. s[i].event = staged[i].event /\ s[i].scroll = staged[i].scroll
    BY <1>1, <2>2
  <2>4. CASE j \in 1..n
    <3>1. s[j].event = staged[j].event /\ s[j].scroll = staged[j].scroll
      BY <1>1, <2>4
    <3>2. QED
      BY <1>4, <2>1, <2>2, <2>3, <2>4, <3>1
  <2>5. CASE j = n + 1
    <3>1. s[j].event = e /\ s[j].scroll = epochs[e.grid].scroll + 1
      BY <1>1, <1>2, <2>1, <2>5
    <3>2. e.grid \in Grids /\ epochs[e.grid].scroll \in Nat
      BY <1>2, <1>4, <2>1, <3>1 DEF CellKinds
    <3>3. s[i].scroll <= epochs[e.grid].scroll /\ s[i].scroll \in Nat
      BY <1>4, <2>1, <2>2, <2>3, <3>1
    <3>4. QED
      BY <3>1, <3>2, <3>3
  <2>6. QED
    BY <1>1, <2>4, <2>5
<1>7. QED
  BY <1>1, <1>2, <1>3, <1>5, <1>6 DEF EpochsAre, s

LEMMA FoldKeepsBuffer ==
  ASSUME BufferIs(staged, flushIndex, barriers), NEW e, IsStep(e), FoldOne(e)
  PROVE  BufferIs(staged', flushIndex', barriers')
<1> DEFINE n == Len(staged)
           s == staged'
           f == flushIndex'
<1>1. /\ IsSeq(s) /\ Len(s) = n + 1 /\ n \in Nat
      /\ \A i \in 1..n : s[i] = Left(e)[i]
      /\ \A i \in 1..n : s[i].event = staged[i].event
      /\ s[n + 1] = [event |-> e, alive |-> TRUE, barrier |-> EpochOf(e).barrier,
                     scroll |-> EpochOf(e).scroll]
      /\ \A i \in 1..n + 1 : i \in 1..n \/ i = n + 1
  BY FoldedIs
<1>2. Entries(Left(e)) /\ Len(Left(e)) = n
  BY LeftIs
<1>3. f = (IF e.kind = "flush" THEN n + 1 ELSE flushIndex) /\ barriers' = barriers
  BY DEF FoldOne
<1>4. /\ flushIndex \in 0..n
      /\ flushIndex > 0 => staged[flushIndex].event.kind = "flush"
      /\ \A i \in flushIndex + 1..n : staged[i].event.kind # "flush"
      /\ barriers \in Seq(Nat)
      /\ \A i \in 1..Len(barriers) :
           /\ barriers[i] <= flushIndex
           /\ barriers[i] > 0 => staged[barriers[i]].event.kind = "flush"
  BY DEF BufferIs
<1> HIDE DEF n, s, f
<1>5. Entries(s)
  <2>1. DOMAIN s[n + 1] = {"event", "alive", "barrier", "scroll"} /\ s[n + 1].alive \in BOOLEAN
        /\ IsStep(s[n + 1].event)
    BY <1>1
  <2>2. \A i \in 1..n : /\ s[i].alive \in BOOLEAN /\ IsStep(s[i].event)
                        /\ DOMAIN s[i] = {"event", "alive", "barrier", "scroll"}
    BY <1>1, <1>2 DEF Entries
  <2>3. QED
    BY <1>1, <2>1, <2>2 DEF Entries
<1>6. /\ f \in 0..Len(s)
      /\ f > 0 => s[f].event.kind = "flush"
  <2>1. CASE e.kind = "flush"
    <3>1. f = n + 1 /\ s[n + 1].event = e
      BY <1>1, <1>3, <2>1
    <3>2. n + 1 \in 0..n + 1
      BY <1>1
    <3>3. QED
      BY <1>1, <2>1, <3>1, <3>2
  <2>2. CASE e.kind # "flush"
    <3>1. f = flushIndex /\ f \in 0..n
      BY <1>3, <1>4, <2>2
    <3>2. f \in 0..n + 1 /\ (f > 0 => f \in 1..n)
      BY <1>1, <3>1
    <3>3. f > 0 => s[f].event = staged[f].event
      BY <1>1, <3>2
    <3>4. QED
      BY <1>1, <1>4, <3>1, <3>2, <3>3
  <2>3. QED
    BY <2>1, <2>2
<1>7. \A i \in f + 1..Len(s) : s[i].event.kind # "flush"
  <2>1. SUFFICES ASSUME NEW i \in f + 1..n + 1 PROVE s[i].event.kind # "flush"
    BY <1>1
  <2>2. e.kind # "flush" /\ f = flushIndex
    BY <1>1, <1>3, <1>4
  <2>3. CASE i = n + 1
    BY <1>1, <2>2, <2>3
  <2>4. CASE i # n + 1
    <3>1. i \in flushIndex + 1..n /\ i \in 1..n
      BY <1>1, <1>4, <2>2, <2>4
    <3>2. QED
      BY <1>1, <1>4, <3>1
  <2>5. QED
    BY <2>3, <2>4
<1>8. \A i \in 1..Len(barriers) :
        barriers[i] <= f /\ (barriers[i] > 0 => s[barriers[i]].event.kind = "flush")
  <2>1. SUFFICES ASSUME NEW i \in 1..Len(barriers)
                 PROVE  barriers[i] <= f /\ (barriers[i] > 0 => s[barriers[i]].event.kind = "flush")
    OBVIOUS
  <2>2. barriers[i] \in Nat /\ barriers[i] <= flushIndex
    BY <1>4
  <2>3. barriers[i] > 0 => barriers[i] \in 1..n
    BY <1>1, <1>4, <2>2
  <2>4. barriers[i] <= f
    BY <1>1, <1>3, <1>4, <2>2
  <2>5. QED
    BY <1>1, <1>4, <2>3, <2>4
<1>9. f \in 0..Len(s)
  BY <1>6
<1>10. QED
  BY <1>1, <1>3, <1>4, <1>5, <1>6, <1>7, <1>8, <1>9 DEF BufferIs, s, f

LEMMA AlikeIsTransitive ==
  ASSUME NEW A, NEW B, NEW C, NEW g, NEW X, Alike(A, B, g, X), Alike(B, C, g, X)
  PROVE  Alike(A, C, g, X)
BY DEF Alike, GridsAlike

LEMMA AlikeAnywhere ==
  ASSUME NEW A, NEW B, NEW g, Alike(A, B, g, {}), NEW h
  PROVE  Alike(A, B, h, {})
BY DEF Alike

(* What compaction leaves out, the event that supersedes it covers, and no  *)
(* scroll has moved it since.                                              *)
LEMMA WhatIsLost ==
  ASSUME BufferIs(staged, flushIndex, barriers), EpochsAre(staged, epochs),
         NEW e \in UiEvent, e.kind \in {"line", "clear"}
  PROVE  LET X == IF e.kind = "clear" THEN Everywhere ELSE Written(e)
             n == Len(staged)
         IN  /\ \A i \in 1..n : Superseded(staged[i], e) => Covered(staged[i].event, e.grid, X)
             /\ \A i, j \in 1..n :
                  /\ i < j /\ Superseded(staged[i], e)
                  /\ staged[j].event.kind = "scroll" /\ staged[j].event.grid = e.grid
                  => Everywhere \subseteq X
<1> DEFINE X == IF e.kind = "clear" THEN Everywhere ELSE Written(e)
           n == Len(staged)
<1>1. e.grid \in Grids
  BY CellFields DEF CellKinds
<1>2. ASSUME NEW i \in 1..n, Superseded(staged[i], e)
      PROVE  Covered(staged[i].event, e.grid, X)
  <2> DEFINE o == staged[i].event
  <2>1. IsStep(o)
    BY DEF BufferIs, Entries
  <2>2. o.kind \in {"line", "scroll", "clear"} /\ o.grid = e.grid
    BY <1>2 DEF Superseded
  <2>3. o \in UiEvent
    BY <2>1, <2>2 DEF IsStep
  <2>4. CASE e.kind = "clear"
    BY <2>2, <2>3, <2>4 DEF Covered
  <2>5. CASE e.kind = "line"
    <3>1. /\ o.kind = "line" /\ o.row = e.row
          /\ e.col <= o.col /\ e.col + e.span >= o.col + o.span
      BY <1>2, <2>5 DEF Superseded
    <3>2. /\ o.row \in Nat /\ o.col \in Nat /\ o.span \in Nat
          /\ e.row \in Nat /\ e.col \in Nat /\ e.span \in Nat
      BY <2>3, <2>5, <3>1, LineFields
    <3> HIDE DEF o
    <3>3. (o.col)..(o.col + o.span - 1) \subseteq (e.col)..(e.col + e.span - 1)
      BY <3>1, <3>2, SMTT(30)
    <3>4. Written(o) \subseteq Written(e)
      BY <3>1, <3>3 DEF Written
    <3>5. QED
      BY <2>2, <2>3, <2>5, <3>1, <3>4 DEF Covered, o
  <2>6. QED
    BY <2>4, <2>5
<1>3. ASSUME NEW i \in 1..n, NEW j \in 1..n, i < j, Superseded(staged[i], e),
             staged[j].event.kind = "scroll", staged[j].event.grid = e.grid
      PROVE  Everywhere \subseteq X
  <2>1. CASE e.kind = "clear"
    BY <2>1
  <2>2. CASE e.kind = "line"
    <3>1. /\ staged[i].event.kind = "line" /\ staged[i].event.grid = e.grid
          /\ staged[i].scroll = epochs[e.grid].scroll
      BY <1>3, <2>2 DEF Superseded
    <3>2. staged[i].scroll < staged[j].scroll
      BY <1>3, <3>1 DEF EpochsAre, CellKinds
    <3>3. staged[j].scroll <= epochs[e.grid].scroll
      BY <1>3 DEF EpochsAre, CellKinds
    <3>4. staged[i].scroll \in Nat /\ staged[j].scroll \in Nat
      BY DEF EpochsAre
    <3>5. QED
      BY <3>1, <3>2, <3>3, <3>4
  <2>3. QED
    BY <2>1, <2>2
<1>4. QED
  BY <1>2, <1>3

LEMMA FoldedTrail ==
  ASSUME BufferIs(staged, flushIndex, barriers), EpochsAre(staged, epochs),
         FramesAre(staged, reg, wire, shown), NEW e, IsStep(e), FoldOne(e)
  PROVE  LET n == Len(staged)
         IN  /\ Alike(Trail(reg, staged')[n + 1], Apply(wire, e), Global, {})
             /\ \A i \in 1..n : staged[i].event.kind = "flush"
                                  => Trail(reg, staged')[i] = Trail(reg, staged)[i]
<1> DEFINE n == Len(staged)
           q == Left(e)
           s == staged'
<1>1. /\ IsSeq(s) /\ Len(s) = n + 1 /\ n \in Nat
      /\ \A i \in 1..n : s[i] = q[i]
      /\ s[n + 1].event = e /\ s[n + 1].alive = TRUE
  BY FoldedIs
<1>2. /\ Entries(q) /\ Len(q) = n
      /\ \A i \in 1..n : q[i].event = staged[i].event
      /\ \A i \in 1..n : q[i].alive # staged[i].alive
                           => i >= flushIndex + 1 /\ Superseded(staged[i], e) /\ ~q[i].alive
  BY LeftIs DEF CompactionStart
<1>3. /\ Entries(staged) /\ flushIndex \in 0..n
      /\ \A i \in flushIndex + 1..n : staged[i].event.kind # "flush"
  BY DEF BufferIs
<1>4. IsReg(reg) /\ IsReg(wire) /\ Alike(Trail(reg, staged)[n], wire, Global, {})
  BY DEF FramesAre
<1>5. Global \in Grids
  BY DEF Grids
<1> HIDE DEF q, s
<1>6. \A i \in 0..n : Trail(reg, s)[i] = Trail(reg, q)[i]
  <2>1. n <= Len(s) /\ Len(s) \in Nat /\ n <= Len(q)
    BY <1>1, <1>2
  <2> HIDE DEF n
  <2>2. QED
    BY <1>1, <1>2, <2>1, TrailAgrees
<1>7. Trail(reg, s)[n + 1] = Apply(Trail(reg, q)[n], e)
  <2>1. Trail(reg, s)[n + 1] = Apply(Trail(reg, s)[(n + 1) - 1], e)
    <3>1. n + 1 \in 1..Len(s) /\ Len(s) \in Nat
      BY <1>1
    <3> HIDE DEF n
    <3>2. QED
      BY <1>1, <3>1, TrailIs
  <2>2. n \in 0..n /\ (n + 1) - 1 = n
    BY <1>1
  <2> HIDE DEF n
  <2>3. QED
    BY <1>6, <2>1, <2>2
<1>8. \A i \in 0..n : IsReg(Trail(reg, staged)[i]) /\ IsReg(Trail(reg, q)[i])
  <2> HIDE DEF n
  <2>1. (\A i \in 0..n : IsReg(Trail(reg, q)[i]))
    BY <1>1, <1>2, <1>4, TrailOfRegs
  <2>2. (\A i \in 0..n : IsReg(Trail(reg, staged)[i]))
    BY <1>1, <1>3, <1>4, TrailOfRegs DEF n
  <2>3. QED
    BY <2>1, <2>2
<1>9. \A i \in 1..n : staged[i].event.kind = "flush" => Trail(reg, s)[i] = Trail(reg, staged)[i]
  <2>1. SUFFICES ASSUME NEW i \in 1..n, staged[i].event.kind = "flush"
                 PROVE  Trail(reg, s)[i] = Trail(reg, staged)[i]
    OBVIOUS
  <2>2. i <= flushIndex /\ i \in Nat /\ i <= Len(q) /\ i <= Len(staged) /\ i \in 0..i /\ i \in 0..n
    BY <1>1, <1>2, <1>3, <2>1
  <2>3. \A j \in 1..i : q[j].alive = staged[j].alive /\ q[j].event = staged[j].event
    BY <1>1, <1>2, <1>3, <2>2
  <2>4. Trail(reg, q)[i] = Trail(reg, staged)[i]
    BY <1>1, <1>2, <2>2, <2>3, TrailAgrees
  <2>5. QED
    BY <1>6, <2>2, <2>4
<1>10. Alike(Apply(Trail(reg, staged)[n], e), Apply(wire, e), Global, {})
  <2>1. IsReg(Trail(reg, staged)[n])
    BY <1>1, <1>8
  <2>2. QED
    BY <1>4, <1>5, <2>1, ApplyAlike
<1>11. Alike(Apply(Trail(reg, q)[n], e), Apply(Trail(reg, staged)[n], e), Global, {})
  <2>1. CASE e.kind \in {"line", "clear"}
    <3> DEFINE X == IF e.kind = "clear" THEN Everywhere ELSE Written(e)
    <3>1. e \in UiEvent /\ e.grid \in Grids
      BY <2>1, CellFields DEF IsStep, CellKinds
    <3>2. /\ \A i \in 1..n : Superseded(staged[i], e) => Covered(staged[i].event, e.grid, X)
          /\ \A i, j \in 1..n :
               /\ i < j /\ Superseded(staged[i], e)
               /\ staged[j].event.kind = "scroll" /\ staged[j].event.grid = e.grid
               => Everywhere \subseteq X
      BY <2>1, <3>1, WhatIsLost
    <3> HIDE DEF X
    <3>3. \A i \in 1..n : /\ staged[i].event = q[i].event
                          /\ \/ staged[i].alive = q[i].alive
                             \/ Lost(staged, q, i) /\ Covered(staged[i].event, e.grid, X)
      <4>1. SUFFICES ASSUME NEW i \in 1..n, staged[i].alive # q[i].alive
                     PROVE  Lost(staged, q, i) /\ Covered(staged[i].event, e.grid, X)
        BY <1>2
      <4>2. Superseded(staged[i], e) /\ ~q[i].alive
        BY <1>2, <4>1
      <4>3. staged[i].alive
        BY <4>2 DEF Superseded
      <4>4. QED
        BY <3>2, <4>2, <4>3 DEF Lost
    <3>4. \A i, j \in 1..n :
            i < j /\ Lost(staged, q, i) /\ staged[j].event.kind = "scroll" /\ staged[j].event.grid = e.grid
              => Everywhere \subseteq X
      <4>1. \A i \in 1..n : Lost(staged, q, i) => Superseded(staged[i], e)
        BY <1>2 DEF Lost
      <4>2. QED
        BY <3>2, <4>1
    <3>5. Alike(Trail(reg, q)[n], Trail(reg, staged)[n], e.grid, X)
      BY <1>1, <1>2, <1>3, <1>4, <3>1, <3>3, <3>4, TrailWithout
    <3>6. e.kind = "clear" \/ (e.kind = "line" /\ X \subseteq Written(e))
      BY <2>1 DEF X
    <3>7. IsReg(Trail(reg, q)[n]) /\ IsReg(Trail(reg, staged)[n])
      BY <1>1, <1>8
    <3>8. QED
      BY <1>5, <3>1, <3>5, <3>6, <3>7, ApplyRestores
  <2>2. CASE e.kind \notin {"line", "clear"}
    <3>1. \A i \in 1..n : q[i].alive = staged[i].alive
      BY <1>2, <2>2 DEF Superseded
    <3>2. n <= Len(q) /\ n <= Len(staged) /\ n \in 0..n /\ Len(staged) \in Nat /\ Len(q) \in Nat
      BY <1>1, <1>2
    <3>6. \A i \in 1..n : q[i].alive = staged[i].alive /\ q[i].event = staged[i].event
      BY <1>2, <3>1
    <3> HIDE DEF n
    <3>3. Trail(reg, q)[n] = Trail(reg, staged)[n]
      BY <1>1, <3>2, <3>6, TrailAgrees
    <3>4. \A r : Alike(r, r, Global, {})
      BY DEF Alike, GridsAlike
    <3>5. QED
      BY <3>3, <3>4
  <2>3. QED
    BY <2>1, <2>2
<1>12. QED
  BY <1>7, <1>9, <1>10, <1>11, AlikeIsTransitive DEF s

LEMMA FoldKeepsFrames ==
  ASSUME FrameInv, NEW e \in UiEvent, FoldOne(e), wire' = Apply(wire, e), reg' = reg, shown' = shown
  PROVE  FramesAre(staged', reg', wire', shown')
<1> DEFINE n == Len(staged)
<1>1. /\ Len(staged') = n + 1 /\ n \in Nat
      /\ \A i \in 1..n : staged'[i].event = staged[i].event
      /\ staged'[n + 1].event = e
      /\ \A i \in 1..n + 1 : i \in 1..n \/ i = n + 1
  BY FoldedIs DEF FrameInv
<1>2. /\ Alike(Trail(reg, staged')[n + 1], Apply(wire, e), Global, {})
      /\ \A i \in 1..n : staged[i].event.kind = "flush"
                           => Trail(reg, staged')[i] = Trail(reg, staged)[i]
  BY FoldedTrail DEF FrameInv, IsStep
<1>3. /\ IsReg(reg) /\ IsReg(wire) /\ Picture(reg) = shown
      /\ \A i \in 1..n : staged[i].event.kind = "flush"
                           => Picture(Trail(reg, staged)[i]) = staged[i].event.shows
  BY DEF FrameInv, FramesAre
<1>4. IsReg(Apply(wire, e)) /\ e.kind # "flush"
  BY <1>3, ApplyIs DEF IsStep, UiEvent
<1>5. \A i \in 1..n + 1 : staged'[i].event.kind = "flush"
                            => Picture(Trail(reg, staged')[i]) = staged'[i].event.shows
  BY <1>1, <1>2, <1>3, <1>4
<1> HIDE DEF n
<1>6. QED
  BY <1>1, <1>2, <1>3, <1>4, <1>5 DEF FramesAre

LEMMA FlushKeepsFrames ==
  ASSUME FrameInv, NEW e, e.kind = "flush", e.shows = Picture(wire), FoldOne(e),
         wire' = wire, reg' = reg, shown' = shown
  PROVE  FramesAre(staged', reg', wire', shown')
<1> DEFINE n == Len(staged)
<1>1. /\ Len(staged') = n + 1 /\ n \in Nat
      /\ \A i \in 1..n : staged'[i].event = staged[i].event
      /\ staged'[n + 1].event = e
      /\ \A i \in 1..n + 1 : i \in 1..n \/ i = n + 1
      /\ IsStep(e)
  BY FoldedIs DEF FrameInv, IsStep
<1>2. /\ Alike(Trail(reg, staged')[n + 1], Apply(wire, e), Global, {})
      /\ \A i \in 1..n : staged[i].event.kind = "flush"
                           => Trail(reg, staged')[i] = Trail(reg, staged)[i]
  BY <1>1, FoldedTrail DEF FrameInv
<1>3. /\ IsReg(reg) /\ IsReg(wire) /\ Picture(reg) = shown
      /\ \A i \in 1..n : staged[i].event.kind = "flush"
                           => Picture(Trail(reg, staged)[i]) = staged[i].event.shows
  BY DEF FrameInv, FramesAre
<1>4. Apply(wire, e) = wire /\ Global \in Grids
  BY DEF Apply, CellKinds, Placements, Grids
<1>5. BufferIs(staged', flushIndex', barriers')
  BY <1>1, FoldKeepsBuffer DEF FrameInv
<1>6. Entries(staged') /\ Len(staged') \in Nat /\ n + 1 \in 0..Len(staged')
  BY <1>1, <1>5 DEF BufferIs
<1> HIDE DEF n
<1>7. IsReg(Trail(reg, staged')[n + 1])
  BY <1>3, <1>6, TrailOfRegs
<1>8. Picture(Trail(reg, staged')[n + 1]) = Picture(wire)
  BY <1>2, <1>3, <1>4, <1>7, SamePicture
<1>9. \A i \in 1..n + 1 : staged'[i].event.kind = "flush"
                            => Picture(Trail(reg, staged')[i]) = staged'[i].event.shows
  BY <1>1, <1>2, <1>3, <1>8
<1>10. QED
  BY <1>1, <1>2, <1>3, <1>4, <1>9 DEF FramesAre

(* An index behind the place a drain ends at, once the rest moves up.       *)
LEMMA MovedUp ==
  ASSUME NEW end \in Nat, NEW n \in Nat, NEW last \in 0..n, NEW b \in Nat, b > end, b <= last
  PROVE  b - end \in 1..n - end /\ end + (b - end) = b
OBVIOUS

(* A drain up to a Flush leaves a buffer that is in order again.           *)
LEMMA DrainKeeps ==
  ASSUME FrameInv, NEW end \in 0..flushIndex, end > 0 => staged[end].event.kind = "flush",
         DrainTo(end), NEW bs \in Seq(Nat),
         \A i \in 1..Len(bs) : bs[i] <= flushIndex /\ (bs[i] > 0 => staged[bs[i]].event.kind = "flush"),
         barriers' = Less(bs, end), epochs' = epochs, wire' = wire
  PROVE  /\ BufferIs(staged', flushIndex', barriers')
         /\ EpochsAre(staged', epochs')
         /\ FramesAre(staged', reg', wire', shown')
<1> DEFINE n == Len(staged)
           m == n - end
           s == staged'
           t == Trail(reg, staged)
<1>1. /\ IsSeq(staged) /\ Entries(staged) /\ n \in Nat /\ flushIndex \in 0..n
      /\ flushIndex > 0 => staged[flushIndex].event.kind = "flush"
      /\ \A i \in flushIndex + 1..n : staged[i].event.kind # "flush"
  BY DEF FrameInv, BufferIs, IsSeq
<1>2. end \in 0..n /\ m \in Nat /\ end \in Nat
  BY <1>1
<1>3. s = SubSeq(staged, end + 1, n)
  BY DEF DrainTo
<1> HIDE DEF s, n, t
<1>4. /\ IsSeq(s) /\ Len(s) = m
      /\ \A i \in 1..m : s[i] = staged[end + i]
  BY <1>1, <1>2, <1>3, SubSeqIs DEF n
<1>5. \A i \in 1..m : end + i \in 1..n
  BY <1>1, <1>2
<1>6. Entries(s)
  <2>1. \A i \in 1..n : /\ staged[i].alive \in BOOLEAN /\ IsStep(staged[i].event)
                        /\ DOMAIN staged[i] = {"event", "alive", "barrier", "scroll"}
    BY <1>1 DEF Entries, n
  <2>2. \A i \in 1..m : /\ s[i].alive \in BOOLEAN /\ IsStep(s[i].event)
                        /\ DOMAIN s[i] = {"event", "alive", "barrier", "scroll"}
    BY <1>4, <1>5, <2>1
  <2>3. QED
    BY <1>4, <2>2 DEF Entries
<1>7. flushIndex' = IF flushIndex > end THEN flushIndex - end ELSE 0
  BY DEF DrainTo
<1>8. BufferIs(s, flushIndex', barriers')
  <2> DEFINE f == flushIndex'
  <2>1. f \in 0..m
    BY <1>1, <1>2, <1>7
  <2>2. f > 0 => s[f].event.kind = "flush"
    <3>1. SUFFICES ASSUME f > 0 PROVE s[f].event.kind = "flush"
      OBVIOUS
    <3>2. flushIndex > end /\ f = flushIndex - end /\ f \in 1..m /\ end + f = flushIndex
      BY <1>1, <1>2, <1>7, <2>1, <3>1
    <3>3. QED
      BY <1>1, <1>2, <1>4, <3>2
  <2>3. \A i \in f + 1..m : s[i].event.kind # "flush"
    <3>1. SUFFICES ASSUME NEW i \in f + 1..m PROVE s[i].event.kind # "flush"
      OBVIOUS
    <3>2. i \in 1..m /\ end + i \in flushIndex + 1..n
      BY <1>1, <1>2, <1>7, <2>1
    <3>3. QED
      BY <1>1, <1>4, <3>2
  <2>4. /\ barriers' \in Seq(Nat) /\ Len(barriers') = Len(bs)
        /\ \A i \in 1..Len(bs) : barriers'[i] = IF bs[i] > end THEN bs[i] - end ELSE 0
    <3> DEFINE q == [i \in 1..Len(bs) |-> IF bs[i] > end THEN bs[i] - end ELSE 0]
    <3>1. barriers' = q
      BY DEF Less
    <3>2. q \in [1..Len(bs) -> Nat] /\ Len(bs) \in Nat
      BY <1>2
    <3>3. q \in Seq(Nat) /\ Len(q) = Len(bs)
      BY <3>2
    <3>4. QED
      BY <3>1, <3>3
  <2>5. \A i \in 1..Len(bs) : barriers'[i] <= f /\ (barriers'[i] > 0 => s[barriers'[i]].event.kind = "flush")
    <3>1. SUFFICES ASSUME NEW i \in 1..Len(bs)
                   PROVE  barriers'[i] <= f /\ (barriers'[i] > 0 => s[barriers'[i]].event.kind = "flush")
      OBVIOUS
    <3>2. bs[i] \in Nat /\ bs[i] <= flushIndex /\ (bs[i] > 0 => staged[bs[i]].event.kind = "flush")
      OBVIOUS
    <3>3. CASE bs[i] > end
      <4>4. bs[i] - end \in 1..m /\ end + (bs[i] - end) = bs[i]
        BY <1>1, <1>2, <3>2, <3>3, MovedUp
      <4>1. barriers'[i] = bs[i] - end /\ bs[i] - end \in 1..m /\ end + (bs[i] - end) = bs[i]
        BY <2>4, <3>2, <3>3, <4>4
      <4>2. bs[i] - end <= f /\ bs[i] > 0
        BY <1>1, <1>2, <1>7, <3>2, <3>3
      <4>3. QED
        BY <1>4, <3>2, <4>1, <4>2
    <3>4. CASE ~(bs[i] > end)
      <4>1. barriers'[i] = 0
        BY <2>4, <3>4
      <4>2. QED
        BY <2>1, <4>1
    <3>5. QED
      BY <3>3, <3>4
  <2> HIDE DEF f
  <2>6. QED
    BY <1>4, <1>6, <2>1, <2>2, <2>3, <2>4, <2>5 DEF BufferIs, f
<1>9. EpochsAre(s, epochs')
  <2>1. EpochsAre(staged, epochs)
    BY DEF FrameInv
  <2>2. \A i \in 1..m : /\ s[i].scroll \in Nat
                        /\ s[i].event.kind \in CellKinds => s[i].scroll <= epochs[s[i].event.grid].scroll
    BY <1>4, <1>5, <2>1 DEF EpochsAre, n
  <2>3. \A i, j \in 1..m : i < j => end + i < end + j
    BY <1>2
  <2>4. \A i, j \in 1..m :
          /\ i < j /\ s[j].event.kind = "scroll"
          /\ s[i].event.kind \in CellKinds /\ s[i].event.grid = s[j].event.grid
          => s[i].scroll < s[j].scroll
    BY <1>4, <1>5, <2>1, <2>3, ZenonT(60) DEF EpochsAre, n
  <2>5. QED
    BY <1>4, <2>1, <2>2, <2>4 DEF EpochsAre
<1>10. FramesAre(s, reg', wire', shown')
  <2>1. /\ IsReg(reg) /\ IsReg(wire) /\ Picture(reg) = shown
        /\ \A i \in 1..n : staged[i].event.kind = "flush" => Picture(t[i]) = staged[i].event.shows
        /\ Alike(t[n], wire, Global, {})
    BY DEF FrameInv, FramesAre, n, t
  <2>2. reg' = t[end] /\ shown' = IF end = 0 THEN shown ELSE staged[end].event.shows
    BY DEF DrainTo, t
  <2>3. \A i \in 0..n : IsReg(t[i])
    BY <1>1, <2>1, TrailOfRegs DEF n, t
  <2>4. IsReg(reg')
    BY <1>2, <2>2, <2>3
  <2>5. Picture(reg') = shown'
    <3>1. CASE end = 0
      <4>1. t[0] = reg
        BY <1>1, TrailIs DEF n, t
      <4>2. QED
        BY <2>1, <2>2, <3>1, <4>1
    <3>2. CASE end # 0
      <4>1. end \in 1..n /\ end > 0
        BY <1>1, <1>2, <3>2
      <4>2. QED
        BY <2>1, <2>2, <3>2, <4>1
    <3>3. QED
      BY <3>1, <3>2
  <2>6. \A i \in 0..m : Trail(reg', s)[i] = t[end + i]
    BY <1>1, <1>2, <1>3, <2>2, TrailGoesOn DEF n, t
  <2>7. \A i \in 1..m : s[i].event.kind = "flush" => Picture(Trail(reg', s)[i]) = s[i].event.shows
    <3>1. \A i \in 1..m : i \in 0..m
      BY <1>2
    <3>2. QED
      BY <1>4, <1>5, <2>1, <2>6, <3>1
  <2>8. Trail(reg', s)[m] = t[n]
    <3>1. m \in 0..m /\ end + m = n
      BY <1>1, <1>2
    <3>2. QED
      BY <2>6, <3>1
  <2>9. QED
    BY <1>4, <2>1, <2>4, <2>5, <2>7, <2>8 DEF FramesAre
<1>11. QED
  BY <1>8, <1>9, <1>10 DEF s

(* Taking the damage changes no picture, and none that is still to come.   *)
LEMMA CleanIs ==
  ASSUME NEW g, IsGrid(g)
  PROVE  /\ IsGrid(Clean(g)) /\ ~Clean(g).full /\ Clean(g).rows = {}
         /\ Clean(g).w = g.w /\ Clean(g).h = g.h /\ Clean(g).cells = g.cells
         /\ Clean(g).cursor = g.cursor
<1> DEFINE c == Clean(g)
<1>1. c = [g EXCEPT !.full = FALSE, !.rows = {}]
  BY DEF Clean
<1> HIDE DEF c
<1>2. c = [w |-> g.w, h |-> g.h, cells |-> g.cells, cursor |-> g.cursor, full |-> FALSE, rows |-> {}]
  BY <1>1 DEF IsGrid
<1>3. FALSE \in BOOLEAN /\ {} \in SUBSET Nat
  OBVIOUS
<1>4. /\ g.w \in Nat /\ g.h \in Nat /\ g.cursor \in Nat \X Nat
      /\ g.cells = [p \in Places(g.w, g.h) |-> g.cells[p]]
  BY DEF IsGrid
<1>5. IsGrid(c)
  BY <1>2, <1>3, <1>4, MakesAGrid
<1>6. QED
  BY <1>2, <1>5 DEF c

LEMMA DrainedIs ==
  ASSUME NEW r, IsReg(r)
  PROVE  LET new == Drained(r)
         IN  /\ IsReg(new) /\ ~new.moved
             /\ \A i \in Grids : new.grids[i] = Clean(r.grids[i])
             /\ new.placed = r.placed /\ new.cursor = r.cursor
             /\ new.mode = r.mode /\ new.cmdline = r.cmdline
             /\ Alike(new, r, Global, {})
<1> DEFINE new == Drained(r)
           gs == [i \in Grids |-> Clean(r.grids[i])]
<1>1. /\ r = [grids |-> r.grids, placed |-> r.placed, cursor |-> r.cursor, moved |-> r.moved,
              mode |-> r.mode, cmdline |-> r.cmdline]
      /\ \A i \in Grids : IsGrid(r.grids[i])
      /\ r.cursor \in Grids /\ r.placed.row \in Nat /\ r.placed.hidden \in BOOLEAN
      /\ r.placed = [row |-> r.placed.row, hidden |-> r.placed.hidden]
      /\ FALSE \in BOOLEAN
  BY DEF IsReg
<1>2. new = [r EXCEPT !.grids = gs, !.moved = FALSE]
  BY DEF Drained
<1>3. /\ gs = [i \in Grids |-> gs[i]]
      /\ \A i \in Grids : gs[i] = Clean(r.grids[i])
  OBVIOUS
<1> HIDE DEF new, gs
<1>4. new = [grids |-> gs, placed |-> r.placed, cursor |-> r.cursor, moved |-> FALSE,
             mode |-> r.mode, cmdline |-> r.cmdline]
  BY <1>1, <1>2
<1>5. \A i \in Grids : IsGrid(gs[i])
  BY <1>1, <1>3, CleanIs
<1>6. IsReg(new)
  BY <1>1, <1>3, <1>4, <1>5, MakesAReg
<1>7. \A i \in Grids : GridsAlike(gs[i], r.grids[i], {})
  BY <1>1, <1>3, CleanIs DEF GridsAlike
<1>8. Alike(new, r, Global, {})
  BY <1>4, <1>7 DEF Alike
<1>9. QED
  BY <1>3, <1>4, <1>6, <1>8 DEF new

LEMMA PaintKeepsFrames ==
  ASSUME BufferIs(staged, flushIndex, barriers), FramesAre(staged, reg, wire, shown)
  PROVE  FramesAre(staged, Drained(reg), wire, shown)
<1> DEFINE n == Len(staged)
           d == Drained(reg)
<1>1. n \in Nat /\ Entries(staged) /\ Global \in Grids
  BY DEF BufferIs, IsSeq, Grids
<1>2. /\ IsReg(reg) /\ IsReg(wire) /\ Picture(reg) = shown
      /\ \A i \in 1..n : staged[i].event.kind = "flush"
                           => Picture(Trail(reg, staged)[i]) = staged[i].event.shows
      /\ Alike(Trail(reg, staged)[n], wire, Global, {})
  BY DEF FramesAre
<1>3. IsReg(d) /\ Alike(d, reg, Global, {})
  BY <1>2, DrainedIs
<1> HIDE DEF d
<1>4. \A i \in 0..n : Alike(Trail(d, staged)[i], Trail(reg, staged)[i], Global, {})
  BY <1>1, <1>2, <1>3, TrailAlike
<1>5. \A i \in 0..n : IsReg(Trail(d, staged)[i]) /\ IsReg(Trail(reg, staged)[i])
  <2>1. (\A i \in 0..n : IsReg(Trail(d, staged)[i]))
    BY <1>1, <1>3, TrailOfRegs
  <2>2. (\A i \in 0..n : IsReg(Trail(reg, staged)[i]))
    BY <1>1, <1>2, TrailOfRegs
  <2>3. QED
    BY <2>1, <2>2
<1>6. \A i \in 0..n : Picture(Trail(d, staged)[i]) = Picture(Trail(reg, staged)[i])
  BY <1>1, <1>4, <1>5, SamePicture
<1>7. Picture(d) = shown
  BY <1>1, <1>2, <1>3, SamePicture
<1>8. Alike(Trail(d, staged)[n], wire, Global, {})
  <2>1. n \in 0..n
    BY <1>1
  <2>2. QED
    BY <1>2, <1>4, <2>1, AlikeIsTransitive
<1>9. \A i \in 1..n : staged[i].event.kind = "flush"
                        => Picture(Trail(d, staged)[i]) = staged[i].event.shows
  <2>1. \A i \in 1..n : i \in 0..n
    OBVIOUS
  <2>2. QED
    BY <1>2, <1>6, <2>1
<1>10. QED
  BY <1>2, <1>3, <1>7, <1>8, <1>9 DEF FramesAre, d

(* The first registry is one.                                              *)
LEMMA FirstReg ==
  ASSUME RedrawInit
  PROVE  /\ IsReg(reg) /\ wire = reg /\ shown = Picture(reg)
         /\ staged = <<>> /\ flushIndex = 0 /\ barriers = <<>> /\ nr = 0
         /\ epochs = [i \in Grids |-> [barrier |-> 0, scroll |-> 0]]
         /\ reg.cursor = Global /\ ~reg.moved /\ reg.cmdline = NoLine
         /\ \A i \in Grids : ~reg.grids[i].full /\ reg.grids[i].rows = {}
         /\ reg.grids[Global].w = Cols /\ reg.grids[Global].h = Rows
<1> DEFINE c == [p \in Terminal |-> -(p[1] * Cols + p[2] + 1)]
           start == [w |-> Cols, h |-> Rows, cells |-> c,
                     cursor |-> <<0, 0>>, full |-> FALSE, rows |-> {}]
           small == [Resize(New, 1, 1) EXCEPT !.full = FALSE]
           gs == [i \in Grids |-> IF i = Global THEN start ELSE small]
<1>1. PICK placed \in {Nowhere, [row |-> 1, hidden |-> FALSE]} :
        reg = [grids |-> gs, placed |-> placed, cursor |-> Global, moved |-> FALSE,
               mode |-> "insert", cmdline |-> NoLine]
  BY DEF RedrawInit
<1>2. c = [p \in Places(Cols, Rows) |-> c[p]]
  BY DEF Terminal, Places
<1> HIDE DEF c
<1>3. /\ FALSE \in BOOLEAN /\ {} \in SUBSET Nat /\ <<0, 0>> \in Nat \X Nat
      /\ Cols \in Nat /\ Rows \in Nat
  BY SizeIsNat
<1>4. IsGrid(start) /\ start.w = Cols /\ start.h = Rows /\ ~start.full /\ start.rows = {}
  BY <1>2, <1>3, MakesAGrid
<1>5. IsGrid(small) /\ ~small.full /\ small.rows = {}
  <2> DEFINE g == Resize(New, 1, 1)
  <2>1. IsGrid(g) /\ g.rows = {}
    <3>1. IsGrid(g)
      BY NewIs, ResizeIs
    <3>2. QED
      BY <3>1 DEF Resize
  <2>2. small = [g EXCEPT !.full = FALSE]
    OBVIOUS
  <2> HIDE DEF g, small
  <2>3. small = [w |-> g.w, h |-> g.h, cells |-> g.cells, cursor |-> g.cursor,
                 full |-> FALSE, rows |-> g.rows]
    BY <2>1, <2>2 DEF IsGrid
  <2>4. /\ g.w \in Nat /\ g.h \in Nat /\ g.cursor \in Nat \X Nat
        /\ g.cells = [p \in Places(g.w, g.h) |-> g.cells[p]] /\ g.rows \in SUBSET Nat
    BY <2>1 DEF IsGrid
  <2>5. QED
    BY <1>3, <2>1, <2>3, <2>4, MakesAGrid
<1> HIDE DEF start, small
<1>6. /\ gs = [i \in Grids |-> gs[i]]
      /\ \A i \in Grids : IsGrid(gs[i]) /\ ~gs[i].full /\ gs[i].rows = {}
      /\ gs[Global] = start /\ Global \in Grids
  BY <1>4, <1>5 DEF Grids
<1> HIDE DEF gs
<1>7. /\ placed.row \in Nat /\ placed.hidden \in BOOLEAN
      /\ placed = [row |-> placed.row, hidden |-> placed.hidden]
  <2>1. CASE placed = [row |-> 0, hidden |-> TRUE]
    BY <2>1
  <2>2. CASE placed = [row |-> 1, hidden |-> FALSE]
    BY <2>2
  <2>3. QED
    BY <2>1, <2>2 DEF Nowhere
<1>8. IsReg(reg)
  BY <1>1, <1>3, <1>6, <1>7, MakesAReg
<1>9. QED
  BY <1>1, <1>4, <1>6, <1>8 DEF RedrawInit

LEMMA FrameInvInit == Init => FrameInv
<1>1. SUFFICES ASSUME Init PROVE FrameInv
  OBVIOUS
<1>2. /\ IsReg(reg) /\ wire = reg /\ shown = Picture(reg)
      /\ staged = <<>> /\ flushIndex = 0 /\ barriers = <<>> /\ nr = 0
      /\ epochs = [i \in Grids |-> [barrier |-> 0, scroll |-> 0]]
  BY <1>1, FirstReg DEF Init
<1>3. Len(staged) = 0 /\ staged \in Seq(Nat) /\ barriers \in Seq(Nat) /\ Len(barriers) = 0
  BY <1>2
<1>4. BufferIs(staged, flushIndex, barriers)
  <2>1. IsSeq(staged)
    BY <1>3, SeqIs
  <2>2. QED
    BY <1>2, <1>3, <2>1 DEF BufferIs, Entries
<1>5. EpochsAre(staged, epochs)
  BY <1>2, <1>3 DEF EpochsAre
<1>6. FramesAre(staged, reg, wire, shown)
  <2>1. Trail(reg, staged)[0] = reg
    BY <1>3, TrailIs
  <2>2. Alike(reg, reg, Global, {})
    BY DEF Alike, GridsAlike
  <2>3. QED
    BY <1>2, <1>3, <2>1, <2>2 DEF FramesAre
<1>7. QED
  BY <1>2, <1>4, <1>5, <1>6 DEF FrameInv

LEMMA FrameInvFold ==
  ASSUME FrameInv, Fold
  PROVE  FrameInv'
<1>1. PICK e \in Wire :
        /\ nr' = nr + 1 /\ UNCHANGED <<reg, shown>>
        /\ LET ev == IF e.kind \in {"line", "cmdline_show"} THEN [e EXCEPT !.value = nr + 1] ELSE e
           IN  FoldOne(ev) /\ wire' = Apply(wire, ev)
  BY DEF Fold
<1> DEFINE ev == IF e.kind \in {"line", "cmdline_show"} THEN [e EXCEPT !.value = nr + 1] ELSE e
<1>2. FoldOne(ev) /\ wire' = Apply(wire, ev)
  BY <1>1
<1>3. nr \in Nat /\ nr + 1 \in Nat /\ e \in UiEvent
  BY WireOfEvents DEF FrameInv
<1>4. ev \in UiEvent
  BY <1>3, SerialIsAnEvent
<1> HIDE DEF ev
<1>5. BufferIs(staged', flushIndex', barriers')
  BY <1>2, <1>4, FoldKeepsBuffer DEF FrameInv, IsStep
<1>6. EpochsAre(staged', epochs')
  BY <1>2, <1>4, FoldKeepsEpochs DEF FrameInv, IsStep
<1>7. FramesAre(staged', reg', wire', shown')
  BY <1>1, <1>2, <1>4, FoldKeepsFrames
<1>8. QED
  BY <1>1, <1>3, <1>5, <1>6, <1>7 DEF FrameInv

LEMMA FrameInvFlush ==
  ASSUME FrameInv, FoldFlush
  PROVE  FrameInv'
<1> DEFINE e == [kind |-> "flush", shows |-> Picture(wire)]
<1>1. FoldOne(e) /\ UNCHANGED <<reg, nr, wire, shown>>
  BY DEF FoldFlush
<1>2. e.kind = "flush" /\ e.shows = Picture(wire)
  OBVIOUS
<1> HIDE DEF e
<1>3. BufferIs(staged', flushIndex', barriers')
  BY <1>1, <1>2, FoldKeepsBuffer DEF FrameInv, IsStep
<1>4. EpochsAre(staged', epochs')
  BY <1>1, <1>2, FoldKeepsEpochs DEF FrameInv, IsStep
<1>5. FramesAre(staged', reg', wire', shown')
  BY <1>1, <1>2, FlushKeepsFrames
<1>6. QED
  BY <1>1, <1>3, <1>4, <1>5 DEF FrameInv

LEMMA FrameInvBarriers ==
  ASSUME FrameInv, RaiseBarrier \/ LowerBarrier
  PROVE  FrameInv'
<1>1. UNCHANGED <<staged, flushIndex, epochs, reg, nr, wire, shown>>
  BY DEF RaiseBarrier, LowerBarrier
<1>2. /\ barriers' \in Seq(Nat)
      /\ \A i \in 1..Len(barriers') :
           barriers'[i] <= flushIndex /\ (barriers'[i] > 0 => staged[barriers'[i]].event.kind = "flush")
  <2>1. /\ barriers \in Seq(Nat) /\ flushIndex \in Nat /\ Len(barriers) \in Nat
        /\ \A i \in 1..Len(barriers) :
             barriers[i] <= flushIndex /\ (barriers[i] > 0 => staged[barriers[i]].event.kind = "flush")
        /\ flushIndex > 0 => staged[flushIndex].event.kind = "flush"
    BY DEF FrameInv, BufferIs
  <2>2. CASE RaiseBarrier
    <3>1. barriers' = Append(barriers, flushIndex)
      BY <2>2 DEF RaiseBarrier
    <3>2. /\ barriers' \in Seq(Nat) /\ Len(barriers') = Len(barriers) + 1
          /\ \A i \in 1..Len(barriers) + 1 :
               barriers'[i] = IF i = Len(barriers) + 1 THEN flushIndex ELSE barriers[i]
      BY <2>1, <3>1, SMTT(30)
    <3>3. QED
      BY <2>1, <3>2
  <2>3. CASE LowerBarrier
    <3>1. barriers # <<>> /\ barriers' = SubSeq(barriers, 1, Len(barriers) - 1)
      BY <2>3 DEF LowerBarrier
    <3> DEFINE n == Len(barriers) - 1
    <3>2. n \in Nat /\ n <= Len(barriers) /\ \A i \in 1..n : i \in 1..Len(barriers)
      BY <2>1, <3>1
    <3>3. barriers' = SubSeq(barriers, 1, n)
      BY <3>1
    <3> HIDE DEF n
    <3>4. barriers' \in Seq(Nat) /\ Len(barriers') = n
      BY <2>1, <3>2, <3>3
    <3>5. \A i \in 1..n : barriers'[i] = barriers[i]
      BY <2>1, <3>2, <3>3
    <3>6. QED
      BY <2>1, <3>2, <3>4, <3>5
  <2>4. QED
    BY <2>2, <2>3
<1>3. QED
  BY <1>1, <1>2 DEF FrameInv, BufferIs

LEMMA DrainsEndAtFlushes ==
  ASSUME FrameInv
  PROVE  /\ TakeToBarrier => /\ BarrierEnd \in 0..flushIndex
                             /\ BarrierEnd > 0 => staged[BarrierEnd].event.kind = "flush"
         /\ PassBarrier => /\ Head(barriers) \in 0..flushIndex
                           /\ Head(barriers) > 0 => staged[Head(barriers)].event.kind = "flush"
<1>1. /\ barriers \in Seq(Nat) /\ flushIndex \in Nat /\ Len(barriers) \in Nat
      /\ \A i \in 1..Len(barriers) :
           barriers[i] <= flushIndex /\ (barriers[i] > 0 => staged[barriers[i]].event.kind = "flush")
      /\ flushIndex > 0 => staged[flushIndex].event.kind = "flush"
  BY DEF FrameInv, BufferIs
<1>2. barriers # <<>> => Head(barriers) = barriers[1] /\ 1 \in 1..Len(barriers) /\ barriers[1] \in Nat
  BY <1>1
<1>3. QED
  BY <1>1, <1>2 DEF BarrierEnd, PassBarrier

LEMMA FrameInvDrain ==
  ASSUME FrameInv, TakeToBarrier \/ PassBarrier
  PROVE  FrameInv'
<1>1. /\ barriers \in Seq(Nat) /\ Len(barriers) \in Nat
      /\ \A i \in 1..Len(barriers) :
           barriers[i] <= flushIndex /\ (barriers[i] > 0 => staged[barriers[i]].event.kind = "flush")
  BY DEF FrameInv, BufferIs
<1>2. CASE TakeToBarrier
  <2> DEFINE end == BarrierEnd
  <2>1. /\ end \in 0..flushIndex
        /\ end > 0 => staged[end].event.kind = "flush"
    BY <1>2, DrainsEndAtFlushes
  <2>2. DrainTo(end) /\ barriers' = Less(barriers, end) /\ UNCHANGED <<epochs, nr, wire>>
    BY <1>2 DEF TakeToBarrier
  <2> HIDE DEF end
  <2>3. QED
    BY <1>1, <2>1, <2>2, DrainKeeps DEF FrameInv
<1>3. CASE PassBarrier
  <2> DEFINE end == Head(barriers)
             bs == Tail(barriers)
  <2>1. /\ end \in 0..flushIndex
        /\ end > 0 => staged[end].event.kind = "flush"
    BY <1>3, DrainsEndAtFlushes
  <2>2. /\ DrainTo(end) /\ barriers' = Less(bs, end) /\ UNCHANGED <<epochs, nr, wire>>
        /\ barriers # <<>>
    BY <1>3 DEF PassBarrier
  <2>3. /\ bs \in Seq(Nat) /\ Len(bs) = Len(barriers) - 1
        /\ \A i \in 1..Len(barriers) - 1 : bs[i] = barriers[i + 1]
    BY <1>1, <2>2
  <2> HIDE DEF end, bs
  <2>4. \A i \in 1..Len(bs) : i + 1 \in 1..Len(barriers)
    BY <1>1, <2>3
  <2>5. \A i \in 1..Len(bs) : bs[i] <= flushIndex /\ (bs[i] > 0 => staged[bs[i]].event.kind = "flush")
    BY <1>1, <2>3, <2>4
  <2>6. QED
    BY <2>1, <2>2, <2>3, <2>5, DrainKeeps DEF FrameInv
<1>4. QED
  BY <1>2, <1>3

LEMMA FrameInvOther ==
  ASSUME FrameInv, TypePlain \/ TypeOther \/ Expire \/ Paint \/ UNCHANGED vars
  PROVE  FrameInv'
<1>1. nr \in Nat
  BY DEF FrameInv
<1>2. CASE Paint
  <2>1. reg' = Drained(reg) /\ UNCHANGED <<buffer, nr, wire, shown>>
    BY <1>2 DEF Paint, echo
  <2>2. FramesAre(staged, Drained(reg), wire, shown)
    BY PaintKeepsFrames DEF FrameInv
  <2>3. QED
    BY <2>1, <2>2 DEF FrameInv, buffer
<1>3. CASE TypePlain \/ TypeOther \/ Expire \/ UNCHANGED vars
  <2>1. UNCHANGED <<staged, flushIndex, epochs, barriers, reg, wire, shown>> /\ nr' \in {nr, nr + 1}
    BY <1>3 DEF TypePlain, TypeOther, Expire, vars, redrawVars, buffer
  <2>2. QED
    BY <1>1, <2>1 DEF FrameInv
<1>4. QED
  BY <1>2, <1>3

(* The inductive invariant of the buffer: compaction is behind every event  *)
(* it drops, and the registries differ only in cells that a later event     *)
(* still staged will write.                                                 *)
THEOREM FrameInvHolds == Spec => []FrameInv
<1>1. FrameInv /\ [Next]_vars => FrameInv'
  <2>1. SUFFICES ASSUME FrameInv, [Next]_vars PROVE FrameInv'
    OBVIOUS
  <2>2. CASE Fold
    BY <2>1, <2>2, FrameInvFold
  <2>3. CASE FoldFlush
    BY <2>1, <2>3, FrameInvFlush
  <2>4. CASE RaiseBarrier \/ LowerBarrier
    BY <2>1, <2>4, FrameInvBarriers
  <2>5. CASE Drain
    BY <2>1, <2>5, FrameInvDrain DEF Drain
  <2>6. CASE TypePlain \/ TypeOther \/ Expire \/ Paint \/ UNCHANGED vars
    BY <2>1, <2>6, FrameInvOther
  <2>7. QED
    BY <2>1, <2>2, <2>3, <2>4, <2>5, <2>6 DEF Next
<1>2. QED
  BY <1>1, FrameInvInit, PTL DEF Spec

(* DamageBuffer: under-retaining is never legal.  Whatever the reader       *)
(* folds and compacts, and wherever a barrier or a drain cuts the stream,   *)
(* what the loop has applied is exactly the frame nvim last flushed there.  *)
THEOREM DrainsShowTheFrame == Spec => []DrainsShowTheWiresFrame
<1>1. FrameInv => DrainsShowTheWiresFrame
  BY DEF FrameInv, FramesAre, DrainsShowTheWiresFrame
<1>2. QED
  BY <1>1, FrameInvHolds, PTL

-----------------------------------------------------------------------------
(* The predictions.                                                        *)

(* Content(g, p): what a cell of a grid holds, if the grid has it.         *)
Content(g, p) == IF p \in DOMAIN g.cells THEN <<g.cells[p]>> ELSE <<>>

(* A prediction stands over what it was made for.                          *)
Stands(r, top, c) ==
  /\ c.made.cursor = c.grid /\ r.mode = "insert"
  /\ Content(r.grids[c.grid], <<c.row, c.col>>) = c.made.cell
  /\ (IF c.grid = Win THEN r.placed ELSE Nowhere) = c.made.placed
  /\ c.made.top \in {Unseen, top}

IsCell(c) == c.grid \in Grids /\ c.row \in Nat /\ c.col \in Nat

EchoInv ==
  /\ IsSeq(pending)
  /\ \A i \in 1..Len(pending) : IsCell(pending[i]) /\ Stands(reg, topline, pending[i])

(* An event that does not answer a prediction leaves what it stands on.    *)
LEMMA UnansweredStands ==
  ASSUME NEW r, IsReg(r), NEW e, IsStep(e), e.kind # "mode",
         NEW c, IsCell(c), ~Answers(e, c), NEW top, Stands(r, top, c)
  PROVE  Stands(Apply(r, e), top, c)
<1> DEFINE n == Apply(r, e)
           at == <<c.row, c.col>>
<1>1. CASE e.kind \in CellKinds
  <2>1. e \in UiEvent /\ e.grid \in Grids
    BY <1>1, Kinds, CellFields DEF CellKinds
  <2>2. n = ApplyCells(r, e)
    BY <1>1, ApplyIs
  <2>3. /\ n.grids[e.grid] = Changed(r.grids[e.grid], e)
        /\ \A i \in Grids : i # e.grid => n.grids[i] = r.grids[i]
        /\ n.placed = r.placed /\ n.mode = r.mode
    BY <1>1, <2>1, <2>2, ApplyCellsIs
  <2> HIDE DEF n
  <2>4. Content(n.grids[c.grid], at) = Content(r.grids[c.grid], at)
    <3>1. CASE c.grid # e.grid
      BY <2>3, <3>1 DEF IsCell
    <3>2. CASE c.grid = e.grid
      <4> DEFINE g == r.grids[e.grid]
                 m == n.grids[e.grid]
      <4>1. e.kind \in {"line", "goto"}
        BY <1>1, <3>2 DEF Answers, CellKinds
      <4>2. IsGrid(g) /\ m = Changed(g, e)
        BY <2>1, <2>3 DEF IsReg
      <4> HIDE DEF g, m
      <4>3. CASE e.kind = "goto"
        <5>1. m = [g EXCEPT !.cursor = CursorGoto(g, e.row, e.col).cursor]
          BY <4>2, <4>3 DEF Changed, CursorGoto, IsGrid
        <5>2. m.cells = g.cells
          BY <4>2, <5>1 DEF IsGrid
        <5>3. QED
          BY <3>2, <5>2 DEF Content, g, m
      <4>4. CASE e.kind = "line"
        <5>1. m = PutLine(g, e.row, e.col, e.span, e.value)
          BY <4>2, <4>4 DEF Changed
        <5>2. ~Covers(e, c)
          BY <3>2, <4>4 DEF Answers
        <5>3. CASE e.row >= g.h
          BY <3>2, <5>1, <5>3 DEF PutLine, g, m
        <5>4. CASE ~(e.row >= g.h)
          <6> DEFINE w == [p \in DOMAIN g.cells |->
                             IF p[1] = e.row /\ p[2] \in e.col..(e.col + e.span - 1)
                             THEN e.value ELSE g.cells[p]]
          <6>1. m.cells = w
            BY <4>2, <5>1, <5>4 DEF PutLine, IsGrid
          <6>2. ~(at[1] = e.row /\ at[2] \in e.col..(e.col + e.span - 1))
            BY <5>2 DEF Covers
          <6>3. DOMAIN m.cells = DOMAIN g.cells /\ (at \in DOMAIN g.cells => m.cells[at] = g.cells[at])
            BY <6>1, <6>2
          <6>4. QED
            BY <3>2, <6>3 DEF Content, g, m
        <5>5. QED
          BY <5>3, <5>4
      <4>5. QED
        BY <4>1, <4>3, <4>4
    <3>3. QED
      BY <3>1, <3>2
  <2>5. QED
    BY <2>3, <2>4 DEF Stands, n
<1>2. CASE e.kind \in Placements
  <2>1. e \in UiEvent /\ c.grid = Global /\ Global # Win
    BY <1>2, Kinds DEF Placements, Answers, IsCell, Grids, Global, Win
  <2>2. n = ApplyPlacement(r, e)
    BY <1>2, ApplyIs
  <2>3. n.grids[Global] = r.grids[Global] /\ n.mode = r.mode
    BY <1>2, <2>1, <2>2, ApplyPlacementIs, ZenonT(60)
  <2> HIDE DEF n
  <2>4. QED
    BY <2>1, <2>3 DEF Stands, n
<1>3. CASE e.kind \notin CellKinds \cup Placements
  <2>1. n.grids = r.grids /\ n.placed = r.placed /\ n.mode = r.mode
    BY <1>3, ApplyOtherIs
  <2> HIDE DEF n
  <2>2. QED
    BY <2>1 DEF Stands, n
<1>4. QED
  BY <1>1, <1>2, <1>3

LEMMA UnansweredTrail ==
  ASSUME NEW r, IsReg(r), NEW s, Len(s) \in Nat, Entries(s), NEW c, IsCell(c),
         NEW top, Stands(r, top, c), NEW end \in 0..Len(s),
         \A i \in 1..end : s[i].alive => s[i].event.kind # "mode" /\ ~Answers(s[i].event, c)
  PROVE  Stands(Trail(r, s)[end], top, c)
<1> DEFINE t == Trail(r, s)
           T == {i \in 0..end : ~Stands(t[i], top, c)}
<1>1. /\ t[0] = r
      /\ \A i \in 1..Len(s) : t[i] = IF s[i].alive THEN Apply(t[i - 1], s[i].event) ELSE t[i - 1]
      /\ \A i \in 0..Len(s) : IsReg(t[i])
  BY TrailIs, TrailOfRegs
<1> HIDE DEF t
<1>2. SUFFICES ASSUME T # {} PROVE FALSE
  BY DEF t
<1>3. T \in SUBSET Nat
  OBVIOUS
<1>4. PICK k \in T : \A j \in T : k <= j
  <2> HIDE DEF T
  <2>1. QED
    BY <1>2, <1>3, NatMin
<1>5. k \in 1..end /\ k - 1 \in 0..end /\ k - 1 \notin T /\ k \in 1..Len(s) /\ k - 1 \in 0..Len(s)
  BY <1>1, <1>4
<1>6. Stands(t[k - 1], top, c)
  BY <1>5
<1>7. Stands(t[k], top, c)
  <2>1. IsReg(t[k - 1]) /\ IsStep(s[k].event)
    BY <1>1, <1>5 DEF Entries
  <2>2. CASE s[k].alive
    <3>1. Stands(Apply(t[k - 1], s[k].event), top, c)
      BY <1>5, <1>6, <2>1, <2>2, UnansweredStands
    <3>2. QED
      BY <1>1, <1>5, <2>2, <3>1
  <2>3. CASE ~s[k].alive
    BY <1>1, <1>5, <1>6, <2>3
  <2>4. QED
    BY <2>2, <2>3
<1>8. QED
  BY <1>4, <1>7

(* The toplines of a batch, defined for every batch.                       *)
Reports(n, end, u) ==
  u = [i \in 0..n |->
        IF i = 0 THEN topline
        ELSE IF i \in Batch(end) /\ staged[i].event.kind = "viewport" THEN staged[i].event.top
        ELSE u[i - 1]]

LEMMA ReportsExist ==
  ASSUME NEW n \in Nat, NEW end
  PROVE  \E u : Reports(n, end, u)
<1> DEFINE T == {k \in Nat : ~\E u : Reports(k, end, u)}
           seen(i) == i \in Batch(end) /\ staged[i].event.kind = "viewport"
<1>1. SUFFICES ASSUME T # {} PROVE FALSE
  BY <1>1
<1>2. PICK k \in T : \A j \in T : k <= j
  BY <1>1, NatMin
<1>3. CASE k = 0
  <2>1. Reports(0, end, [i \in 0..0 |-> topline])
    BY DEF Reports
  <2>2. QED
    BY <2>1, <1>2, <1>3
<1>4. CASE k # 0
  <2>1. k \in Nat /\ k - 1 \in Nat /\ k - 1 \notin T
    BY <1>2, <1>4
  <2>2. PICK t : Reports(k - 1, end, t)
    BY <2>1
  <2> DEFINE next == IF seen(k) THEN staged[k].event.top ELSE t[k - 1]
             u == [i \in 0..k |-> IF i = k THEN next ELSE t[i]]
  <2>3. \A i \in 0..k - 1 : t[i] = IF i = 0 THEN topline
                                   ELSE IF seen(i) THEN staged[i].event.top ELSE t[i - 1]
    BY <2>2 DEF Reports
  <2> HIDE DEF seen
  <2>4. \A i \in 0..k : u[i] = IF i = 0 THEN topline
                               ELSE IF seen(i) THEN staged[i].event.top ELSE u[i - 1]
    <3>1. SUFFICES ASSUME NEW i \in 0..k
                   PROVE  u[i] = IF i = 0 THEN topline
                                 ELSE IF seen(i) THEN staged[i].event.top ELSE u[i - 1]
      OBVIOUS
    <3>2. i # 0 => i - 1 \in 0..k /\ i - 1 # k
      BY <2>1
    <3>3. CASE i = k
      BY <3>2, <3>3, <1>4
    <3>4. CASE i # k
      <4>1. i \in 0..k - 1
        BY <2>1, <3>4
      <4>2. QED
        BY <2>3, <3>2, <3>4, <4>1
    <3>5. QED
      BY <3>3, <3>4
  <2>5. u = [i \in 0..k |-> u[i]]
    OBVIOUS
  <2> HIDE DEF u
  <2>6. Reports(k, end, u)
    BY <2>4, <2>5 DEF Reports, seen
  <2>7. QED
    BY <2>6, <1>2
<1>5. QED
  BY <1>3, <1>4

(* A batch in which no window shifted leaves the topline it knew, if it     *)
(* knew one.                                                               *)
LEMMA UnshiftedTopline ==
  ASSUME NEW end \in Nat, ~Shifted(end), topline # Unseen
  PROVE  Toplines(end)[end] = topline
<1> DEFINE u == Toplines(end)
           seen(i) == i \in Batch(end) /\ staged[i].event.kind = "viewport"
           T == {i \in 0..end : u[i] # topline}
<1>1. \A i \in 0..end : u[i] = IF i = 0 THEN topline
                               ELSE IF seen(i) THEN staged[i].event.top ELSE u[i - 1]
  <2>1. Toplines(end) = CHOOSE v : Reports(end, end, v)
    BY Zenon DEF Toplines, Reports
  <2>2. Reports(end, end, u)
    BY <2>1, ReportsExist
  <2> HIDE DEF u
  <2>3. QED
    BY <2>2 DEF Reports
<1>2. \A i \in 1..end : seen(i) => u[i - 1] \in {Unseen, staged[i].event.top}
  BY DEF Shifted
<1> HIDE DEF u, seen
<1>3. SUFFICES ASSUME T # {} PROVE FALSE
  BY DEF u
<1>4. T \in SUBSET Nat
  OBVIOUS
<1>5. PICK k \in T : \A j \in T : k <= j
  <2> HIDE DEF T
  <2>1. QED
    BY <1>3, <1>4, NatMin
<1>6. k \in 1..end /\ k - 1 \in 0..end /\ k - 1 \notin T /\ k \in 0..end /\ k # 0
  BY <1>1, <1>5
<1>7. u[k - 1] = topline
  BY <1>6
<1>8. u[k] = topline
  BY <1>1, <1>2, <1>6, <1>7
<1>9. QED
  BY <1>5, <1>8

(* Kept picks what it is asked to, and nothing is lost without the length   *)
(* telling.                                                                *)
Picks(n, keep, u) ==
  u = [i \in 0..n |-> IF i = 0 THEN <<>>
                      ELSE IF i \in keep THEN Append(u[i - 1], pending[i])
                      ELSE u[i - 1]]

LEMMA PicksExist ==
  ASSUME NEW n \in Nat, NEW keep
  PROVE  \E u : Picks(n, keep, u)
<1> DEFINE T == {k \in Nat : ~\E u : Picks(k, keep, u)}
<1>1. SUFFICES ASSUME T # {} PROVE FALSE
  BY <1>1
<1>2. PICK k \in T : \A j \in T : k <= j
  BY <1>1, NatMin
<1>3. CASE k = 0
  <2>1. Picks(0, keep, [i \in 0..0 |-> <<>>])
    BY DEF Picks
  <2>2. QED
    BY <2>1, <1>2, <1>3
<1>4. CASE k # 0
  <2>1. k \in Nat /\ k - 1 \in Nat /\ k - 1 \notin T
    BY <1>2, <1>4
  <2>2. PICK t : Picks(k - 1, keep, t)
    BY <2>1
  <2> DEFINE next == IF k \in keep THEN Append(t[k - 1], pending[k]) ELSE t[k - 1]
             u == [i \in 0..k |-> IF i = k THEN next ELSE t[i]]
  <2>3. \A i \in 0..k - 1 : t[i] = IF i = 0 THEN <<>>
                                   ELSE IF i \in keep THEN Append(t[i - 1], pending[i]) ELSE t[i - 1]
    BY <2>2 DEF Picks
  <2>4. \A i \in 0..k : u[i] = IF i = 0 THEN <<>>
                               ELSE IF i \in keep THEN Append(u[i - 1], pending[i]) ELSE u[i - 1]
    <3>1. SUFFICES ASSUME NEW i \in 0..k
                   PROVE  u[i] = IF i = 0 THEN <<>>
                                 ELSE IF i \in keep THEN Append(u[i - 1], pending[i]) ELSE u[i - 1]
      OBVIOUS
    <3>2. i # 0 => i - 1 \in 0..k /\ i - 1 # k
      BY <2>1
    <3>3. CASE i = k
      BY <3>2, <3>3, <1>4
    <3>4. CASE i # k
      <4>1. i \in 0..k - 1
        BY <2>1, <3>4
      <4>2. QED
        BY <2>3, <3>2, <3>4, <4>1
    <3>5. QED
      BY <3>3, <3>4
  <2>5. u = [i \in 0..k |-> u[i]]
    OBVIOUS
  <2> HIDE DEF u
  <2>6. Picks(k, keep, u)
    BY <2>4, <2>5 DEF Picks
  <2>7. QED
    BY <2>6, <1>2
<1>5. QED
  BY <1>3, <1>4

LEMMA KeptIs ==
  ASSUME IsSeq(pending), NEW keep
  PROVE  /\ IsSeq(Kept(keep)) /\ Len(Kept(keep)) <= Len(pending)
         /\ \A i \in 1..Len(Kept(keep)) :
              \E j \in 1..Len(pending) : j \in keep /\ Kept(keep)[i] = pending[j]
         /\ Len(Kept(keep)) = Len(pending) => Kept(keep) = pending
<1> DEFINE n == Len(pending)
           out == CHOOSE u : Picks(n, keep, u)
           Good(i, q) ==
             /\ IsSeq(q) /\ Len(q) <= i
             /\ \A m \in 1..Len(q) : \E j \in 1..n : j \in keep /\ q[m] = pending[j]
             /\ Len(q) = i => \A m \in 1..i : q[m] = pending[m]
           T == {i \in 0..n : ~Good(i, out[i])}
<1>1. n \in Nat /\ pending = [i \in 1..n |-> pending[i]]
  BY DEF IsSeq
<1>2. \A i \in 0..n : out[i] = IF i = 0 THEN <<>>
                               ELSE IF i \in keep THEN Append(out[i - 1], pending[i]) ELSE out[i - 1]
  <2>1. Picks(n, keep, out)
    BY <1>1, PicksExist
  <2> HIDE DEF out
  <2>2. QED
    BY <2>1 DEF Picks
<1>3. Kept(keep) = out[n]
  BY Zenon DEF Kept, Picks
<1> HIDE DEF out, n
<1>4. T = {}
  <2>1. SUFFICES ASSUME T # {} PROVE FALSE
    OBVIOUS
  <2>2. T \in SUBSET Nat
    OBVIOUS
  <2>3. PICK k \in T : \A j \in T : k <= j
    <3> HIDE DEF T
    <3>1. QED
      BY <2>1, <2>2, NatMin
  <2>4. Good(0, <<>>)
    <3> DEFINE e == <<>>
    <3>1. e \in Seq(Nat) /\ Len(e) = 0
      OBVIOUS
    <3> HIDE DEF e
    <3>2. IsSeq(e)
      BY <3>1, SeqIs
    <3>3. Good(0, e)
      BY <3>1, <3>2
    <3>4. QED
      BY <3>3 DEF e
  <2> HIDE DEF Good
  <2>5. k # 0
    BY <1>1, <1>2, <2>3, <2>4
  <2>6. k \in 1..n /\ k - 1 \in 0..n /\ k - 1 \notin T /\ k \in 0..n
    BY <1>1, <2>3, <2>5
  <2> DEFINE q == out[k - 1]
  <2>7. Good(k - 1, q)
    BY <2>6
  <2>8. IsSeq(q) /\ Len(q) \in Nat /\ Len(q) <= k - 1
        /\ \A m \in 1..Len(q) : \E j \in 1..n : j \in keep /\ q[m] = pending[j]
    BY <2>7 DEF Good, IsSeq
  <2>9. Len(q) = k - 1 => \A m \in 1..k - 1 : q[m] = pending[m]
    BY <2>7 DEF Good
  <2> HIDE DEF q
  <2>10. CASE k \in keep
    <3> DEFINE a == Append(q, pending[k])
    <3>1. /\ IsSeq(a) /\ Len(a) = Len(q) + 1
          /\ \A i \in 1..Len(q) : a[i] = q[i]
          /\ a[Len(q) + 1] = pending[k]
      BY <2>8, AppendIs
    <3>2. out[k] = a
      BY <1>2, <2>6, <2>5, <2>10 DEF q
    <3> HIDE DEF a
    <3>3. \A m \in 1..Len(a) : m \in 1..Len(q) \/ m = Len(q) + 1
      BY <2>8, <3>1
    <3>4. \A m \in 1..Len(a) : \E j \in 1..n : j \in keep /\ a[m] = pending[j]
      BY <2>6, <2>8, <2>10, <3>1, <3>3
    <3>5. Len(a) = k => \A m \in 1..k : a[m] = pending[m]
      <4>1. SUFFICES ASSUME Len(a) = k, NEW m \in 1..k PROVE a[m] = pending[m]
        OBVIOUS
      <4>2. Len(q) = k - 1 /\ Len(q) + 1 = k
        BY <2>6, <2>8, <3>1, <4>1
      <4>3. CASE m = k
        BY <3>1, <4>2, <4>3
      <4>4. CASE m # k
        <5>1. m \in 1..k - 1 /\ m \in 1..Len(q)
          BY <2>6, <4>2, <4>4
        <5>2. QED
          BY <2>9, <3>1, <4>2, <5>1
      <4>5. QED
        BY <4>3, <4>4
    <3>6. Len(a) <= k
      BY <2>6, <2>8, <3>1
    <3>7. Good(k, a)
      BY <3>1, <3>4, <3>5, <3>6 DEF Good
    <3>8. QED
      BY <2>3, <3>2, <3>7
  <2>11. CASE k \notin keep
    <3>1. out[k] = q
      BY <1>2, <2>6, <2>5, <2>11 DEF q
    <3>2. Len(q) <= k /\ Len(q) # k
      BY <2>6, <2>8
    <3>3. Good(k, q)
      BY <2>8, <3>2 DEF Good
    <3>4. QED
      BY <2>3, <3>1, <3>3
  <2>12. QED
    BY <2>10, <2>11
<1>5. Good(n, out[n])
  <2>1. n \in 0..n
    BY <1>1
  <2> HIDE DEF Good
  <2>2. QED
    BY <1>4, <2>1
<1>6. Len(out[n]) = n => out[n] = pending
  <2>1. SUFFICES ASSUME Len(out[n]) = n PROVE out[n] = pending
    OBVIOUS
  <2>2. out[n] = [i \in 1..n |-> out[n][i]] /\ \A i \in 1..n : out[n][i] = pending[i]
    BY <1>5, <2>1 DEF IsSeq
  <2>3. QED
    BY <1>1, <2>2
<1>7. QED
  BY <1>3, <1>5, <1>6 DEF n

(* The extremes of finitely many naturals.                                 *)
LEMMA Bounded ==
  ASSUME NEW n \in Nat, NEW f, \A i \in 1..n : f[i] \in Nat
  PROVE  \E b \in Nat : \A i \in 1..n : f[i] <= b
<1> DEFINE P(k) == \E b \in Nat : \A i \in 1..k : f[i] <= b
           T == {k \in 0..n : ~P(k)}
<1>0. P(0)
  OBVIOUS
<1> HIDE DEF P
<1>1. SUFFICES ASSUME ~P(n) PROVE FALSE
  BY DEF P
<1>10. n \in T
  BY <1>1
<1>2. T \in SUBSET Nat
  OBVIOUS
<1>3. PICK k \in T : \A j \in T : k <= j
  <2> HIDE DEF T
  <2>1. QED
    BY <1>10, <1>2, NatMin
<1>4. k # 0
  BY <1>0, <1>3
<1>5. k \in 1..n /\ k - 1 \in 0..n /\ k - 1 \notin T
  BY <1>3, <1>4
<1>6. PICK b \in Nat : \A i \in 1..k - 1 : f[i] <= b
  BY <1>5 DEF P
<1> DEFINE c == IF f[k] <= b THEN b ELSE f[k]
<1>7. c \in Nat /\ b <= c /\ f[k] <= c /\ f[k] \in Nat
  BY <1>5
<1> HIDE DEF c
<1>8. \A i \in 1..k : f[i] <= c
  <2>1. SUFFICES ASSUME NEW i \in 1..k PROVE f[i] <= c
    OBVIOUS
  <2>2. i = k \/ i \in 1..k - 1
    BY <1>5
  <2>3. f[i] \in Nat
    BY <1>5
  <2>4. QED
    BY <1>6, <1>7, <2>2, <2>3
<1>9. QED
  BY <1>3, <1>7, <1>8 DEF P

LEMMA Extremes ==
  ASSUME NEW n \in Nat, NEW f, \A i \in 1..n : f[i] \in Nat,
         NEW I \in SUBSET (1..n), I # {}
  PROVE  LET S == {f[i] : i \in I}
         IN  /\ Max(S) \in S /\ \A y \in S : y <= Max(S)
             /\ Min(S) \in S /\ \A y \in S : Min(S) <= y
<1> DEFINE S == {f[i] : i \in I}
<1>1. S \in SUBSET Nat /\ S # {}
  OBVIOUS
<1>2. PICK b \in Nat : \A i \in 1..n : f[i] <= b
  BY Bounded
<1>3. \A y \in S : y \in Nat /\ y <= b
  BY <1>2
<1> HIDE DEF S
<1>4. \E x \in S : \A y \in S : x <= y
  BY <1>1, NatMin
<1>5. \E x \in S : \A y \in S : x >= y
  <2> DEFINE D == {b - y : y \in S}
  <2>1. D \in SUBSET Nat /\ D # {}
    <3>1. \A y \in S : b - y \in Nat
      BY <1>3
    <3>2. QED
      BY <1>1, <3>1
  <2>2. PICK d \in D : \A j \in D : d <= j
    <3> HIDE DEF D
    <3>1. QED
      BY <2>1, NatMin
  <2>3. PICK x \in S : d = b - x
    BY <2>2
  <2>4. \A y \in S : b - x <= b - y
    BY <2>2, <2>3
  <2>5. \A y \in S : x >= y
    BY <1>3, <2>4
  <2>6. QED
    BY <2>5
<1>6. Min(S) \in S /\ \A y \in S : Min(S) <= y
  BY <1>4 DEF Min
<1>7. Max(S) \in S /\ \A y \in S : Max(S) >= y
  BY <1>5 DEF Max
<1>8. QED
  BY <1>1, <1>6, <1>7 DEF S

LEMMA PredictedIs ==
  ASSUME EchoInv, IsReg(reg), CursorGrid = reg.cursor, reg.mode = "insert"
  PROVE  /\ IsSeq(Predicted) /\ Len(Predicted) = Len(pending) + 1
         /\ \A i \in 1..Len(Predicted) :
              IsCell(Predicted[i]) /\ Stands(reg, topline, Predicted[i])
<1> DEFINE n == Len(pending)
           g == CursorGrid
           row == reg.grids[g].cursor[1]
           col == reg.grids[g].cursor[2]
           on == {j \in DOMAIN pending : pending[j].grid = g /\ pending[j].row = row /\ pending[j].col >= col}
           taken == {pending[i].col : i \in on}
           at == IF taken = {} THEN col ELSE Max(taken) + 1
           c == [grid |-> g, row |-> row, col |-> at, glyph |-> nr + 1, made |-> Under(g, row, at)]
<1>1. /\ n \in Nat /\ IsSeq(pending) /\ DOMAIN pending = 1..n
      /\ \A i \in 1..n : IsCell(pending[i]) /\ Stands(reg, topline, pending[i])
  BY DEF EchoInv, IsSeq
<1>2. g \in Grids /\ row \in Nat /\ col \in Nat
  BY DEF IsReg, IsGrid
<1>3. at \in Nat
  <2>1. CASE taken = {}
    BY <1>2, <2>1
  <2>2. CASE taken # {}
    <3> DEFINE f == [i \in 1..n |-> pending[i].col]
    <3>1. on \in SUBSET (1..n) /\ on # {}
      BY <1>1, <2>2
    <3>2. \A i \in 1..n : f[i] \in Nat
      BY <1>1 DEF IsCell
    <3>3. taken = {f[i] : i \in on}
      BY <3>1
    <3> HIDE DEF f, on, taken
    <3>4. Max(taken) \in taken
      BY <1>1, <3>1, <3>2, <3>3, Extremes
    <3>5. Max(taken) \in Nat
      BY <3>1, <3>2, <3>3, <3>4
    <3>6. QED
      BY <2>2, <3>5
  <2>3. QED
    BY <2>1, <2>2
<1> HIDE DEF at, on, taken
<1>4. Predicted = Append(pending, c)
  BY DEF Predicted, at, taken, on
<1>5. IsCell(c)
  BY <1>2, <1>3 DEF IsCell
<1>6. Stands(reg, topline, c)
  BY DEF Stands, Under, Content
<1> HIDE DEF c, n
<1>7. /\ IsSeq(Append(pending, c)) /\ Len(Append(pending, c)) = Len(pending) + 1
      /\ \A i \in 1..Len(pending) : Append(pending, c)[i] = pending[i]
      /\ Append(pending, c)[Len(pending) + 1] = c
  BY <1>1, AppendIs
<1>8. \A i \in 1..Len(pending) + 1 : i \in 1..Len(pending) \/ i = Len(pending) + 1
  BY <1>1 DEF n
<1>9. QED
  BY <1>1, <1>4, <1>5, <1>6, <1>7, <1>8 DEF n

LEMMA EchoDispatch ==
  ASSUME FrameInv, EchoInv, NEW end \in 0..Len(staged), DrainTo(end),
         pending' = Reconciled(end), topline' = Toplines(end)[end]
  PROVE  EchoInv'
<1>1. /\ IsReg(reg) /\ Entries(staged) /\ Len(staged) \in Nat /\ end \in Nat
      /\ reg' = Trail(reg, staged)[end]
  BY DEF FrameInv, FramesAre, BufferIs, IsSeq, DrainTo
<1>2. CASE (\E i \in Batch(end) : staged[i].event.kind = "mode") \/ Shifted(end)
  <2>1. pending' = <<>>
    BY <1>2 DEF Reconciled
  <2>2. pending' \in Seq(Nat) /\ Len(pending') = 0
    BY <2>1
  <2>3. IsSeq(pending')
    BY <2>2, SeqIs
  <2>4. QED
    BY <2>2, <2>3 DEF EchoInv
<1>3. CASE ~((\E i \in Batch(end) : staged[i].event.kind = "mode") \/ Shifted(end))
  <2> DEFINE keep == {j \in DOMAIN pending : ~\E i \in Batch(end) : Answers(staged[i].event, pending[j])}
             kept == Kept(keep)
  <2>1. pending' = kept
    BY <1>3 DEF Reconciled
  <2>2. IsSeq(pending)
    BY DEF EchoInv
  <2>3. /\ IsSeq(kept)
        /\ \A i \in 1..Len(kept) : \E j \in 1..Len(pending) : j \in keep /\ kept[i] = pending[j]
    BY <2>2, KeptIs
  <2> HIDE DEF kept
  <2>4. \A i \in 1..Len(kept) : IsCell(kept[i]) /\ Stands(reg', topline', kept[i])
    <3>1. SUFFICES ASSUME NEW i \in 1..Len(kept)
                   PROVE  IsCell(kept[i]) /\ Stands(reg', topline', kept[i])
      OBVIOUS
    <3>2. PICK j \in 1..Len(pending) : j \in keep /\ kept[i] = pending[j]
      BY <2>3
    <3> DEFINE c == pending[j]
    <3>3. IsCell(c) /\ Stands(reg, topline, c)
      BY DEF EchoInv
    <3>4. \A k \in 1..end : staged[k].alive
            => staged[k].event.kind # "mode" /\ ~Answers(staged[k].event, c)
      BY <1>3, <3>2 DEF Batch
    <3> HIDE DEF c
    <3>5. Stands(reg', topline, c)
      BY <1>1, <3>3, <3>4, UnansweredTrail
    <3>6. topline # Unseen => topline' = topline
      BY <1>1, <1>3, UnshiftedTopline
    <3>7. Stands(reg', topline', c)
      <4>1. c.made.top \in {Unseen, topline'}
        BY <3>5, <3>6 DEF Stands
      <4>2. QED
        BY <3>5, <4>1 DEF Stands
    <3>8. QED
      BY <3>2, <3>3, <3>7 DEF c
  <2>5. QED
    BY <2>1, <2>3, <2>4 DEF EchoInv
<1>4. QED
  BY <1>2, <1>3

LEMMA NoPrediction ==
  ASSUME pending' = <<>>
  PROVE  EchoInv'
<1>1. pending' \in Seq(Nat) /\ Len(pending') = 0
  OBVIOUS
<1>2. IsSeq(pending')
  BY <1>1, SeqIs
<1>3. QED
  BY <1>1, <1>2 DEF EchoInv

LEMMA EchoInvInit == Init => EchoInv
<1>1. SUFFICES ASSUME Init PROVE EchoInv
  OBVIOUS
<1>2. pending = <<>>
  BY <1>1 DEF Init
<1>3. pending \in Seq(Nat) /\ Len(pending) = 0
  BY <1>2
<1>4. IsSeq(pending)
  BY <1>3, SeqIs
<1>5. QED
  BY <1>3, <1>4 DEF EchoInv

LEMMA EchoInvNext ==
  ASSUME FrameInv, EchoInv, [Next]_vars
  PROVE  EchoInv'
<1>1. /\ IsSeq(pending) /\ Len(pending) \in Nat
      /\ \A i \in 1..Len(pending) : IsCell(pending[i]) /\ Stands(reg, topline, pending[i])
      /\ IsReg(reg) /\ flushIndex \in 0..Len(staged) /\ Len(staged) \in Nat
  BY DEF EchoInv, FrameInv, FramesAre, BufferIs, IsSeq
<1>2. CASE UNCHANGED <<reg, pending, topline>>
  BY <1>1, <1>2 DEF EchoInv
<1>3. CASE (Fold \/ FoldFlush \/ RaiseBarrier \/ LowerBarrier) /\ UNCHANGED <<echo, dirty, painter>>
  BY <1>2, <1>3 DEF Fold, FoldFlush, RaiseBarrier, LowerBarrier, echo
<1>4. CASE Drain
  <2>1. CASE TakeToBarrier /\ Dispatch(BarrierEnd)
    <3>1. DrainTo(BarrierEnd) /\ BarrierEnd \in 0..flushIndex
      BY <2>1, DrainsEndAtFlushes DEF TakeToBarrier
    <3>2. BarrierEnd \in 0..Len(staged)
      BY <1>1, <3>1
    <3>3. pending' = Reconciled(BarrierEnd) /\ topline' = Toplines(BarrierEnd)[BarrierEnd]
      BY <2>1 DEF Dispatch
    <3>4. QED
      BY <3>1, <3>2, <3>3, EchoDispatch
  <2>2. CASE PassBarrier /\ Dispatch(Head(barriers))
    <3>1. DrainTo(Head(barriers)) /\ Head(barriers) \in 0..flushIndex
      BY <2>2, DrainsEndAtFlushes DEF PassBarrier
    <3>2. Head(barriers) \in 0..Len(staged)
      BY <1>1, <3>1
    <3>3. pending' = Reconciled(Head(barriers)) /\ topline' = Toplines(Head(barriers))[Head(barriers)]
      BY <2>2 DEF Dispatch
    <3>4. QED
      BY <3>1, <3>2, <3>3, EchoDispatch
  <2>3. QED
    BY <1>4, <2>1, <2>2 DEF Drain
<1>5. CASE TypePlain
  <2>1. UNCHANGED <<reg, topline>>
    BY <1>5 DEF TypePlain
  <2>2. CASE CursorGrid # reg.cursor
    BY <1>2, <1>5, <2>1, <2>2 DEF TypePlain
  <2>3. CASE CursorGrid = reg.cursor /\ reg.mode # "insert"
    BY <1>5, <2>3, NoPrediction DEF TypePlain
  <2>4. CASE CursorGrid = reg.cursor /\ reg.mode = "insert"
    <3>1. pending' = Predicted
      BY <1>5, <2>4 DEF TypePlain
    <3>2. /\ IsSeq(Predicted)
          /\ \A i \in 1..Len(Predicted) : IsCell(Predicted[i]) /\ Stands(reg, topline, Predicted[i])
      BY <1>1, <2>4, PredictedIs
    <3>3. QED
      BY <2>1, <3>1, <3>2 DEF EchoInv
  <2>5. QED
    BY <2>2, <2>3, <2>4
<1>6. CASE TypeOther
  BY <1>6, NoPrediction DEF TypeOther
<1>7. CASE Expire
  <2>1. PICK n \in 1..Len(pending) : pending' = SubSeq(pending, n + 1, Len(pending))
    BY <1>7 DEF Expire
  <2>2. UNCHANGED <<reg, topline>>
    BY <1>7 DEF Expire, redrawVars
  <2> DEFINE q == SubSeq(pending, n + 1, Len(pending))
  <2>3. n \in 0..Len(pending)
    BY <1>1
  <2>4. /\ IsSeq(q) /\ Len(q) = Len(pending) - n
        /\ \A i \in 1..Len(pending) - n : q[i] = pending[n + i]
    BY <1>1, <2>3, SubSeqIs
  <2> HIDE DEF q
  <2>5. \A i \in 1..Len(q) : n + i \in 1..Len(pending)
    BY <1>1, <2>3, <2>4
  <2>6. \A i \in 1..Len(q) : IsCell(q[i]) /\ Stands(reg, topline, q[i])
    BY <1>1, <2>4, <2>5
  <2>7. QED
    BY <2>1, <2>2, <2>4, <2>6 DEF EchoInv, q
<1>8. CASE Paint
  <2>1. reg' = Drained(reg) /\ UNCHANGED <<pending, topline>>
    BY <1>8 DEF Paint, echo
  <2> DEFINE d == Drained(reg)
  <2>2. /\ \A i \in Grids : d.grids[i] = Clean(reg.grids[i]) /\ Clean(reg.grids[i]).cells = reg.grids[i].cells
        /\ d.placed = reg.placed /\ d.mode = reg.mode
    BY <1>1, DrainedIs, CleanIs DEF IsReg
  <2> HIDE DEF d
  <2>3. \A i \in 1..Len(pending) : Stands(d, topline, pending[i])
    BY <1>1, <2>2, ZenonT(60) DEF Stands, Content, IsCell
  <2>4. QED
    BY <1>1, <2>1, <2>3 DEF EchoInv, d
<1>9. CASE UNCHANGED vars
  BY <1>2, <1>9 DEF vars, redrawVars, echo
<1>10. QED
  BY <1>3, <1>4, <1>5, <1>6, <1>7, <1>8, <1>9 DEF Next

(* SpeculateState: a predicted glyph is only ever painted over the content, *)
(* the window's place, the viewport and the mode it was made for, whatever  *)
(* nvim sends, compaction drops and the batches are cut into.              *)
THEOREM PredictionsStand == Spec => []PredictionsStandOnTheirContent
<1>1. EchoInv => PredictionsStandOnTheirContent
  <2>1. SUFFICES ASSUME EchoInv PROVE PredictionsStandOnTheirContent
    OBVIOUS
  <2>2. DOMAIN pending = 1..Len(pending)
    BY <2>1 DEF EchoInv, IsSeq
  <2>3. QED
    BY <2>1, <2>2 DEF EchoInv, PredictionsStandOnTheirContent, Stands, Under, Content
<1>2. FrameInv /\ EchoInv /\ [Next]_vars => EchoInv'
  BY EchoInvNext
<1>3. QED
  BY <1>1, <1>2, EchoInvInit, FrameInvHolds, PTL DEF Spec

-----------------------------------------------------------------------------
(* What the damage says: an event that leaves a row unmarked has left its   *)
(* cells.                                                                   *)

Marked(a, b) ==
  ~b.full =>
    /\ ~a.full /\ a.rows \subseteq b.rows
    /\ DOMAIN b.cells = DOMAIN a.cells
    /\ \A p \in DOMAIN a.cells : p[1] \notin b.rows => b.cells[p] = a.cells[p]

Grown(r, s) ==
  ~s.moved =>
    /\ ~r.moved /\ s.placed = r.placed /\ s.cursor = r.cursor
    /\ \A i \in Grids : Marked(r.grids[i], s.grids[i])

LEMMA ChangedMarks ==
  ASSUME NEW g, IsGrid(g), NEW e \in UiEvent, e.kind \in CellKinds
  PROVE  Marked(g, Changed(g, e))
<1>1. /\ DOMAIN g.cells = Places(g.w, g.h) /\ g.w \in Nat /\ g.h \in Nat /\ g.rows \subseteq Nat
      /\ g = [w |-> g.w, h |-> g.h, cells |-> g.cells, cursor |-> g.cursor,
              full |-> g.full, rows |-> g.rows]
  BY DEF IsGrid
<1>2. CASE e.kind = "resize"
  BY <1>2 DEF Changed, Resize, Marked
<1>3. CASE e.kind = "clear"
  <2>1. Changed(g, e) = [g EXCEPT !.cells = [p \in DOMAIN g.cells |-> Blank], !.full = TRUE]
    BY <1>3 DEF Changed, Clear
  <2> DEFINE b == Changed(g, e)
  <2> HIDE DEF b
  <2>2. b.full
    BY <1>1, <2>1 DEF b
  <2>3. QED
    BY <2>2 DEF Marked, b
<1>4. CASE e.kind = "goto"
  <2>1. Changed(g, e) = CursorGoto(g, e.row, e.col)
    BY <1>4 DEF Changed
  <2> DEFINE c == CursorGoto(g, e.row, e.col).cursor
  <2>2. CursorGoto(g, e.row, e.col) = [g EXCEPT !.cursor = c]
    BY <1>1 DEF CursorGoto
  <2> HIDE DEF c
  <2>3. QED
    BY <1>1, <2>1, <2>2 DEF Marked
<1>5. CASE e.kind = "line"
  <2> DEFINE c == [p \in DOMAIN g.cells |->
                     IF p[1] = e.row /\ p[2] \in e.col..(e.col + e.span - 1)
                     THEN e.value ELSE g.cells[p]]
             b == Changed(g, e)
  <2>1. b = IF e.row >= g.h THEN g ELSE [g EXCEPT !.cells = c, !.rows = @ \cup {e.row}]
    BY <1>5 DEF Changed, PutLine
  <2>2. DOMAIN c = DOMAIN g.cells /\ \A p \in DOMAIN g.cells : p[1] # e.row => c[p] = g.cells[p]
    OBVIOUS
  <2> HIDE DEF b, c
  <2>3. b = g \/ (b.full = g.full /\ b.cells = c /\ b.rows = g.rows \cup {e.row})
    BY <1>1, <2>1
  <2>4. QED
    BY <2>2, <2>3 DEF Marked, b
<1>6. CASE e.kind = "scroll"
  <2> DEFINE bot == Lesser(e.bot, g.h)
             right == Lesser(Cols, g.w)
             c == [p \in DOMAIN g.cells |->
                     IF ~(p[1] \in e.top..bot-1 /\ p[2] \in 0..right-1) THEN g.cells[p]
                     ELSE IF p[1] + e.by \in e.top..bot-1 THEN g.cells[<<p[1] + e.by, p[2]>>]
                     ELSE Blank]
             b == Changed(g, e)
  <2>1. b = IF e.top >= bot \/ 0 >= right \/ e.by = 0 THEN g
            ELSE [g EXCEPT !.cells = c, !.rows = @ \cup (e.top..bot-1)]
    BY <1>6 DEF Changed, Scroll
  <2>2. DOMAIN c = DOMAIN g.cells
        /\ \A p \in DOMAIN g.cells : p[1] \notin e.top..bot-1 => c[p] = g.cells[p]
    OBVIOUS
  <2> HIDE DEF b, c, bot, right
  <2>3. b = g \/ (b.full = g.full /\ b.cells = c /\ b.rows = g.rows \cup (e.top..bot-1))
    BY <1>1, <2>1
  <2>4. QED
    BY <2>2, <2>3 DEF Marked, b
<1>7. QED
  BY <1>2, <1>3, <1>4, <1>5, <1>6 DEF CellKinds

LEMMA MarkedIsTransitive ==
  ASSUME NEW a, NEW b, NEW c, Marked(a, b), Marked(b, c)
  PROVE  Marked(a, c)
BY DEF Marked

LEMMA GrownIsTransitive ==
  ASSUME NEW r, NEW s, NEW t, Grown(r, s), Grown(s, t)
  PROVE  Grown(r, t)
BY MarkedIsTransitive DEF Grown

LEMMA GrownIsReflexive ==
  ASSUME NEW r
  PROVE  Grown(r, r)
BY DEF Grown, Marked

LEMMA ApplyGrows ==
  ASSUME NEW r, IsReg(r), NEW e, IsStep(e)
  PROVE  Grown(r, Apply(r, e))
<1> DEFINE s == Apply(r, e)
<1>1. CASE e.kind \in CellKinds
  <2>1. e \in UiEvent /\ e.grid \in Grids
    BY <1>1, CellFields DEF IsStep, CellKinds
  <2>2. /\ s.grids[e.grid] = Changed(r.grids[e.grid], e)
        /\ \A i \in Grids : i # e.grid => s.grids[i] = r.grids[i]
        /\ s.placed = r.placed
        /\ s.cursor = IF e.kind = "goto" THEN e.grid ELSE r.cursor
        /\ s.moved = (r.moved \/ (e.kind = "goto" /\ r.cursor # e.grid))
    BY <1>1, <2>1, ApplyIs, ApplyCellsIs
  <2> HIDE DEF s
  <2>3. Marked(r.grids[e.grid], Changed(r.grids[e.grid], e))
    BY <1>1, <2>1, ChangedMarks DEF IsReg
  <2>4. \A i \in Grids : Marked(r.grids[i], s.grids[i])
    BY <2>2, <2>3 DEF Marked
  <2>5. ~s.moved => ~r.moved /\ s.cursor = r.cursor
    BY <2>2
  <2>6. QED
    BY <2>2, <2>4, <2>5 DEF Grown, s
<1>2. CASE e.kind \in Placements
  <2>1. e \in UiEvent /\ s = ApplyPlacement(r, e)
    BY <1>2, ApplyIs DEF IsStep, Placements
  <2>2. ApplyPlacement(r, e).moved
    BY <1>2, <2>1, ApplyPlacementIs
  <2> HIDE DEF s
  <2>3. QED
    BY <2>1, <2>2 DEF Grown, s
<1>3. CASE e.kind \notin CellKinds \cup Placements
  <2>1. s.grids = r.grids /\ s.placed = r.placed /\ s.cursor = r.cursor /\ s.moved = r.moved
    BY <1>3, ApplyOtherIs
  <2>2. QED
    BY <2>1 DEF Grown, Marked
<1>4. QED
  BY <1>1, <1>2, <1>3

LEMMA TrailGrows ==
  ASSUME NEW r, IsReg(r), NEW s, Len(s) \in Nat, Entries(s), NEW end \in 0..Len(s)
  PROVE  /\ Grown(r, Trail(r, s)[end])
         /\ IsReg(Trail(r, s)[end])
         /\ (\A i \in 1..end : ~s[i].alive) => Trail(r, s)[end] = r
<1> DEFINE t == Trail(r, s)
           Good(i) == /\ Grown(r, t[i])
                      /\ (\A j \in 1..i : ~s[j].alive) => t[i] = r
           T == {i \in 0..end : ~Good(i)}
<1>1. /\ t[0] = r
      /\ \A i \in 1..Len(s) : t[i] = IF s[i].alive THEN Apply(t[i - 1], s[i].event) ELSE t[i - 1]
      /\ \A i \in 0..Len(s) : IsReg(t[i])
  BY TrailIs, TrailOfRegs
<1> HIDE DEF t
<1>2. T = {}
  <2>1. SUFFICES ASSUME T # {} PROVE FALSE
    OBVIOUS
  <2>2. T \in SUBSET Nat
    OBVIOUS
  <2>3. PICK k \in T : \A j \in T : k <= j
    <3> HIDE DEF T
    <3>1. QED
      BY <2>1, <2>2, NatMin
  <2>4. Good(0)
    BY <1>1, GrownIsReflexive
  <2> HIDE DEF Good
  <2>5. k # 0
    BY <2>3, <2>4
  <2>6. k \in 1..end /\ k - 1 \in 0..end /\ k - 1 \notin T /\ k \in 1..Len(s) /\ k - 1 \in 0..Len(s)
    BY <2>3, <2>5
  <2>7. Good(k - 1)
    BY <2>6
  <2>8. IsReg(t[k - 1]) /\ IsStep(s[k].event)
    BY <1>1, <2>6 DEF Entries
  <2>9. Grown(t[k - 1], t[k])
    BY <1>1, <2>6, <2>8, ApplyGrows, GrownIsReflexive
  <2>10. Grown(r, t[k])
    BY <2>7, <2>9, GrownIsTransitive DEF Good
  <2>11. (\A j \in 1..k : ~s[j].alive) => t[k] = r
    <3>1. SUFFICES ASSUME \A j \in 1..k : ~s[j].alive PROVE t[k] = r
      OBVIOUS
    <3>2. k \in 1..k /\ \A j \in 1..k - 1 : j \in 1..k
      BY <2>6
    <3>3. t[k - 1] = r
      BY <2>7, <3>1, <3>2 DEF Good
    <3>4. QED
      BY <1>1, <2>6, <3>1, <3>2, <3>3
  <2>12. QED
    BY <2>3, <2>10, <2>11 DEF Good
<1>3. end \in 0..end /\ IsReg(t[end])
  BY <1>1
<1>4. Good(end)
  <2> HIDE DEF Good
  <2>1. QED
    BY <1>2, <1>3
<1>5. QED
  BY <1>3, <1>4 DEF t

(* The terminal's cells outside the damage taken are as they were.         *)
LEMMA GrownShows ==
  ASSUME NEW r, IsReg(r), NEW s, IsReg(s), Grown(r, s), ~TakenDamage(s).full
  PROVE  /\ ~TakenDamage(r).full
         /\ TakenDamage(r).rows \subseteq TakenDamage(s).rows
         /\ \A p \in Terminal : p[1] \notin TakenDamage(s).rows => Composite(s)[p] = Composite(r)[p]
<1>1. Global \in Grids /\ Win \in Grids /\ Global # Win
  BY DEF Global, Win, Grids
<1>2. /\ ~s.moved /\ ~s.grids[Global].full /\ (~s.placed.hidden => ~s.grids[Win].full)
  BY DEF TakenDamage, Damage
<1>3. /\ ~r.moved /\ s.placed = r.placed /\ s.cursor = r.cursor
      /\ Marked(r.grids[Global], s.grids[Global]) /\ Marked(r.grids[Win], s.grids[Win])
  BY <1>1, <1>2 DEF Grown
<1> DEFINE row == r.placed.row
           hidden == r.placed.hidden
           a == r.grids[Global]
           b == s.grids[Global]
           c == r.grids[Win]
           d == s.grids[Win]
<1>4. /\ ~a.full /\ a.rows \subseteq b.rows /\ DOMAIN b.cells = DOMAIN a.cells
      /\ \A p \in DOMAIN a.cells : p[1] \notin b.rows => b.cells[p] = a.cells[p]
  BY <1>2, <1>3 DEF Marked
<1>5. ~hidden => /\ ~c.full /\ c.rows \subseteq d.rows /\ DOMAIN d.cells = DOMAIN c.cells
                 /\ \A p \in DOMAIN c.cells : p[1] \notin d.rows => d.cells[p] = c.cells[p]
  BY <1>2, <1>3 DEF Marked
<1>6. TakenDamage(s).rows = b.rows \cup IF ~hidden THEN {i + row : i \in d.rows} ELSE {}
  BY <1>2, <1>3 DEF TakenDamage, Damage
<1>7. TakenDamage(r).rows = a.rows \cup IF ~hidden THEN {i + row : i \in c.rows} ELSE {}
  BY <1>3, <1>4, <1>5 DEF TakenDamage, Damage
<1>8. ~TakenDamage(r).full
  BY <1>3, <1>4, <1>5 DEF TakenDamage, Damage
<1>9. TakenDamage(r).rows \subseteq TakenDamage(s).rows
  BY <1>4, <1>5, <1>6, <1>7
<1>10. ASSUME NEW p \in Terminal, p[1] \notin TakenDamage(s).rows
       PROVE  Composite(s)[p] = Composite(r)[p]
  <2> DEFINE at == <<p[1] - row, p[2]>>
             over == ~hidden /\ p \in DOMAIN a.cells /\ at \in DOMAIN c.cells
             pane == IF over THEN Win ELSE Global
  <2>1. row \in Nat /\ p[1] \in Int
    BY DEF IsReg, Terminal
  <2>2. p \in DOMAIN a.cells => b.cells[p] = a.cells[p]
    BY <1>4, <1>6, <1>10
  <2>3. over => d.cells[at] = c.cells[at]
    <3>1. SUFFICES ASSUME over PROVE d.cells[at] = c.cells[at]
      OBVIOUS
    <3>2. p[1] = (p[1] - row) + row /\ at[1] = p[1] - row
      BY <2>1
    <3>3. at[1] \notin d.rows
      BY <1>6, <1>10, <3>1, <3>2
    <3>4. QED
      BY <1>5, <3>1, <3>3
  <2>4. Composite(r)[p] = <<IF pane = Win THEN c.cells[at]
                            ELSE IF p \in DOMAIN a.cells THEN a.cells[p] ELSE Blank,
                            pane = r.cursor>>
    BY Zenon DEF Composite
  <2>5. /\ (~s.placed.hidden /\ p \in DOMAIN b.cells /\ <<p[1] - s.placed.row, p[2]>> \in DOMAIN d.cells) <=> over
        /\ <<p[1] - s.placed.row, p[2]>> = at
    BY <1>3, <1>4, <1>5
  <2> DEFINE pane2 == IF /\ ~s.placed.hidden /\ p \in DOMAIN b.cells
                         /\ <<p[1] - s.placed.row, p[2]>> \in DOMAIN d.cells THEN Win ELSE Global
  <2>6. Composite(s)[p] = <<IF pane2 = Win THEN d.cells[<<p[1] - s.placed.row, p[2]>>]
                            ELSE IF p \in DOMAIN b.cells THEN b.cells[p] ELSE Blank,
                            pane2 = s.cursor>>
    BY Zenon DEF Composite
  <2>7. pane2 = pane
    BY <2>5
  <2> HIDE DEF at, over, pane, pane2
  <2>8. QED
    <3>1. pane = Win => over
      BY <1>1 DEF pane
    <3>2. IF pane2 = Win THEN d.cells[<<p[1] - s.placed.row, p[2]>>] = c.cells[at]
          ELSE (IF p \in DOMAIN b.cells THEN b.cells[p] ELSE Blank)
                 = (IF p \in DOMAIN a.cells THEN a.cells[p] ELSE Blank)
      BY <1>4, <2>2, <2>3, <2>5, <2>7, <3>1
    <3>3. QED
      BY <1>3, <2>4, <2>6, <2>7, <3>2
<1>11. QED
  BY <1>8, <1>9, <1>10

-----------------------------------------------------------------------------
(* Surfaces, and what a cell shows of one.                                 *)

Over(l, p) == {i \in DOMAIN l.cells : l.cells[i].at = p}

(* Cell, of the cell c that the grid layer has there.                      *)
CellOver(c, surface, p) ==
  LET on == {i \in DOMAIN surface : Over(surface[i], p) # {}}
      top == surface[Max(on)]
      glyph == top.cells[Max(Over(top, p))].glyph
  IN  IF on = {} THEN c ELSE <<glyph, top.kind = "speculated" /\ c[2]>>

LEMMA CellIs ==
  ASSUME NEW surface, NEW p
  PROVE  Cell(surface, p) = CellOver(Composite(reg)[p], surface, p)
BY Zenon DEF Cell, CellOver, Over

Covering(l) == l.rows \subseteq Int /\ \A j \in DOMAIN l.cells : l.cells[j].at[1] \in l.rows

IsSurface(s) == IsSeq(s) /\ \A i \in 1..Len(s) : Covering(s[i])

(* A cell outside the overlays' damage is under the layers it was under.   *)
LEMMA UndamagedCell ==
  ASSUME IsSurface(layers), NEW s, IsSurface(s), NEW p, p[1] \notin OverlayDamage(s), NEW c
  PROVE  CellOver(c, s, p) = CellOver(c, layers, p)
<1> DEFINE on(q) == {i \in DOMAIN q : Over(q[i], p) # {}}
<1>1. /\ DOMAIN s = 1..Len(s) /\ DOMAIN layers = 1..Len(layers)
      /\ Len(s) \in Nat /\ Len(layers) \in Nat
  BY DEF IsSurface, IsSeq
<1>2. \A i \in DOMAIN s \cup DOMAIN layers :
        \/ i \in DOMAIN layers /\ i \in DOMAIN s /\ s[i] = layers[i]
        \/ /\ i \in DOMAIN s => p[1] \notin s[i].rows
           /\ i \in DOMAIN layers => p[1] \notin layers[i].rows
  BY DEF OverlayDamage
<1>3. /\ \A i \in on(s) : p[1] \in s[i].rows
      /\ \A i \in on(layers) : p[1] \in layers[i].rows
  BY <1>1 DEF IsSurface, Covering, Over
<1>4. on(s) = on(layers) /\ \A i \in on(s) : s[i] = layers[i]
  BY <1>2, <1>3
<1>5. CASE on(s) = {}
  BY <1>4, <1>5 DEF CellOver
<1>6. CASE on(s) # {}
  <2> DEFINE n == Len(s)
             f == [i \in 1..n |-> i]
             I == on(s)
  <2>1. I \in SUBSET (1..n) /\ I # {} /\ \A i \in 1..n : f[i] \in Nat
    BY <1>1, <1>6
  <2>2. I = {f[i] : i \in I}
    BY <2>1
  <2>3. n \in Nat
    BY <1>1
  <2> HIDE DEF f, I, n
  <2>4. Max(I) \in I
    BY <2>1, <2>2, <2>3, Extremes
  <2>5. s[Max(on(s))] = layers[Max(on(layers))]
    BY <1>4, <2>4 DEF I
  <2>6. CellOver(c, s, p) = <<s[Max(on(s))].cells[Max(Over(s[Max(on(s))], p))].glyph,
                              s[Max(on(s))].kind = "speculated" /\ c[2]>>
    BY <1>6, Zenon DEF CellOver
  <2>7. CellOver(c, layers, p)
          = <<layers[Max(on(layers))].cells[Max(Over(layers[Max(on(layers))], p))].glyph,
              layers[Max(on(layers))].kind = "speculated" /\ c[2]>>
    BY <1>4, <1>6, Zenon DEF CellOver
  <2>8. QED
    BY <2>5, <2>6, <2>7
<1>7. QED
  BY <1>5, <1>6

(* The two layers, of what they are made of.                               *)
Visible ==
  {i \in DOMAIN pending :
     /\ pending[i].grid = Win => ~reg.placed.hidden
     /\ <<pending[i].row, pending[i].col>> \in DOMAIN reg.grids[pending[i].grid].cells}

EchoLayer(shows, row) ==
  LET cells == [i \in DOMAIN shows |->
                  [at |-> <<shows[i].row + IF shows[i].grid = Win THEN row ELSE 0,
                            shows[i].col>>,
                   glyph |-> shows[i].glyph]]
      on == {cells[i].at[1] : i \in DOMAIN cells}
  IN  IF cells = <<>> THEN <<>>
      ELSE <<[kind |-> "speculated", rows |-> Min(on)..Max(on), cells |-> cells]>>

LineLayer(w, h, line) ==
  IF line = NoLine THEN <<>>
  ELSE <<[kind |-> "cmdline", rows |-> {h - 1},
          cells |-> [i \in 1..w |-> [at |-> <<h - 1, i - 1>>, glyph |-> line]]]>>

LEMMA SurfaceIs ==
  Surface = EchoLayer(Kept(Visible), reg.placed.row)
              \o LineLayer(reg.grids[Global].w, reg.grids[Global].h, reg.cmdline)
<1>1. SpeculatedLayer = EchoLayer(Kept(Visible), reg.placed.row)
  BY Zenon DEF SpeculatedLayer, EchoLayer, Visible
<1>2. CmdlineLayer = LineLayer(reg.grids[Global].w, reg.grids[Global].h, reg.cmdline)
  BY Zenon DEF CmdlineLayer, LineLayer
<1>3. QED
  BY <1>1, <1>2 DEF Surface

LEMMA EchoLayerIs ==
  ASSUME NEW shows, IsSeq(shows), \A i \in 1..Len(shows) : IsCell(shows[i]), NEW row \in Nat
  PROVE  \E l : Covering(l) /\ EchoLayer(shows, row) \in {<<>>, <<l>>}
<1> DEFINE n == Len(shows)
           cells == [i \in DOMAIN shows |->
                       [at |-> <<shows[i].row + IF shows[i].grid = Win THEN row ELSE 0,
                                 shows[i].col>>,
                        glyph |-> shows[i].glyph]]
           on == {cells[i].at[1] : i \in DOMAIN cells}
           l == [kind |-> "speculated", rows |-> Min(on)..Max(on), cells |-> cells]
           f == [i \in 1..n |-> cells[i].at[1]]
           I == 1..n
<1>1. DOMAIN shows = 1..n /\ n \in Nat
  BY DEF IsSeq
<1>2. EchoLayer(shows, row) \in {<<>>, <<l>>}
  BY Zenon DEF EchoLayer
<1>3. \A i \in 1..n : f[i] \in Nat
  BY <1>1 DEF IsCell
<1>4. DOMAIN cells = 1..n
  BY <1>1
<1>5. on = {f[i] : i \in I}
  BY <1>4
<1>6. l.cells = cells /\ l.rows = Min(on)..Max(on)
  OBVIOUS
<1> HIDE DEF cells, on
<1>7. ASSUME NEW j \in 1..n
      PROVE  cells[j].at[1] \in Min(on)..Max(on)
  <2>1. I \in SUBSET (1..n) /\ I # {} /\ f[j] \in on /\ f[j] = cells[j].at[1]
    BY <1>5, <1>7
  <2>2. on \subseteq Nat
    BY <1>3, <1>5
  <2> HIDE DEF f, I, n
  <2>3. /\ Max(on) \in on /\ \A y \in on : y <= Max(on)
        /\ Min(on) \in on /\ \A y \in on : Min(on) <= y
    BY <1>1, <1>3, <1>5, <2>1, Extremes
  <2>4. QED
    BY <2>1, <2>2, <2>3
<1> HIDE DEF f, I, n, l
<1>8. Covering(l)
  BY <1>4, <1>6, <1>7 DEF Covering
<1>9. QED
  BY <1>2, <1>8

LEMMA LineLayerIs ==
  ASSUME NEW w \in Nat, NEW h \in Nat, NEW line
  PROVE  \E l : Covering(l) /\ LineLayer(w, h, line) \in {<<>>, <<l>>}
<1> DEFINE cells == [i \in 1..w |-> [at |-> <<h - 1, i - 1>>, glyph |-> line]]
           l == [kind |-> "cmdline", rows |-> {h - 1}, cells |-> cells]
<1>1. LineLayer(w, h, line) \in {<<>>, <<l>>}
  BY Zenon DEF LineLayer
<1>2. DOMAIN cells = 1..w /\ \A j \in 1..w : cells[j].at[1] = h - 1
  OBVIOUS
<1>3. l.cells = cells /\ l.rows = {h - 1}
  OBVIOUS
<1> HIDE DEF l, cells
<1>4. Covering(l)
  BY <1>2, <1>3 DEF Covering
<1>5. QED
  BY <1>1, <1>4

LEMMA TwoLayers ==
  ASSUME NEW x, NEW y, Covering(x), Covering(y), NEW a \in {<<>>, <<x>>}, NEW b \in {<<>>, <<y>>}
  PROVE  IsSurface(a \o b)
<1>1. <<>> \in Seq({x, y}) /\ <<x>> \in Seq({x, y}) /\ <<y>> \in Seq({x, y})
  OBVIOUS
<1>6. a \in Seq({x, y}) /\ b \in Seq({x, y})
  BY <1>1, Zenon
<1> DEFINE s == a \o b
<1>2. s \in Seq({x, y})
  BY <1>6
<1> HIDE DEF s
<1>3. IsSeq(s)
  BY <1>2, SeqIs
<1>4. \A i \in 1..Len(s) : s[i] \in {x, y}
  BY <1>2
<1>5. QED
  BY <1>3, <1>4 DEF IsSurface, s

LEMMA SurfaceCovers ==
  ASSUME EchoInv, IsReg(reg)
  PROVE  IsSurface(Surface)
<1> DEFINE shows == Kept(Visible)
<1>1. /\ IsSeq(shows)
      /\ \A i \in 1..Len(shows) : \E j \in 1..Len(pending) : shows[i] = pending[j]
  BY KeptIs DEF EchoInv
<1> HIDE DEF shows
<1>2. \A i \in 1..Len(shows) : IsCell(shows[i])
  BY <1>1 DEF EchoInv
<1>3. /\ reg.placed.row \in Nat
      /\ reg.grids[Global].w \in Nat /\ reg.grids[Global].h \in Nat
  BY DEF IsReg, IsGrid, Global, Win, Grids
<1>4. PICK x : Covering(x) /\ EchoLayer(shows, reg.placed.row) \in {<<>>, <<x>>}
  BY <1>1, <1>2, <1>3, EchoLayerIs
<1>5. PICK y : Covering(y) /\ LineLayer(reg.grids[Global].w, reg.grids[Global].h, reg.cmdline) \in {<<>>, <<y>>}
  BY <1>3, LineLayerIs
<1>6. QED
  BY <1>4, <1>5, TwoLayers, SurfaceIs DEF shows

(* The surface is the predictions', and the registry's picture's.          *)
KeptOf(made, keep) ==
  LET out[i \in 0..Len(made)] ==
        IF i = 0 THEN <<>>
        ELSE IF i \in keep THEN Append(out[i - 1], made[i])
        ELSE out[i - 1]
  IN  out[Len(made)]

LEMMA SurfaceStays ==
  ASSUME EchoInv, pending' = pending,
         reg'.placed = reg.placed, reg'.cmdline = reg.cmdline,
         \A i \in Grids : /\ reg'.grids[i].cells = reg.grids[i].cells
                          /\ reg'.grids[i].w = reg.grids[i].w /\ reg'.grids[i].h = reg.grids[i].h
  PROVE  Surface' = Surface
<1>1. Kept(Visible) = KeptOf(pending, Visible) /\ Kept(Visible)' = KeptOf(pending', Visible')
  BY Zenon DEF Kept, KeptOf
<1>2. Visible' = Visible
  <2>1. \A i \in DOMAIN pending : pending[i].grid \in Grids
    BY DEF EchoInv, IsSeq, IsCell
  <2>2. QED
    BY <2>1 DEF Visible
<1>3. Kept(Visible)' = Kept(Visible)
  BY <1>1, <1>2
<1>4. Global \in Grids
  BY DEF Global, Win, Grids
<1>5. Surface' = EchoLayer(Kept(Visible)', reg'.placed.row)
                   \o LineLayer(reg'.grids[Global].w, reg'.grids[Global].h, reg'.cmdline)
  <2>1. SpeculatedLayer' = EchoLayer(Kept(Visible)', reg'.placed.row)
    BY Zenon DEF SpeculatedLayer, EchoLayer, Visible
  <2>2. CmdlineLayer' = LineLayer(reg'.grids[Global].w, reg'.grids[Global].h, reg'.cmdline)
    BY Zenon DEF CmdlineLayer, LineLayer
  <2>3. QED
    BY <2>1, <2>2 DEF Surface
<1>6. QED
  BY <1>3, <1>4, <1>5, SurfaceIs

-----------------------------------------------------------------------------
(* The painter.  The terminal holds the front buffer; the back one differs  *)
(* from it only in the rows the last frame carried over; and off the rows   *)
(* whose damage has not been taken yet, the front one is a composite of the *)
(* registry under the layers painted last.  With no frame owed nothing is   *)
(* damaged and those layers are the surface.                               *)
Undamaged(r) == ~TakenDamage(r).full /\ TakenDamage(r).rows = {}

Painted(r, ls, rows, f, b, t) ==
  /\ IsSurface(ls)
  /\ \A p \in Terminal : t[p] = f[p]
  /\ \A p \in Terminal : p[1] \notin rows => b[p] = f[p]
  /\ ~TakenDamage(r).full =>
       \A p \in Terminal : p[1] \notin TakenDamage(r).rows
                             => f[p] = CellOver(Composite(r)[p], ls, p)

PaintInv ==
  /\ Painted(reg, layers, carried, front, back, terminal)
  /\ ~dirty => Undamaged(reg) /\ Surface = layers

LEMMA NothingTaken ==
  ASSUME NEW r, IsReg(r), ~r.moved, \A i \in Grids : ~r.grids[i].full /\ r.grids[i].rows = {}
  PROVE  Undamaged(r)
<1>1. Global \in Grids /\ Win \in Grids
  BY DEF Global, Win, Grids
<1>2. /\ ~Damage(r.grids[Global]).full /\ Damage(r.grids[Global]).rows = {}
      /\ ~Damage(r.grids[Win]).full /\ Damage(r.grids[Win]).rows = {}
  BY <1>1 DEF Damage
<1> DEFINE g == Damage(r.grids[Global])
           w == Damage(r.grids[Win])
<1> HIDE DEF g, w
<1> DEFINE full == r.moved \/ g.full \/ (~r.placed.hidden /\ w.full)
           seen == IF ~r.placed.hidden THEN {i + r.placed.row : i \in w.rows} ELSE {}
<1>3. TakenDamage(r) = [full |-> full, rows |-> g.rows \cup seen]
  BY Zenon DEF TakenDamage, g, w
<1>4. ~g.full /\ g.rows = {} /\ ~w.full /\ w.rows = {}
  BY <1>2 DEF g, w
<1>5. ~full
  BY <1>4, Zenon
<1>6. seen = {}
  BY <1>4
<1> HIDE DEF full, seen
<1>7. TakenDamage(r).full = full /\ TakenDamage(r).rows = {}
  BY <1>3, <1>4, <1>6
<1>8. QED
  BY <1>5, <1>7 DEF Undamaged

LEMMA EmptySurface ==
  ASSUME EchoInv, pending = <<>>, reg.cmdline = NoLine
  PROVE  Surface = <<>>
<1> DEFINE shows == Kept(Visible)
<1>1. IsSeq(shows) /\ Len(shows) <= 0
  <2>1. Len(pending) = 0
    BY DEF EchoInv
  <2>2. QED
    BY <2>1, KeptIs DEF EchoInv
<1> HIDE DEF shows
<1>2. DOMAIN shows = {}
  BY <1>1 DEF IsSeq
<1>3. EchoLayer(shows, reg.placed.row) = <<>>
  <2> DEFINE cells == [i \in DOMAIN shows |->
                  [at |-> <<shows[i].row + IF shows[i].grid = Win THEN reg.placed.row ELSE 0,
                            shows[i].col>>,
                   glyph |-> shows[i].glyph]]
  <2>1. cells \in [{} -> {}]
    BY <1>2
  <2> HIDE DEF cells
  <2>2. cells = <<>>
    BY <2>1
  <2>3. QED
    BY <2>2, Zenon DEF EchoLayer, cells
<1>4. LineLayer(reg.grids[Global].w, reg.grids[Global].h, reg.cmdline) = <<>>
  BY Zenon DEF LineLayer
<1>5. <<>> \o <<>> = <<>>
  OBVIOUS
<1>6. QED
  BY <1>3, <1>4, <1>5, SurfaceIs DEF shows

LEMMA PaintInvInit == Init => PaintInv
<1>1. SUFFICES ASSUME Init PROVE PaintInv
  OBVIOUS
<1>2. EchoInv
  BY <1>1, EchoInvInit
<1>3. /\ IsReg(reg) /\ reg.cmdline = NoLine /\ ~reg.moved
      /\ \A i \in Grids : ~reg.grids[i].full /\ reg.grids[i].rows = {}
  BY <1>1, FirstReg DEF Init
<1>4. Surface = <<>> /\ layers = <<>>
  BY <1>1, <1>2, <1>3, EmptySurface DEF Init
<1>5. IsSurface(layers)
  BY <1>2, <1>3, <1>4, SurfaceCovers
<1>6. Undamaged(reg)
  BY <1>3, NothingTaken
<1>7. \A p, c : CellOver(c, layers, p) = c
  <2>1. DOMAIN layers = {}
    BY <1>4
  <2>2. QED
    BY <2>1 DEF CellOver
<1>8. front = Composite(reg) /\ back = front /\ terminal = front
  BY <1>1 DEF Init
<1>9. QED
  BY <1>4, <1>5, <1>6, <1>7, <1>8 DEF PaintInv, Painted

(* Steps that leave the registry, the predictions and the painter alone.   *)
LEMMA PaintInvIdle ==
  ASSUME EchoInv, PaintInv, UNCHANGED <<reg, pending, painter>>, ~dirty' => ~dirty
  PROVE  PaintInv'
<1>1. UNCHANGED <<front, back, carried, layers, terminal>> /\ Surface' = Surface
  BY SurfaceStays DEF painter
<1>2. QED
  BY <1>1 DEF PaintInv

(* Steps of the predictions alone, which owe a frame unless they kept all.  *)
LEMMA PaintInvEcho ==
  ASSUME EchoInv, PaintInv, UNCHANGED <<reg, painter>>,
         ~dirty' => ~dirty /\ pending' = pending
  PROVE  PaintInv'
<1>1. CASE ~dirty'
  BY <1>1, PaintInvIdle
<1>2. CASE dirty'
  <2>1. UNCHANGED <<front, back, carried, layers, terminal>>
    BY DEF painter
  <2>2. QED
    BY <1>2, <2>1 DEF PaintInv
<1>3. QED
  BY <1>1, <1>2

LEMMA PaintInvDispatch ==
  ASSUME FrameInv, EchoInv, PaintInv, NEW end \in 0..Len(staged), DrainTo(end), Dispatch(end)
  PROVE  PaintInv'
<1>1. /\ IsReg(reg) /\ Entries(staged) /\ Len(staged) \in Nat
      /\ reg' = Trail(reg, staged)[end]
  BY DEF FrameInv, FramesAre, BufferIs, IsSeq, DrainTo
<1>2. UNCHANGED <<front, back, carried, layers, terminal>>
  BY DEF Dispatch, painter
<1> DEFINE new == Trail(reg, staged)[end]
<1>3. Grown(reg, new) /\ IsReg(new) /\ ((\A i \in 1..end : ~staged[i].alive) => new = reg)
  BY <1>1, TrailGrows
<1> HIDE DEF new
<1>4. ~TakenDamage(new).full =>
        \A p \in Terminal : p[1] \notin TakenDamage(new).rows
                              => front[p] = CellOver(Composite(new)[p], layers, p)
  <2>1. SUFFICES ASSUME ~TakenDamage(new).full, NEW p \in Terminal, p[1] \notin TakenDamage(new).rows
                 PROVE  front[p] = CellOver(Composite(new)[p], layers, p)
    OBVIOUS
  <2>2. /\ ~TakenDamage(reg).full /\ p[1] \notin TakenDamage(reg).rows
        /\ Composite(new)[p] = Composite(reg)[p]
    BY <1>1, <1>3, <2>1, GrownShows
  <2>3. QED
    BY <2>2 DEF PaintInv, Painted
<1>5. reg' = new
  BY <1>1 DEF new
<1>6. ~dirty' => ~dirty /\ reg' = reg /\ pending' = pending
  <2>1. SUFFICES ASSUME ~dirty' PROVE ~dirty /\ reg' = reg /\ pending' = pending
    OBVIOUS
  <2>2. ~dirty /\ Batch(end) = {} /\ Len(pending') = Len(pending) /\ pending' = Reconciled(end)
    BY <2>1 DEF Dispatch, MarkRetirement
  <2>3. \A i \in 1..end : ~staged[i].alive
    BY <2>2 DEF Batch
  <2>4. reg' = reg
    BY <1>3, <1>5, <2>3
  <2>5. pending' = pending
    <3>1. ~Shifted(end)
      BY <2>2 DEF Shifted
    <3> DEFINE keep == {j \in DOMAIN pending : ~\E i \in Batch(end) : Answers(staged[i].event, pending[j])}
    <3>2. pending' = Kept(keep)
      BY <2>2, <3>1 DEF Reconciled
    <3> HIDE DEF keep
    <3>3. QED
      BY <2>2, <3>2, KeptIs DEF EchoInv
  <2>6. QED
    BY <2>2, <2>4, <2>5
<1>7. CASE ~dirty'
  BY <1>2, <1>6, <1>7, PaintInvIdle DEF painter
<1>8. CASE dirty'
  <2>1. Painted(new, layers, carried, front, back, terminal)
    BY <1>4 DEF PaintInv, Painted
  <2>2. QED
    BY <1>2, <1>5, <1>8, <2>1 DEF PaintInv
<1>9. QED
  BY <1>7, <1>8

LEMMA NothingPending ==
  ASSUME EchoInv, Len(pending) = 0
  PROVE  pending = <<>>
<1>1. PICK S : pending \in Seq(S)
  BY SeqOfItsOwn DEF EchoInv
<1>2. QED
  BY <1>1

LEMMA PaintInvKeys ==
  ASSUME FrameInv, EchoInv, PaintInv, TypePlain \/ TypeOther \/ Expire
  PROVE  PaintInv'
<1>1. IsSeq(pending) /\ Len(pending) \in Nat /\ IsReg(reg)
  BY DEF EchoInv, FrameInv, FramesAre, IsSeq
<1>2. CASE TypePlain
  <2>1. UNCHANGED <<reg, painter>> /\ (~dirty' => ~dirty /\ Len(pending') = Len(pending))
    BY <1>2 DEF TypePlain, MarkRetirement
  <2>2. Len(pending') = Len(pending) => pending' = pending
    <3>1. CASE CursorGrid # reg.cursor
      BY <1>2, <3>1 DEF TypePlain
    <3>2. CASE CursorGrid = reg.cursor /\ reg.mode # "insert"
      <4>1. pending' = <<>>
        BY <1>2, <3>2 DEF TypePlain
      <4>2. Len(pending') = 0
        BY <4>1
      <4>3. QED
        BY <4>1, <4>2, NothingPending
    <3>3. CASE CursorGrid = reg.cursor /\ reg.mode = "insert"
      <4>1. pending' = Predicted
        BY <1>2, <3>3 DEF TypePlain
      <4>2. Len(pending') = Len(pending) + 1
        BY <1>1, <3>3, <4>1, PredictedIs
      <4>3. QED
        BY <1>1, <4>2
    <3>4. QED
      BY <3>1, <3>2, <3>3
  <2>3. QED
    BY <2>1, <2>2, PaintInvEcho
<1>3. CASE TypeOther
  BY <1>3, PaintInvEcho DEF TypeOther, redrawVars
<1>4. CASE Expire
  <2>1. PICK n \in 1..Len(pending) : pending' = SubSeq(pending, n + 1, Len(pending))
    BY <1>4 DEF Expire
  <2>2. UNCHANGED <<reg, painter>> /\ dirty' = (dirty \/ MarkRetirement(pending'))
    BY <1>4 DEF Expire, redrawVars
  <2>3. n \in 0..Len(pending)
    BY <1>1
  <2>4. Len(pending') = Len(pending) - n
    BY <1>1, <2>1, <2>3, SubSeqIs
  <2>5. Len(pending') # Len(pending)
    BY <1>1, <2>3, <2>4
  <2>6. dirty'
    BY <2>2, <2>5 DEF MarkRetirement
  <2>7. QED
    BY <2>2, <2>6, PaintInvEcho
<1>5. QED
  BY <1>2, <1>3, <1>4

LEMMA PaintInvPaint ==
  ASSUME FrameInv, EchoInv, PaintInv, Paint
  PROVE  PaintInv'
<1> DEFINE taken == TakenDamage(reg)
           damage == IF taken.full THEN AllRows ELSE taken.rows \cup OverlayDamage(Surface)
           repaint == damage \cup carried
           composed == Composed(repaint, Surface)
           rows == Compared(repaint)
           d == Drained(reg)
           shows(p) == CellOver(Composite(reg)[p], Surface, p)
<1>1. IsReg(reg)
  BY DEF FrameInv, FramesAre
<1>2. /\ reg' = d /\ dirty' = FALSE /\ pending' = pending
      /\ carried' = damage /\ layers' = Surface
      /\ front' = composed /\ back' = front
      /\ terminal' = [p \in Terminal |->
                        IF p[1] \in rows /\ composed[p] # front[p] THEN composed[p] ELSE terminal[p]]
  BY Zenon DEF Paint, QueueFrame, Emit, echo
<1>3. \A p \in Terminal : p[1] \in AllRows
  BY DEF Terminal, AllRows
<1>4. \A p \in Terminal : composed[p] = IF p[1] \in repaint THEN shows(p) ELSE back[p]
  <2>1. \A p : Cell(Surface, p) = shows(p)
    BY CellIs
  <2> HIDE DEF repaint, shows
  <2>2. QED
    BY <2>1 DEF Composed
<1>5. rows \in {repaint \cap AllRows, AllRows}
  BY Zenon DEF Compared
<1>6. IsSurface(Surface)
  BY <1>1, SurfaceCovers
<1> HIDE DEF shows, rows, composed, d
<1>7. ASSUME NEW p \in Terminal, p[1] \notin damage
      PROVE  front[p] = shows(p)
  <2>1. ~taken.full /\ p[1] \notin taken.rows /\ p[1] \notin OverlayDamage(Surface)
    BY <1>3, <1>7
  <2>2. front[p] = CellOver(Composite(reg)[p], layers, p)
    BY <2>1 DEF PaintInv, Painted
  <2>3. CellOver(Composite(reg)[p], Surface, p) = CellOver(Composite(reg)[p], layers, p)
    <3> DEFINE s == Surface
               c == Composite(reg)[p]
    <3>1. IsSurface(s) /\ p[1] \notin OverlayDamage(s) /\ IsSurface(layers)
      BY <1>6, <2>1 DEF PaintInv, Painted
    <3> HIDE DEF s, c
    <3>2. CellOver(c, s, p) = CellOver(c, layers, p)
      BY <3>1, UndamagedCell
    <3>3. QED
      BY <3>2 DEF s, c
  <2>4. QED
    BY <2>2, <2>3 DEF shows
<1> HIDE DEF damage
<1>8. \A p \in Terminal : p[1] \notin carried => back[p] = front[p]
  BY DEF PaintInv, Painted
<1>9. \A p \in Terminal : composed[p] = shows(p)
  BY <1>4, <1>7, <1>8
<1>10. \A p \in Terminal : terminal'[p] = composed[p]
  <2>1. SUFFICES ASSUME NEW p \in Terminal PROVE terminal'[p] = composed[p]
    OBVIOUS
  <2>2. terminal[p] = front[p]
    BY DEF PaintInv, Painted
  <2>3. CASE p[1] \in rows
    BY <1>2, <2>2, <2>3
  <2>4. CASE p[1] \notin rows
    <3>1. p[1] \notin repaint
      BY <1>3, <1>5, <2>4
    <3>2. composed[p] = front[p]
      BY <1>4, <1>8, <3>1
    <3>3. QED
      BY <1>2, <2>2, <2>4, <3>2
  <2>5. QED
    BY <2>3, <2>4
<1>11. \A p \in Terminal : p[1] \notin damage => front[p] = composed[p]
  BY <1>7, <1>9
<1>12. /\ \A i \in Grids : d.grids[i] = Clean(reg.grids[i])
       /\ d.placed = reg.placed /\ d.cursor = reg.cursor /\ d.cmdline = reg.cmdline /\ ~d.moved
  BY <1>1, DrainedIs DEF d
<1>13. \A i \in Grids : /\ d.grids[i].cells = reg.grids[i].cells
                        /\ d.grids[i].w = reg.grids[i].w /\ d.grids[i].h = reg.grids[i].h
                        /\ ~d.grids[i].full /\ d.grids[i].rows = {}
  BY <1>1, <1>12, CleanIs DEF IsReg
<1>14. Global \in Grids /\ Win \in Grids
  BY DEF Global, Win, Grids
<1>15. IsReg(d) /\ Undamaged(d)
  <2>1. IsReg(d)
    BY <1>1, DrainedIs DEF d
  <2>2. QED
    BY <1>12, <1>13, <2>1, NothingTaken
<1>16. Composite(d) = Composite(reg)
  BY <1>12, <1>13, <1>14 DEF Composite
<1>17. Surface' = Surface
  BY <1>2, <1>12, <1>13, SurfaceStays
<1>18. IsSurface(layers')
  BY <1>2, <1>6
<1>19. \A p \in Terminal : terminal'[p] = front'[p]
  BY <1>2, <1>10
<1>20. \A p \in Terminal : p[1] \notin carried' => back'[p] = front'[p]
  BY <1>2, <1>11
<1>21. \A p \in Terminal : front'[p] = CellOver(Composite(reg')[p], layers', p)
  BY <1>2, <1>9, <1>16 DEF shows
<1>22. Undamaged(reg')
  BY <1>2, <1>15
<1>23. Surface' = layers'
  BY <1>2, <1>17
<1>24. Painted(reg', layers', carried', front', back', terminal')
  BY <1>18, <1>19, <1>20, <1>21 DEF Painted
<1>25. QED
  BY <1>22, <1>23, <1>24 DEF PaintInv

LEMMA PaintInvNext ==
  ASSUME FrameInv, EchoInv, PaintInv, [Next]_vars
  PROVE  PaintInv'
<1>1. CASE (Fold \/ FoldFlush \/ RaiseBarrier \/ LowerBarrier) /\ UNCHANGED <<echo, dirty, painter>>
  BY <1>1, PaintInvIdle DEF Fold, FoldFlush, RaiseBarrier, LowerBarrier, echo
<1>2. CASE Drain
  <2>1. flushIndex \in 0..Len(staged) /\ Len(staged) \in Nat
    BY DEF FrameInv, BufferIs, IsSeq
  <2>2. CASE TakeToBarrier /\ Dispatch(BarrierEnd)
    <3>1. DrainTo(BarrierEnd) /\ BarrierEnd \in 0..flushIndex
      BY <2>2, DrainsEndAtFlushes DEF TakeToBarrier
    <3>2. BarrierEnd \in 0..Len(staged)
      BY <2>1, <3>1
    <3>3. QED
      BY <2>2, <3>1, <3>2, PaintInvDispatch
  <2>3. CASE PassBarrier /\ Dispatch(Head(barriers))
    <3>1. DrainTo(Head(barriers)) /\ Head(barriers) \in 0..flushIndex
      BY <2>3, DrainsEndAtFlushes DEF PassBarrier
    <3>2. Head(barriers) \in 0..Len(staged)
      BY <2>1, <3>1
    <3>3. QED
      BY <2>3, <3>1, <3>2, PaintInvDispatch
  <2>4. QED
    BY <1>2, <2>2, <2>3 DEF Drain
<1>3. CASE TypePlain \/ TypeOther \/ Expire
  BY <1>3, PaintInvKeys
<1>4. CASE Paint
  BY <1>4, PaintInvPaint
<1>5. CASE UNCHANGED vars
  BY <1>5, PaintInvIdle DEF vars, redrawVars, echo
<1>6. QED
  BY <1>1, <1>2, <1>3, <1>4, <1>5 DEF Next

(* Shadow, OverlayShadow: whenever no frame is owed the terminal shows,     *)
(* cell for cell, what a composite of the model from scratch would, though  *)
(* a frame composes and writes only the rows it was told of.               *)
THEOREM TerminalStaysCurrent == Spec => []TerminalIsCurrent
<1>1. PaintInv => TerminalIsCurrent
  <2>1. SUFFICES ASSUME PaintInv, ~dirty, NEW p \in Terminal
                 PROVE  terminal[p] = Cell(Surface, p)
    BY DEF TerminalIsCurrent
  <2>2. /\ Surface = layers /\ terminal[p] = front[p]
        /\ front[p] = CellOver(Composite(reg)[p], layers, p)
    BY <2>1 DEF PaintInv, Painted, Undamaged
  <2>3. QED
    BY <2>2, CellIs
<1>2. FrameInv /\ EchoInv /\ PaintInv /\ [Next]_vars => PaintInv'
  BY PaintInvNext
<1>3. FrameInv /\ EchoInv /\ [Next]_vars => EchoInv'
  BY EchoInvNext
<1>4. QED
  BY <1>1, <1>2, <1>3, EchoInvInit, PaintInvInit, FrameInvHolds, PTL DEF Spec

(* The indices, flags and buffers are of their types.                      *)
TypedInv ==
  /\ dirty \in BOOLEAN
  /\ carried \subseteq Int
  /\ DOMAIN front = Terminal /\ DOMAIN back = Terminal /\ DOMAIN terminal = Terminal

LEMMA TypedInvInit == Init => TypedInv
BY DEF Init, TypedInv, Composite

LEMMA TypedInvNext ==
  ASSUME FrameInv, EchoInv, PaintInv, TypedInv, [Next]_vars
  PROVE  TypedInv'
<1>1. CASE UNCHANGED painter
  <2>1. UNCHANGED <<front, back, carried, terminal>>
    BY <1>1 DEF painter
  <2>2. dirty' \in BOOLEAN
    <3>1. CASE (Fold \/ FoldFlush \/ RaiseBarrier \/ LowerBarrier) /\ UNCHANGED <<echo, dirty, painter>>
      BY <3>1 DEF TypedInv
    <3>2. CASE Drain
      BY <3>2 DEF Drain, Dispatch
    <3>3. CASE TypePlain \/ TypeOther \/ Expire
      BY <3>3 DEF TypePlain, TypeOther, Expire
    <3>4. CASE Paint
      BY <3>4 DEF Paint
    <3>5. CASE UNCHANGED vars
      BY <3>5 DEF vars, TypedInv
    <3>6. QED
      BY <3>1, <3>2, <3>3, <3>4, <3>5 DEF Next
  <2>3. QED
    BY <2>1, <2>2 DEF TypedInv
<1>2. CASE Paint
  <2> DEFINE taken == TakenDamage(reg)
             damage == IF taken.full THEN AllRows ELSE taken.rows \cup OverlayDamage(Surface)
             composed == Composed(damage \cup carried, Surface)
             rows == Compared(damage \cup carried)
  <2>1. /\ dirty' = FALSE /\ carried' = damage /\ front' = composed /\ back' = front
        /\ terminal' = [p \in Terminal |->
                          IF p[1] \in rows /\ composed[p] # front[p] THEN composed[p] ELSE terminal[p]]
    BY <1>2, Zenon DEF Paint, QueueFrame, Emit
  <2>2. DOMAIN composed = Terminal
    BY Zenon DEF Composed
  <2>3. taken.rows \subseteq Int
    <3>1. /\ reg.grids[Global].rows \subseteq Nat /\ reg.grids[Win].rows \subseteq Nat
          /\ reg.placed.row \in Nat
      BY DEF FrameInv, FramesAre, IsReg, IsGrid, Global, Win, Grids
    <3>2. QED
      BY <3>1 DEF TakenDamage, Damage
  <2>4. OverlayDamage(Surface) \subseteq Int
    <3> DEFINE s == Surface
    <3>1. IsSurface(s) /\ IsSurface(layers)
      BY SurfaceCovers DEF FrameInv, FramesAre, PaintInv, Painted
    <3> HIDE DEF s
    <3>2. /\ \A i \in DOMAIN s : s[i].rows \subseteq Int
          /\ \A i \in DOMAIN layers : layers[i].rows \subseteq Int
      BY <3>1 DEF IsSurface, IsSeq, Covering
    <3>3. OverlayDamage(s) \subseteq Int
      BY <3>2 DEF OverlayDamage
    <3>4. QED
      BY <3>3 DEF s
  <2>5. damage \subseteq Int
    BY <2>3, <2>4, SizeIsNat DEF AllRows
  <2> HIDE DEF damage, composed, rows
  <2>6. QED
    BY <2>1, <2>2, <2>5 DEF TypedInv
<1>3. QED
  <2>1. UNCHANGED painter \/ Paint
    BY Zenon DEF Next, Drain, Dispatch, TypePlain, TypeOther, Expire, vars
  <2>2. QED
    BY <1>1, <1>2, <2>1

(* DamageBuffer, Grid, Shadow: the buffer's indices and barriers stay       *)
(* inside it and at a Flush, each grid keeps the shape it says it has, and  *)
(* each of the painter's buffers that of the terminal.                     *)
THEOREM ScreenTypeOK == Spec => []TypeOK
<1>1. FrameInv /\ TypedInv => TypeOK
  <2>1. SUFFICES ASSUME FrameInv, TypedInv PROVE TypeOK
    OBVIOUS
  <2>2. BufferTypeOK
    <3>1. /\ flushIndex \in 0..Len(staged) /\ (flushIndex > 0 => staged[flushIndex].event.kind = "flush")
          /\ barriers \in Seq(Nat) /\ Len(staged) \in Nat
          /\ \A i \in 1..Len(barriers) :
               barriers[i] <= flushIndex /\ (barriers[i] > 0 => staged[barriers[i]].event.kind = "flush")
      BY <2>1 DEF FrameInv, BufferIs, IsSeq
    <3>2. \A i \in DOMAIN barriers : barriers[i] \in 0..flushIndex
      BY <3>1
    <3>3. \A i \in Grids : DOMAIN reg.grids[i].cells = Places(reg.grids[i].w, reg.grids[i].h)
      BY <2>1 DEF FrameInv, FramesAre, IsReg, IsGrid
    <3>4. QED
      BY <3>1, <3>2, <3>3 DEF BufferTypeOK
  <2>3. QED
    BY <2>1, <2>2 DEF TypeOK, TypedInv
<1>2. FrameInv /\ EchoInv /\ PaintInv /\ TypedInv /\ [Next]_vars => TypedInv'
  BY TypedInvNext
<1>3. FrameInv /\ EchoInv /\ PaintInv /\ [Next]_vars => PaintInv'
  BY PaintInvNext
<1>4. FrameInv /\ EchoInv /\ [Next]_vars => EchoInv'
  BY EchoInvNext
<1>5. QED
  BY <1>1, <1>2, <1>3, <1>4, EchoInvInit, PaintInvInit, TypedInvInit, FrameInvHolds, PTL DEF Spec
=============================================================================
