-------------------------------- MODULE Grid --------------------------------
(***************************************************************************)
(* One rectangular buffer of cells (view-core/src/grid.rs): what each      *)
(* operation of nvim's line-grid protocol does to it, and which rows it    *)
(* marks as changed for the next repaint.  A cell's text and highlight are *)
(* one opaque value; a run of a line is one value written `span` times.    *)
(***************************************************************************)
EXTENDS Integers, FiniteSets

CONSTANT Blank       \* Cell::default()

Lesser(a, b) == IF a <= b THEN a ELSE b

Places(w, h) == (0..h-1) \X (0..w-1)

New == [w |-> 0, h |-> 0, cells |-> [p \in {} |-> Blank], cursor |-> <<0, 0>>,
        full |-> FALSE, rows |-> {}]

(* Keeps the cells both sizes share and clamps the cursor.  Every row must
   repaint, so the marks of single rows are dropped for the one that covers all. *)
Resize(g, w, h) ==
    [w |-> w, h |-> h,
     cells |-> [p \in Places(w, h) |-> IF p \in DOMAIN g.cells THEN g.cells[p] ELSE Blank],
     cursor |-> <<Lesser(g.cursor[1], IF h = 0 THEN 0 ELSE h - 1),
                  Lesser(g.cursor[2], IF w = 0 THEN 0 ELSE w - 1)>>,
     full |-> TRUE, rows |-> {}]

Clear(g) == [g EXCEPT !.cells = [p \in DOMAIN g.cells |-> Blank], !.full = TRUE]

CursorGoto(g, row, col) ==
    [g EXCEPT !.cursor = <<Lesser(row, IF g.h = 0 THEN 0 ELSE g.h - 1),
                           Lesser(col, IF g.w = 0 THEN 0 ELSE g.w - 1)>>]

(* Writes `span` cells from `col` on and clips them at the right edge. *)
PutLine(g, row, col, span, v) ==
    IF row >= g.h THEN g
    ELSE [g EXCEPT
            !.cells = [p \in DOMAIN g.cells |->
                         IF p[1] = row /\ p[2] \in col..(col + span - 1) THEN v ELSE g.cells[p]],
            !.rows = @ \cup {row}]

(* Moves the region up by n rows, or down by -n, and blanks what it vacates. *)
Scroll(g, top, bottom, left, rgt, n) ==
    LET bot == Lesser(bottom, g.h)
        right == Lesser(rgt, g.w)
        moved(p) == <<p[1] + n, p[2]>>
    IN IF top >= bot \/ left >= right \/ n = 0 THEN g
       ELSE [g EXCEPT
               !.cells = [p \in DOMAIN g.cells |->
                            IF ~(p[1] \in top..bot-1 /\ p[2] \in left..right-1) THEN g.cells[p]
                            ELSE IF p[1] + n \in top..bot-1 THEN g.cells[moved(p)]
                            ELSE Blank],
               !.rows = @ \cup (top..bot-1)]

(* take_dirty: the damage, read together with its reset. *)
Damage(g) == [full |-> g.full, rows |-> IF g.full THEN {} ELSE g.rows]
Clean(g) == [g EXCEPT !.full = FALSE, !.rows = {}]
=============================================================================
