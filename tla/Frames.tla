-------------------------------- MODULE Frames --------------------------------
(***************************************************************************)
(* The polars operations the market layer is written with, as far as the    *)
(* program uses them.  A frame has a set of column names and a set of rows; *)
(* a row has an id and a cell for each column.  The id starts with the       *)
(* position of the row in the frame it comes from and grows by one entry at *)
(* each join, so the first entry says which original row this is.  The      *)
(* order of rows is not kept: polars promises none after a join.            *)
(*                                                                          *)
(* Raised stands for what is returned where polars raises for the columns   *)
(* involved: a missing column or a duplicate one.                           *)
(***************************************************************************)
EXTENDS Naturals, Sequences, FiniteSets, Functions

CONSTANT Null

Frame(columns, rows) == [columns |-> columns, rows |-> rows]

\* No frame is this.
Raised == [raised |-> TRUE]

IsFrame(f) == \A r \in f.rows : DOMAIN r.cells = f.columns

Origin(row) == row.id[1]

\* The same rows with other cells.
MapCells(f, columns, Cells(_)) ==
  Frame(columns, {[id |-> r.id, cells |-> Cells(r.cells)] : r \in f.rows})

\* select: the named columns only.
Select(f, columns) ==
  IF f = Raised \/ ~(columns \subseteq f.columns)
  THEN Raised
  ELSE MapCells(f, columns, LAMBDA c : Restrict(c, columns))

\* drop
Without(f, columns) ==
  IF f = Raised THEN Raised ELSE Select(f, f.columns \ columns)

\* rename of one column
Renamed(f, old, new) ==
  IF old = new \/ f = Raised THEN f
  ELSE IF old \notin f.columns \/ new \in f.columns THEN Raised
  ELSE LET columns == (f.columns \ {old}) \cup {new}
       IN  MapCells(f, columns,
             LAMBDA c : [x \in columns |-> IF x = new THEN c[old] ELSE c[x]])

(* Left join: null keys match nothing, right keys are coalesced away, and a *)
(* right column whose name the left has gets the suffix "_right".           *)
Suffixed(left, column) ==
  IF column \in left.columns THEN column \o "_right" ELSE column

Matches(l, right, on) ==
  {r \in right.rows :
     \A k \in on : l.cells[k.left] # Null /\ l.cells[k.left] = r.cells[k.right]}

\* What a left row is joined with: its matches, or a row of nulls.
Partners(l, right, on) ==
  IF Matches(l, right, on) # {} THEN Matches(l, right, on)
  ELSE {[id |-> <<>>, cells |-> [c \in right.columns |-> Null]]}

LeftJoin(left, right, on) ==
  LET keys == {k.right : k \in on}
      payload == right.columns \ keys
      columns == left.columns \cup {Suffixed(left, c) : c \in payload}
      From(x) == CHOOSE c \in payload : Suffixed(left, c) = x
      Pair(l, r) == [id |-> Append(l.id, r.id),
                     cells |-> [x \in columns |-> IF x \in left.columns
                                                  THEN l.cells[x] ELSE r.cells[From(x)]]]
  IN  IF \/ left = Raised \/ right = Raised \/ on = {}
         \/ ~({k.left : k \in on} \subseteq left.columns)
         \/ ~(keys \subseteq right.columns)
         \/ \E c \in payload : c \in left.columns /\ Suffixed(left, c) \in left.columns
      THEN Raised
      ELSE Frame(columns, UNION {{Pair(l, r) : r \in Partners(l, right, on)} :
                                   l \in left.rows})
===============================================================================
