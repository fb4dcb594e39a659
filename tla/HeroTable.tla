----------------------------- MODULE HeroTable -----------------------------
(***************************************************************************)
(* HeroTableView: a section of rows described by JSON items, and the cells *)
(* that UITableView makes, hides, keeps for reuse and asks for again.      *)
(*                                                                         *)
(* How a row gets its cell depends on the item:                            *)
(*   plain   no class and no res: a HeroTableViewCell                      *)
(*   cell    a class of cells, made with init                              *)
(*   nib     a res: a cell of a nib, which carries the res's identifier    *)
(*   widget  any other class: its view is wrapped into a cell              *)
(*   view    class UIView: wrapped too, under an identifier of its own     *)
(* plain and cell have no identifier that is ever asked for.  A wrapped    *)
(* view that is reused keeps what it shows.  Images come later, from       *)
(* registerForName: (LazyImage), to the cell that was told the item.       *)
(***************************************************************************)
EXTENDS Naturals, Sequences

CONSTANTS
  Kind,       \* the kind of each item the page sends
  RowLists,   \* the lists of rows it sends
  WithImage,  \* the items that have an image
  Cell,       \* cells; as many as there are at any time (a bound)
  MaxRows,    \* bound on the rows
  MaxRefresh, \* bound on the number of times the data is set
  None

VARIABLES
  data,        \* the rows of the section
  refeshTimes,
  cells,       \* for each cell: [id, item, image, place, row]
  blocks,      \* image blocks that have not been called: [cell, item]
  replaced,    \* history: identifiers of rows replaced since the data was set
  mixed        \* history: cells that waited for two images at once

tableVars == <<data, refeshTimes, cells, blocks, replaced, mixed>>

NoId == << >>
NoCell == [id |-> NoId, item |-> None, image |-> None, place |-> "free", row |-> 0]
Wrapped(kind) == kind \in {"widget", "view"}

Init ==
  /\ data = << >> /\ refeshTimes = 0
  /\ cells = [c \in Cell |-> NoCell]
  /\ blocks = {} /\ replaced = {} /\ mixed = {}

Rows == DOMAIN data
OnScreen(c) == cells[c].place = "row"
Shown == {cells[c].row : c \in {d \in Cell : OnScreen(d)}}

(* A cell without an identifier is released instead of kept. *)
Recycled(cell, place) ==
  IF cell.id = NoId THEN NoCell ELSE [cell EXCEPT !.place = place, !.row = 0]
AllGoTo(place) ==
  cells' = [c \in Cell |-> IF OnScreen(c) THEN Recycled(cells[c], place) ELSE cells[c]]

viewId(times, row) == <<"view", times, row>>
reuseIdentifier(r) ==
  CASE Kind[data[r]] = "widget" -> <<"class">>
    [] Kind[data[r]] = "nib"    -> <<"res">>
    [] Kind[data[r]] = "view"   -> viewId(refeshTimes, r)
    [] OTHER                    -> NoId
-----------------------------------------------------------------------------
(* Mutant: the number of the refresh is not counted. *)
onData_sameTimes(rows) ==
  /\ refeshTimes < MaxRefresh
  /\ data' = rows
  /\ AllGoTo("pool")
  /\ replaced' = {}
  /\ UNCHANGED <<refeshTimes, blocks, mixed>>

(* data: the cells are asked for again at the next layout. *)
onData(rows) ==
  /\ refeshTimes < MaxRefresh
  /\ data' = rows
  /\ AllGoTo("pool")
  /\ refeshTimes' = refeshTimes + 1
  /\ replaced' = {}
  /\ UNCHANGED <<blocks, mixed>>

(* fragmentData, replace: the old cells stay until the animation ends. *)
replace(rows) ==
  /\ refeshTimes > 0
  /\ data' = rows
  /\ AllGoTo("leaving")
  /\ replaced' = replaced \cup {viewId(refeshTimes, r) : r \in Rows}
  /\ UNCHANGED <<refeshTimes, blocks, mixed>>

(* fragmentData, append *)
append(rows) ==
  /\ refeshTimes > 0
  /\ Len(data) + Len(rows) <= MaxRows
  /\ data' = data \o rows
  /\ AllGoTo("pool")
  /\ UNCHANGED <<refeshTimes, blocks, replaced, mixed>>
-----------------------------------------------------------------------------
(* Mutant: a cell that has an image is not given another. *)
Told_keepsImage(c, cell, item) ==
  \/ /\ item \in WithImage /\ cell.image = None
     /\ cells' = [cells EXCEPT ![c] = [cell EXCEPT !.item = item]]
     /\ blocks' = blocks \cup {[cell |-> c, item |-> item]}
     /\ mixed' = IF \E b \in blocks : b.cell = c THEN mixed \cup {c} ELSE mixed
  \/ /\ cells' = [cells EXCEPT ![c] = [cell EXCEPT !.item = item]]
     /\ UNCHANGED <<blocks, mixed>>

(* -[HeroTableViewCell on:] of cell c: the image comes at once from the    *)
(* cache, or later.                                                        *)
Told(c, cell, item) ==
  \/ /\ item \in WithImage
     /\ cells' = [cells EXCEPT ![c] = [cell EXCEPT !.item = item]]
     /\ blocks' = blocks \cup {[cell |-> c, item |-> item]}
     /\ mixed' = IF \E b \in blocks : b.cell = c THEN mixed \cup {c} ELSE mixed
  \/ /\ cells' = [cells EXCEPT ![c] = [cell EXCEPT !.item = item, !.image =
                    IF item \in WithImage THEN item ELSE @]]
     /\ mixed' = IF \E b \in blocks : b.cell = c THEN mixed \cup {c} ELSE mixed
     /\ UNCHANGED blocks

Reusable(r) ==
  {c \in Cell : cells[c].place = "pool" /\ cells[c].id = reuseIdentifier(r)}
Unused(c) == cells[c].place = "free" /\ \A b \in blocks : b.cell # c

(* cellForRowAtIndexPath: for a row that comes on the screen. *)
ShowReused(r, c) ==
  /\ r \in Rows \ Shown
  /\ c \in Reusable(r)
  /\ LET cell == [cells[c] EXCEPT !.place = "row", !.row = r] IN
       IF Wrapped(Kind[data[r]])
       THEN cells' = [cells EXCEPT ![c] = cell] /\ UNCHANGED <<blocks, mixed>>
       ELSE Told(c, cell, data[r])
  /\ UNCHANGED <<data, refeshTimes, replaced>>

ShowNew(r, c) ==
  /\ r \in Rows \ Shown
  /\ Reusable(r) = {} /\ Unused(c)
  /\ LET cell == [NoCell EXCEPT !.id = reuseIdentifier(r), !.place = "row", !.row = r] IN
       IF Wrapped(Kind[data[r]])
       THEN /\ cells' = [cells EXCEPT ![c] = [cell EXCEPT !.item = data[r]]]
            /\ UNCHANGED <<blocks, mixed>>
       ELSE Told(c, cell, data[r])
  /\ UNCHANGED <<data, refeshTimes, replaced>>

(* A row leaves the screen. *)
Hide(c) ==
  /\ OnScreen(c)
  /\ cells' = [cells EXCEPT ![c] = Recycled(@, "pool")]
  /\ UNCHANGED <<data, refeshTimes, blocks, replaced, mixed>>

AnimationEnds ==
  /\ \E c \in Cell : cells[c].place = "leaving"
  /\ cells' = [c \in Cell |-> IF cells[c].place = "leaving"
                              THEN Recycled(cells[c], "pool") ELSE cells[c]]
  /\ UNCHANGED <<data, refeshTimes, blocks, replaced, mixed>>

(* The block of registerForName: sets the image of the cell it captured. *)
ImageArrives(b) ==
  /\ b \in blocks
  /\ blocks' = blocks \ {b}
  /\ cells' = IF cells[b.cell].place = "free" THEN cells
              ELSE [cells EXCEPT ![b.cell].image = b.item]
  /\ UNCHANGED <<data, refeshTimes, replaced, mixed>>
-----------------------------------------------------------------------------
Page == \E rows \in RowLists : onData(rows) \/ replace(rows) \/ append(rows)
Screen ==
  \/ \E r \in Rows, c \in Cell : ShowReused(r, c) \/ ShowNew(r, c)
  \/ \E c \in Cell : Hide(c)
  \/ AnimationEnds
  \/ \E b \in blocks : ImageArrives(b)

Next == Page \/ Screen
Spec == Init /\ [][Next]_tableVars
-----------------------------------------------------------------------------
(* A row on the screen shows its item: refeshTimes keeps the wrapped views *)
(* of earlier data from coming back.  The exceptions are the widgets that  *)
(* all share the name of their class, and UIView rows replaced since.      *)
RowsShowTheirItem ==
  \A c \in Cell : OnScreen(c) =>
    LET item == data[cells[c].row] IN
      \/ cells[c].item = item
      \/ Kind[item] = "widget"
      \/ cells[c].id \in replaced

(* When the images of a cell have come it shows the one of its item, if    *)
(* the item has one and the cell never waited for two images at a time.    *)
ImagesSettle ==
  \A c \in Cell :
    OnScreen(c) /\ ~Wrapped(Kind[data[cells[c].row]]) /\ c \notin mixed
      /\ data[cells[c].row] \in WithImage /\ (\A b \in blocks : b.cell # c)
    => cells[c].image = data[cells[c].row]
=============================================================================
