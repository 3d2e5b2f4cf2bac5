--------------------------- MODULE ScrollingScreen ----------------------------
(***************************************************************************)
(* What a program expects of the screen (os/hwio.lib, os/terminal.lib): a  *)
(* grid of characters with a cursor.  Writing moves the cursor on; past    *)
(* the last column it goes to the next row, and past the last row every    *)
(* row moves up and an empty one comes in below.                           *)
(***************************************************************************)
EXTENDS Naturals

CONSTANTS Width, Height, Chars, Blank

Rows == 0 .. Height - 1
Cols == 0 .. Width - 1

VARIABLES grid, row, col

vars == <<grid, row, col>>

Init ==
  /\ grid = [r \in Rows |-> [c \in Cols |-> Blank]]
  /\ row = 0 /\ col = 0

(* The cursor goes to the start of the next row of g.                      *)
NextRow(g) ==
  /\ col' = 0
  /\ IF row + 1 < Height
     THEN row' = row + 1 /\ grid' = g
     ELSE /\ UNCHANGED row
          /\ grid' = [r \in Rows |-> IF r + 1 < Height THEN g[r + 1]
                                     ELSE [c \in Cols |-> Blank]]

Write(ch) ==
  LET g == [grid EXCEPT ![row][col] = ch] IN
  \/ col + 1 < Width /\ grid' = g /\ col' = col + 1 /\ UNCHANGED row
  \/ col + 1 = Width /\ NextRow(g)

NewLine == NextRow(grid)

Back ==
  /\ col > 0
  /\ col' = col - 1
  /\ UNCHANGED <<grid, row>>

(* The character before the cursor is wiped out.                           *)
WipeOut ==
  /\ col > 0
  /\ col' = col - 1
  /\ grid' = [grid EXCEPT ![row][col - 1] = Blank]
  /\ UNCHANGED row

MoveTo ==
  /\ row' \in Rows /\ col' \in Cols
  /\ UNCHANGED grid

Next ==
  \/ \E ch \in Chars : Write(ch)
  \/ NewLine \/ Back \/ WipeOut \/ MoveTo

Spec == Init /\ [][Next]_vars
===============================================================================
