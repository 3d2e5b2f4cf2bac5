-------------------------------- MODULE Screen --------------------------------
(***************************************************************************)
(* The screen driver of the kernel, os/hwio.lib, and the output half of    *)
(* os/terminal.lib.  The frame buffer is a ring of cells: the first row    *)
(* shown starts at SCR_OFFSET, and the screen scrolls by moving it.        *)
(*                                                                         *)
(* Positions count cells of SCR_UNIT_SIZE bytes.  Handlers run with        *)
(* interrupts off, so that a call is one step.                             *)
(***************************************************************************)
EXTENDS Integers

CONSTANTS
  Width, Height,       \* SCR_WIDTH, SCR_HEIGHT
  Letters,             \* characters with no effect of their own
  GotoRows, GotoCols   \* what programs pass to gotoxy

SCR_UNIT_SIZE == 4
Size == Width * Height
Cells == 0 .. Size - 1
Backspace == 8
Newline == 10
Blank == 32
Chars == Letters \cup {Backspace, Newline}
Shown == Letters \cup {Blank}      \* what a cell may hold

ASSUME ScreenAssumption ==
  /\ Width \in Nat \ {0} /\ Height \in Nat \ {0}
  /\ Letters \subseteq Nat /\ {Backspace, Newline, Blank} \cap Letters = {}
  /\ GotoRows \subseteq Nat /\ GotoCols \subseteq Nat

VARIABLE scr    \* [cells, cursor, offset]: the frame buffer, CURSOR, SCR_OFFSET

BlankScreen == [cells |-> [i \in Cells |-> Blank], cursor |-> 0, offset |-> 0]

-----------------------------------------------------------------------------
(* The driver, from a screen s to a screen.                                *)

(* HW_GETXY *)
Relative(s) == IF s.cursor >= s.offset THEN s.cursor - s.offset
                                       ELSE s.cursor - s.offset + Size
Row(s) == Relative(s) \div Width
Col(s) == Relative(s) % Width

(* The bound of the column is in bytes.                                    *)
Accepted(row, col) == row < Height /\ col < Width * SCR_UNIT_SIZE

(* HW_GOTOXY: an error leaves the screen alone.                            *)
Gotoxy(s, row, col) ==
  LET p == row * Width + col + s.offset IN
  IF Accepted(row, col)
  THEN [s EXCEPT !.cursor = IF p < Size THEN p ELSE p - Size]
  ELSE s

(* Variant: the row cleared is the new first one. *)
ClearNext(s, start) ==
  [i \in Cells |-> IF i - Width \in start .. start + Width - 1 THEN Blank ELSE s.cells[i]]

(* MEMWORDSET of a row: Width words from start on.                         *)
Clear(s, start) ==
  [i \in Cells |-> IF i \in start .. start + Width - 1 THEN Blank ELSE s.cells[i]]

(* Variant: no wrap. *)
Unwrapped(p) == p

Wrapped(p) == IF p = Size THEN 0 ELSE p

(* HW_CURSORNEXT: the screen scrolls when the cursor meets its first row,  *)
(* which becomes the last one.                                             *)
Cursornext(s) ==
  LET cursor == Wrapped(s.cursor + 1) IN
  IF cursor # s.offset
  THEN [s EXCEPT !.cursor = cursor]
  ELSE [cursor |-> cursor, offset |-> Wrapped(s.offset + Width), cells |-> Clear(s, s.offset)]

(* HW_SETC; outside the frame buffer it writes to other memory.            *)
Setc(s, ch) == [s EXCEPT !.cells = [i \in Cells |-> IF i = s.cursor THEN ch ELSE @[i]]]

(* The cursor goes back one cell, unless it is in the first column.        *)
Retreat(s) == IF Col(s) = 0 THEN s ELSE Gotoxy(s, Row(s), Col(s) - 1)

(* TERM_PUTC *)
Printed(s, ch) ==
  CASE ch = Newline -> Cursornext(Gotoxy(s, Row(s), Width - 1))
    [] ch = Backspace -> Retreat(s)
    [] OTHER -> Cursornext(Setc(s, ch))

(* The echo of a key that TERM_KEYBOARD takes back.                        *)
Rub(s) == IF Col(s) = 0 THEN s ELSE Setc(Retreat(s), Blank)

-----------------------------------------------------------------------------
ScreenInit == scr = BlankScreen

TERM_PUTC == \E ch \in Chars : scr' = Printed(scr, ch)

(* Programs pass gotoxy columns of the screen, or ones that it rejects.    *)
GotoOnScreen == \A col \in GotoCols : col < Width \/ col >= Width * SCR_UNIT_SIZE

TERM_GOTOXY == \E row \in GotoRows, col \in GotoCols : scr' = Gotoxy(scr, row, col)

KeyErased == scr' = Rub(scr)

ScreenNext == TERM_PUTC \/ TERM_GOTOXY \/ KeyErased

ScreenSpec == ScreenInit /\ [][ScreenNext]_scr

-----------------------------------------------------------------------------
(* Properties.                                                             *)

(* Types; the first row shown is a row of the frame buffer, and the cursor *)
(* never leaves it, whatever is printed.                                   *)
ScreenTypeOK ==
  /\ scr \in [cells : [Cells -> Shown], cursor : Cells, offset : Cells]
  /\ \E r \in 0 .. Height - 1 : scr.offset = r * Width

(* HW_GOTOXY has a "boundary check" (hwio.lib:7): no position that it      *)
(* accepts takes the cursor off the frame buffer, where HW_SETC would      *)
(* write to other memory and HW_CURSORNEXT never meet the end.             *)
CursorOnScreen == scr.cursor \in Cells

(* The screen as it appears: row r, column c.                              *)
Grid == [r \in 0 .. Height - 1 |->
          [c \in 0 .. Width - 1 |-> scr.cells[(scr.offset + r * Width + c) % Size]]]

S == INSTANCE ScrollingScreen WITH
       Chars <- Shown, grid <- Grid, row <- Row(scr), col <- Col(scr)

(* The ring of cells behaves as a screen that scrolls: no row is lost but  *)
(* the first, the new one is empty, and the cursor stays where it belongs  *)
(* (hwio.lib:65-102, terminal.lib:116-149).                                *)
ScrollsAsGrid == S!Spec
===============================================================================
