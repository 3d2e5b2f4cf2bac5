----------------------------- MODULE ScreenProofs -----------------------------
(***************************************************************************)
(* On a screen of any size, no sequence of characters, erased keys and     *)
(* cursor movements within the screen takes the cursor off it, and the     *)
(* ring of cells behaves as a grid that scrolls, and one that the display  *)
(* daemon shows as it is when nobody writes.                               *)
(***************************************************************************)
EXTENDS Display, TLAPS

(* The cells of a row are in the frame buffer.                             *)
LEMMA RowsFit ==
  /\ Size \in Nat \ {0}
  /\ \A r \in 0 .. Height - 1 : r * Width \in Nat /\ r * Width + Width <= Size
<1> USE ScreenAssumption DEF Size
<1>1. Size \in Nat \ {0}
  OBVIOUS
<1>2. ASSUME NEW r \in 0 .. Height - 1 PROVE r * Width \in Nat /\ r * Width + Width <= Size
  <2>1. PICK d \in Nat : Height = r + 1 + d
    <3>1. Height - (r + 1) \in Nat
      OBVIOUS
    <3> QED BY <3>1
  <2>2. Size = r * Width + Width + d * Width
    BY <2>1
  <2> QED BY <2>2
<1> QED BY <1>1, <1>2

(* What a position is, relative to the first row shown.                    *)
LEMMA Positions ==
  ASSUME NEW s, s.cursor \in Cells, s.offset \in Cells
  PROVE  Row(s) \in Nat /\ Col(s) \in 0 .. Width - 1
<1>1. Relative(s) \in Nat
  BY RowsFit DEF Relative, Cells
<1> QED BY <1>1, ScreenAssumption DEF Row, Col

Screens == [cells : [Cells -> Shown], cursor : Cells, offset : Cells]
Aligned(s) == \E r \in 0 .. Height - 1 : s.offset = r * Width
Good(s) == s \in Screens /\ Aligned(s)

LEMMA GotoxyKeeps ==
  ASSUME NEW s, Good(s), NEW row \in Nat, NEW col \in Nat,
         col < Width \/ col >= Width * SCR_UNIT_SIZE
  PROVE  Good(Gotoxy(s, row, col))
<1>1. CASE ~Accepted(row, col)
  BY <1>1 DEF Gotoxy
<1>2. CASE Accepted(row, col)
  <2>1. row \in 0 .. Height - 1 /\ col \in 0 .. Width - 1
    BY <1>2, ScreenAssumption DEF Accepted, SCR_UNIT_SIZE
  <2>2. row * Width + col \in Nat /\ row * Width + col < Size
    BY <2>1, RowsFit, ScreenAssumption
  <2> DEFINE p == row * Width + col + s.offset
             c == IF p < Size THEN p ELSE p - Size
  <2>3. c \in Cells
    BY <2>2, RowsFit DEF Good, Screens, Cells
  <2>4. Gotoxy(s, row, col) = [s EXCEPT !.cursor = c]
    BY <1>2 DEF Gotoxy
  <2> HIDE DEF c
  <2> QED BY <2>3, <2>4 DEF Good, Screens, Aligned
<1> QED BY <1>1, <1>2

LEMMA CursornextKeeps ==
  ASSUME NEW s, Good(s)
  PROVE  Good(Cursornext(s))
<1> DEFINE c == Wrapped(s.cursor + 1)
           o == Wrapped(s.offset + Width)
<1>1. c \in Cells
  BY RowsFit DEF Good, Screens, Cells, Wrapped
<1>2. o \in Cells /\ \E r \in 0 .. Height - 1 : o = r * Width
  <2>1. PICK r \in 0 .. Height - 1 : s.offset = r * Width
    BY DEF Good, Aligned
  <2>2. CASE s.offset + Width = Size
    <3>1. o = 0 /\ 0 \in 0 .. Height - 1 /\ 0 * Width = 0
      BY <2>2, ScreenAssumption DEF Wrapped
    <3> QED BY <3>1, RowsFit DEF Cells
  <2>3. CASE s.offset + Width # Size
    <3>1. o = (r + 1) * Width
      BY <2>1, <2>3, ScreenAssumption DEF Wrapped
    <3>2. r + 1 # Height
      BY <2>1, <2>3, ScreenAssumption DEF Size
    <3>3. r + 1 \in 0 .. Height - 1
      BY <3>2, ScreenAssumption
    <3>4. o \in Nat /\ o + Width <= Size
      BY <3>1, <3>3, RowsFit
    <3>5. o \in Cells
      BY <3>4, RowsFit, ScreenAssumption DEF Cells
    <3> QED BY <3>1, <3>3, <3>5
  <2> QED BY <2>2, <2>3
<1>3. Clear(s, s.offset) \in [Cells -> Shown]
  BY DEF Clear, Good, Screens, Shown
<1>4. Cursornext(s) = IF c # s.offset THEN [s EXCEPT !.cursor = c]
                      ELSE [cursor |-> c, offset |-> o, cells |-> Clear(s, s.offset)]
  BY DEF Cursornext
<1> HIDE DEF c, o
<1> QED BY <1>1, <1>2, <1>3, <1>4 DEF Good, Screens, Aligned

LEMMA SetcKeeps ==
  ASSUME NEW s, Good(s), NEW ch \in Shown
  PROVE  Good(Setc(s, ch))
BY DEF Setc, Good, Screens, Aligned

LEMMA RetreatKeeps ==
  ASSUME NEW s, Good(s)
  PROVE  Good(Retreat(s))
<1>1. Row(s) \in Nat /\ Col(s) \in 0 .. Width - 1
  BY Positions DEF Good, Screens
<1>2. CASE Col(s) # 0
  <2>1. Col(s) - 1 \in Nat /\ Col(s) - 1 < Width
    BY <1>1, <1>2, ScreenAssumption
  <2> QED BY <1>1, <1>2, <2>1, GotoxyKeeps DEF Retreat
<1> QED BY <1>2 DEF Retreat

LEMMA PrintKeeps ==
  ASSUME NEW s, Good(s), NEW ch \in Chars
  PROVE  Good(Printed(s, ch))
<1>1. Newline # Backspace
  BY DEF Newline, Backspace
<1>2. CASE ch = Newline
  <2>1. Row(s) \in Nat /\ Width - 1 \in Nat /\ Width - 1 < Width
    BY Positions, ScreenAssumption DEF Good, Screens
  <2>2. Good(Gotoxy(s, Row(s), Width - 1))
    BY <2>1, GotoxyKeeps
  <2>3. Printed(s, ch) = Cursornext(Gotoxy(s, Row(s), Width - 1))
    BY <1>1, <1>2 DEF Printed
  <2> QED BY <2>2, <2>3, CursornextKeeps
<1>3. CASE ch = Backspace
  BY <1>1, <1>3, RetreatKeeps DEF Printed
<1>4. CASE ch # Newline /\ ch # Backspace
  <2>1. ch \in Shown
    BY <1>4 DEF Chars, Shown
  <2>2. Good(Setc(s, ch))
    BY <2>1, SetcKeeps
  <2>3. Printed(s, ch) = Cursornext(Setc(s, ch))
    BY <1>4 DEF Printed
  <2> QED BY <2>2, <2>3, CursornextKeeps
<1> QED BY <1>2, <1>3, <1>4

LEMMA RubKeeps ==
  ASSUME NEW s, Good(s)
  PROVE  Good(Rub(s))
<1>1. Blank \in Shown
  BY DEF Shown
<1> QED BY <1>1, RetreatKeeps, SetcKeeps DEF Rub

LEMMA BlankIsGood == Good(BlankScreen)
<1>1. 0 \in Cells /\ 0 \in 0 .. Height - 1 /\ 0 * Width = 0
  BY RowsFit, ScreenAssumption DEF Cells
<1> QED BY <1>1 DEF Good, Screens, Aligned, BlankScreen, Shown

(* Every step keeps the screen good.                                       *)
LEMMA StepKeeps ==
  ASSUME GotoOnScreen, Good(scr), [ScreenNext]_scr
  PROVE  GotoOnScreen' /\ Good(scr')
<1>0. GotoOnScreen'
  BY DEF GotoOnScreen
<1>1. CASE TERM_PUTC
  BY <1>1, PrintKeeps DEF TERM_PUTC
<1>2. CASE TERM_GOTOXY
  <2>1. PICK row \in GotoRows, col \in GotoCols : scr' = Gotoxy(scr, row, col)
    BY <1>2 DEF TERM_GOTOXY
  <2>2. row \in Nat /\ col \in Nat /\ (col < Width \/ col >= Width * SCR_UNIT_SIZE)
    BY ScreenAssumption DEF GotoOnScreen
  <2> QED BY <2>1, <2>2, GotoxyKeeps
<1>3. CASE KeyErased
  BY <1>3, RubKeeps DEF KeyErased
<1> QED BY <1>0, <1>1, <1>2, <1>3 DEF ScreenNext

(* The cursor stays on the screen, if programs keep to its columns.        *)
THEOREM CursorStays == GotoOnScreen /\ ScreenSpec => []ScreenTypeOK
<1> DEFINE Inv == GotoOnScreen /\ Good(scr)
<1>1. GotoOnScreen /\ ScreenInit => Inv
  BY BlankIsGood DEF ScreenInit
<1>2. Inv /\ [ScreenNext]_scr => Inv'
  BY StepKeeps
<1>3. Inv => ScreenTypeOK
  BY DEF ScreenTypeOK, Good, Screens, Aligned
<1> QED BY <1>1, <1>2, <1>3, PTL DEF ScreenSpec

-----------------------------------------------------------------------------
(* The cells in the order they are shown: cell k is at Place(s, k), and is *)
(* the one in row k \div Width and column k % Width.                       *)
Place(s, k) == IF s.offset + k < Size THEN s.offset + k ELSE s.offset + k - Size
GridRows == 0 .. Height - 1
GridCols == 0 .. Width - 1
GridOf(s) == [r \in GridRows |->
               [c \in GridCols |-> s.cells[(s.offset + r * Width + c) % Size]]]

(* Rows do not overlap, and cell k has one row and one column.             *)
LEMMA RowsApart ==
  /\ \A r, q \in GridRows : r < q => r * Width + Width <= q * Width
  /\ \A r, q \in GridRows : \A c, d \in GridCols : r * Width + c = q * Width + d => r = q /\ c = d
<1> USE ScreenAssumption
<1>1. ASSUME NEW r \in GridRows, NEW q \in GridRows, r < q PROVE r * Width + Width <= q * Width
  <2>1. PICK d \in Nat : q = r + 1 + d
    <3>1. q - (r + 1) \in Nat
      BY <1>1 DEF GridRows
    <3> QED BY <3>1 DEF GridRows
  <2>2. q * Width = r * Width + Width + d * Width
    BY <2>1 DEF GridRows
  <2>3. d * Width \in Nat /\ r * Width \in Nat
    BY DEF GridRows
  <2> QED BY <2>2, <2>3
<1>2. ASSUME NEW r \in GridRows, NEW q \in GridRows, NEW c \in GridCols, NEW d \in GridCols,
             r * Width + c = q * Width + d
      PROVE  r = q /\ c = d
  <2>1. r * Width \in Nat /\ q * Width \in Nat
    BY DEF GridRows
  <2>2. ~(r < q) /\ ~(q < r)
    BY <1>1, <1>2, <2>1 DEF GridCols
  <2>3. r = q
    BY <2>2 DEF GridRows
  <2> QED BY <1>2, <2>1, <2>3 DEF GridCols
<1> QED BY <1>1, <1>2

LEMMA CellOf ==
  \A k \in Cells : /\ k \div Width \in GridRows /\ k % Width \in GridCols
                   /\ k = (k \div Width) * Width + (k % Width)
<1> USE ScreenAssumption
<1> SUFFICES ASSUME NEW k \in Cells
             PROVE  /\ k \div Width \in GridRows /\ k % Width \in GridCols
                    /\ k = (k \div Width) * Width + (k % Width)
  OBVIOUS
<1>1. k \in Nat /\ k < Height * Width
  BY RowsFit DEF Cells, Size
<1>2. k \div Width \in Nat /\ k % Width \in GridCols
  BY <1>1 DEF GridCols
<1>3. k = (k \div Width) * Width + (k % Width)
  BY <1>1
<1>4. k \div Width < Height
  <2> SUFFICES ASSUME k \div Width >= Height PROVE FALSE
    BY <1>2
  <2>1. PICK d \in Nat : k \div Width = Height + d
    <3>1. k \div Width - Height \in Nat
      BY <1>2
    <3> QED BY <1>2, <3>1
  <2>2. (k \div Width) * Width = Height * Width + d * Width /\ d * Width \in Nat
    BY <2>1
  <2> QED BY <1>1, <1>2, <1>3, <2>2 DEF GridCols
<1> QED BY <1>2, <1>3, <1>4 DEF GridRows

(* A cell of the grid is one of the screen.                                *)
LEMMA GridCells ==
  \A r \in GridRows, c \in GridCols : r * Width \in Nat /\ r * Width + c \in Cells
BY RowsFit, ScreenAssumption DEF GridRows, GridCols, Cells

(* Where the cursor is.                                                    *)
LEMMA CursorIs ==
  ASSUME NEW s, Good(s)
  PROVE  /\ Row(s) \in GridRows /\ Col(s) \in GridCols /\ Relative(s) \in Cells
         /\ Relative(s) = Row(s) * Width + Col(s)
         /\ s.cursor = Place(s, Relative(s))
         /\ \A r \in GridRows, c \in GridCols :
              s.cursor = Place(s, r * Width + c) => Row(s) = r /\ Col(s) = c
<1>1. Relative(s) \in Cells /\ s.cursor = Place(s, Relative(s))
  BY RowsFit DEF Good, Screens, Cells, Relative, Place
<1>2. Row(s) \in GridRows /\ Col(s) \in GridCols /\ Relative(s) = Row(s) * Width + Col(s)
  BY <1>1, CellOf DEF Row, Col
<1>3. ASSUME NEW k \in Cells, s.cursor = Place(s, k) PROVE Relative(s) = k
  BY <1>3, RowsFit DEF Good, Screens, Cells, Relative, Place
<1>4. ASSUME NEW r \in GridRows, NEW c \in GridCols, s.cursor = Place(s, r * Width + c)
      PROVE  Row(s) = r /\ Col(s) = c
  <2>1. Row(s) * Width + Col(s) = r * Width + c
    BY <1>2, <1>3, <1>4, GridCells
  <2> QED BY <1>2, <2>1, RowsApart
<1> QED BY <1>1, <1>2, <1>4

(* What the grid shows.                                                    *)
LEMMA GridIs ==
  ASSUME NEW s, Good(s)
  PROVE  GridOf(s) = [r \in GridRows |-> [c \in GridCols |-> s.cells[Place(s, r * Width + c)]]]
<1>1. \A a \in Cells : a % Size = a /\ (a + Size) % Size = a
  BY RowsFit DEF Cells
<1>2. ASSUME NEW k \in Cells PROVE (s.offset + k) % Size = Place(s, k)
  <2>1. s.offset \in Cells
    BY DEF Good, Screens
  <2>2. CASE s.offset + k < Size
    BY <1>1, <2>1, <2>2, RowsFit DEF Place, Cells
  <2>3. CASE s.offset + k >= Size
    <3>1. s.offset + k - Size \in Cells /\ s.offset + k = (s.offset + k - Size) + Size
      BY <2>1, <2>3, RowsFit DEF Cells
    <3> QED BY <1>1, <2>3, <3>1, RowsFit DEF Place, Cells
  <2> QED BY <2>1, <2>2, <2>3, RowsFit DEF Cells
<1>3. ASSUME NEW r \in GridRows, NEW c \in GridCols
      PROVE  (s.offset + r * Width + c) % Size = Place(s, r * Width + c)
  <2>1. s.offset + r * Width + c = s.offset + (r * Width + c) /\ r * Width + c \in Cells
    BY GridCells DEF Good, Screens, Cells, GridCols
  <2> QED BY <1>2, <2>1
<1> QED BY <1>3 DEF GridOf

(* The two ways round the ring: a place is that of one cell only.          *)
LEMMA PlaceIs ==
  ASSUME NEW s, Good(s)
  PROVE  \A k, j \in Cells : /\ Place(s, k) \in Cells
                             /\ Place(s, k) = Place(s, j) => k = j
BY RowsFit DEF Good, Screens, Cells, Place

(* HW_GOTOXY within the screen.                                            *)
LEMMA GotoxyMoves ==
  ASSUME NEW s, Good(s), NEW r \in GridRows, NEW c \in GridCols
  PROVE  LET t == Gotoxy(s, r, c)
         IN  Good(t) /\ Row(t) = r /\ Col(t) = c /\ GridOf(t) = GridOf(s)
<1> DEFINE t == Gotoxy(s, r, c)
<1>1. Accepted(r, c)
  BY ScreenAssumption DEF Accepted, SCR_UNIT_SIZE, GridRows, GridCols
<1>2. r * Width \in Nat /\ r * Width + c \in Cells
  BY GridCells
<1>3. t = [s EXCEPT !.cursor = Place(s, r * Width + c)]
  <2> DEFINE p == r * Width + c + s.offset
             place == IF p < Size THEN p ELSE p - Size
  <2>1. t = [s EXCEPT !.cursor = place]
    BY <1>1, Zenon DEF Gotoxy
  <2>2. PICK k \in Cells : k = r * Width + c
    BY <1>2
  <2>3. p = k + s.offset
    BY <2>2
  <2> HIDE DEF t, p
  <2>4. place = Place(s, k)
    BY <2>3, RowsFit DEF Place, Good, Screens, Cells
  <2> HIDE DEF place
  <2>5. place = Place(s, r * Width + c)
    BY <2>2, <2>4
  <2> QED BY <2>1, <2>5
<1>4. Good(t)
  BY GotoxyKeeps, ScreenAssumption DEF GridRows, GridCols
<1> HIDE DEF t
<1>5. t.cells = s.cells /\ t.offset = s.offset /\ t.cursor = Place(s, r * Width + c)
  BY <1>3 DEF Good, Screens
<1>6. t.cursor = Place(t, r * Width + c)
  BY <1>5 DEF Place
<1>7. Row(t) = r /\ Col(t) = c
  BY <1>4, <1>6, CursorIs
<1>8. GridOf(t) = GridOf(s)
  BY <1>5 DEF GridOf
<1> QED BY <1>4, <1>7, <1>8 DEF t

(* HW_SETC at the cursor.                                                  *)
LEMMA SetcWrites ==
  ASSUME NEW s, Good(s), NEW ch \in Shown
  PROVE  LET t == Setc(s, ch)
         IN  /\ Good(t) /\ Row(t) = Row(s) /\ Col(t) = Col(s)
             /\ GridOf(t) = [GridOf(s) EXCEPT ![Row(s)][Col(s)] = ch]
<1> DEFINE t == Setc(s, ch)
<1>1. Good(t)
  BY SetcKeeps
<1>2. /\ t.cursor = s.cursor /\ t.offset = s.offset
      /\ t.cells = [i \in Cells |-> IF i = s.cursor THEN ch ELSE s.cells[i]]
  BY DEF Good, Screens, Setc
<1> HIDE DEF t
<1>3. Row(t) = Row(s) /\ Col(t) = Col(s)
  BY <1>2 DEF Row, Col, Relative
<1> DEFINE row == Row(s)
           col == Col(s)
<1>4. row \in GridRows /\ col \in GridCols /\ s.cursor = Place(s, row * Width + col)
  BY CursorIs
<1> HIDE DEF row, col
<1>5. ASSUME NEW r \in GridRows, NEW c \in GridCols
      PROVE  t.cells[Place(t, r * Width + c)] =
               IF r = row /\ c = col THEN ch ELSE s.cells[Place(s, r * Width + c)]
  <2>1. Place(t, r * Width + c) = Place(s, r * Width + c)
    BY <1>2 DEF Place
  <2>2. r * Width + c \in Cells /\ row * Width + col \in Cells
    BY <1>4, GridCells
  <2>3. Place(s, r * Width + c) \in Cells
    BY <2>2, PlaceIs
  <2>4. Place(s, r * Width + c) = s.cursor <=> r = row /\ c = col
    <3>1. Place(s, r * Width + c) = s.cursor => r * Width + c = row * Width + col
      BY <1>4, <2>2, PlaceIs
    <3> QED BY <1>4, <3>1, RowsApart
  <2> QED BY <1>2, <2>1, <2>3, <2>4
<1> DEFINE g == [r \in GridRows |-> [c \in GridCols |-> s.cells[Place(s, r * Width + c)]]]
<1>6. GridOf(t) = [r \in GridRows |-> [c \in GridCols |->
                     IF r = row /\ c = col THEN ch ELSE s.cells[Place(s, r * Width + c)]]]
  BY <1>1, <1>5, GridIs
<1>7. [g EXCEPT ![row][col] = ch] =
        [r \in GridRows |-> [c \in GridCols |->
           IF r = row /\ c = col THEN ch ELSE s.cells[Place(s, r * Width + c)]]]
  BY <1>4
<1>8. GridOf(s) = g
  BY GridIs
<1> QED BY <1>1, <1>3, <1>6, <1>7, <1>8 DEF t, row, col

(* HW_CURSORNEXT within the screen.                                        *)
LEMMA CursorAdvances ==
  ASSUME NEW s, Good(s), Relative(s) + 1 < Size
  PROVE  LET t == Cursornext(s)
         IN  /\ Good(t) /\ GridOf(t) = GridOf(s)
             /\ t.cursor = Place(t, Relative(s) + 1)
<1> DEFINE t == Cursornext(s)
           next == Wrapped(s.cursor + 1)
<1>1. Good(t)
  BY CursornextKeeps
<1>2. next # s.offset /\ next = Place(s, Relative(s) + 1)
  BY RowsFit DEF Good, Screens, Cells, Relative, Wrapped, Place
<1>3. t = [s EXCEPT !.cursor = next]
  BY <1>2 DEF Cursornext
<1> HIDE DEF t
<1>4. t.cells = s.cells /\ t.offset = s.offset /\ t.cursor = next
  BY <1>3 DEF Good, Screens
<1>5. GridOf(t) = GridOf(s)
  BY <1>4 DEF GridOf
<1>6. t.cursor = Place(t, Relative(s) + 1)
  BY <1>2, <1>4 DEF Place
<1> QED BY <1>1, <1>5, <1>6 DEF t

(* The row at offset o becomes the last one.                               *)
LEMMA RowTurns ==
  ASSUME NEW s, NEW o \in Cells, o + Width <= Size, s.offset = Wrapped(o + Width)
  PROVE  \A k \in Cells :
           Place(s, k) = IF k + Width >= Size THEN o + k + Width - Size
                         ELSE IF o + k + Width < Size THEN o + k + Width
                         ELSE o + k + Width - Size
<1> USE ScreenAssumption, RowsFit
<1>1. CASE o + Width = Size
  BY <1>1 DEF Place, Cells, Wrapped
<1>2. CASE o + Width < Size
  <2>1. s.offset = o + Width
    BY <1>2 DEF Wrapped, Cells
  <2> QED BY <1>2, <2>1 DEF Place, Cells
<1> QED BY <1>1, <1>2 DEF Cells

(* HW_CURSORNEXT at the last cell: the screen scrolls.                     *)
LEMMA ScreenScrolls ==
  ASSUME NEW s, Good(s), Relative(s) + 1 = Size
  PROVE  LET t == Cursornext(s)
         IN  /\ Good(t) /\ t.cursor = Place(t, Size - Width)
             /\ GridOf(t) = [r \in GridRows |-> IF r + 1 < Height THEN GridOf(s)[r + 1]
                                                ELSE [c \in GridCols |-> Blank]]
<1> DEFINE t == Cursornext(s)
<1> USE ScreenAssumption
<1>1. Good(t)
  BY CursornextKeeps
<1>2. Wrapped(s.cursor + 1) = s.offset
  BY RowsFit DEF Good, Screens, Cells, Relative, Wrapped
<1>3. t = [cursor |-> s.offset, offset |-> Wrapped(s.offset + Width), cells |-> Clear(s, s.offset)]
  BY <1>2 DEF Cursornext
<1> HIDE DEF t
<1>4. /\ t.cursor = s.offset /\ t.offset = Wrapped(s.offset + Width)
      /\ t.cells = [i \in Cells |-> IF i \in s.offset .. s.offset + Width - 1
                                    THEN Blank ELSE s.cells[i]]
  BY <1>3 DEF Clear
<1>5. s.offset \in Cells /\ s.offset + Width <= Size
  BY RowsFit DEF Good, Screens, Aligned
<1>6. t.cursor = Place(t, Size - Width)
  <2>1. Width <= Size
    BY <1>5, RowsFit DEF Cells
  <2>2. Size - Width \in Cells
    BY <2>1, RowsFit DEF Cells
  <2>3. Place(t, Size - Width) = s.offset + (Size - Width) + Width - Size
    BY <1>4, <1>5, <2>2, RowTurns, RowsFit
  <2>4. s.offset + (Size - Width) + Width - Size = s.offset
    BY <1>5, RowsFit DEF Cells
  <2> QED BY <1>4, <2>3, <2>4
<1>7. ASSUME NEW k \in Cells, k + Width < Size
      PROVE  t.cells[Place(t, k)] = s.cells[Place(s, k + Width)]
  <2>1. /\ Place(t, k) = Place(s, k + Width) /\ Place(t, k) \in Cells
        /\ Place(t, k) \notin s.offset .. s.offset + Width - 1
    BY <1>4, <1>5, <1>7, RowsFit DEF Place, Wrapped, Cells
  <2> QED BY <1>4, <2>1
<1>8. ASSUME NEW k \in Cells, k + Width >= Size
      PROVE  t.cells[Place(t, k)] = Blank
  <2>1. Place(t, k) \in Cells /\ Place(t, k) \in s.offset .. s.offset + Width - 1
    <3>1. Place(t, k) = s.offset + k + Width - Size
      BY <1>4, <1>5, <1>8, RowTurns
    <3> QED BY <1>5, <1>8, <3>1, RowsFit DEF Cells
  <2> QED BY <1>4, <2>1
<1>9. ASSUME NEW r \in GridRows, NEW c \in GridCols
      PROVE  t.cells[Place(t, r * Width + c)] =
               IF r + 1 < Height THEN s.cells[Place(s, (r + 1) * Width + c)] ELSE Blank
  <2>1. r * Width \in Nat /\ r * Width + c \in Cells /\ (r + 1) * Width = r * Width + Width
    BY GridCells DEF GridRows
  <2>2. CASE r + 1 < Height
    <3>1. r + 1 \in GridRows
      BY <2>2 DEF GridRows
    <3>2. (r + 1) * Width + c \in Cells
      BY <3>1, GridCells
    <3>3. (r * Width + c) + Width = (r + 1) * Width + c /\ (r + 1) * Width + c < Size
      BY <2>1, <3>2, RowsFit DEF Cells, GridCols
    <3> QED BY <1>7, <2>1, <2>2, <3>3
  <2>3. CASE ~(r + 1 < Height)
    <3>1. Size = (r + 1) * Width
      BY <2>3 DEF GridRows, Size
    <3>2. (r * Width + c) + Width >= Size
      BY <2>1, <3>1 DEF GridCols
    <3> QED BY <1>8, <2>1, <2>3, <3>2
  <2> QED BY <2>2, <2>3
<1>10. ASSUME NEW r \in GridRows
       PROVE  [c \in GridCols |-> t.cells[Place(t, r * Width + c)]] =
                IF r + 1 < Height THEN GridOf(s)[r + 1] ELSE [c \in GridCols |-> Blank]
  <2>1. CASE r + 1 < Height
    <3>1. r + 1 \in GridRows
      BY <2>1 DEF GridRows
    <3>2. GridOf(s)[r + 1] = [c \in GridCols |-> s.cells[Place(s, (r + 1) * Width + c)]]
      BY <3>1, GridIs
    <3> QED BY <1>9, <2>1, <3>2
  <2>2. CASE ~(r + 1 < Height)
    BY <1>9, <2>2
  <2> QED BY <2>1, <2>2
<1>11. GridOf(t) = [r \in GridRows |-> IF r + 1 < Height THEN GridOf(s)[r + 1]
                                       ELSE [c \in GridCols |-> Blank]]
  <2>1. GridOf(t) = [r \in GridRows |-> [c \in GridCols |-> t.cells[Place(t, r * Width + c)]]]
    BY <1>1, GridIs
  <2> QED BY <1>10, <2>1, Zenon
<1> QED BY <1>1, <1>6, <1>11 DEF t

(* HW_CURSORNEXT, as the grid sees it.                                     *)
Following(s, t) ==
  /\ Good(t)
  /\ Col(s) + 1 < Width => Row(t) = Row(s) /\ Col(t) = Col(s) + 1 /\ GridOf(t) = GridOf(s)
  /\ Col(s) + 1 = Width /\ Row(s) + 1 < Height =>
       Row(t) = Row(s) + 1 /\ Col(t) = 0 /\ GridOf(t) = GridOf(s)
  /\ Col(s) + 1 = Width /\ Row(s) + 1 >= Height =>
       /\ Row(t) = Row(s) /\ Col(t) = 0
       /\ GridOf(t) = [r \in GridRows |-> IF r + 1 < Height THEN GridOf(s)[r + 1]
                                          ELSE [c \in GridCols |-> Blank]]

LEMMA CursornextFollows ==
  ASSUME NEW s, Good(s)
  PROVE  Following(s, Cursornext(s))
<1> DEFINE t == Cursornext(s)
           row == Row(s)
           col == Col(s)
           k == Relative(s)
<1> USE ScreenAssumption
<1>1. /\ row \in GridRows /\ col \in GridCols /\ k \in Cells /\ k = row * Width + col
      /\ row * Width \in Nat /\ Size \in Nat
  BY CursorIs, GridCells, RowsFit
<1>2. k + 1 < Size => Good(t) /\ GridOf(t) = GridOf(s) /\ t.cursor = Place(t, k + 1)
  BY CursorAdvances
<1>3. k + 1 = Size => /\ Good(t) /\ t.cursor = Place(t, Size - Width)
                      /\ GridOf(t) = [r \in GridRows |-> IF r + 1 < Height THEN GridOf(s)[r + 1]
                                                         ELSE [c \in GridCols |-> Blank]]
  BY ScreenScrolls
<1>4. Good(t)
  BY CursornextKeeps
<1>5. \A r \in GridRows, c \in GridCols :
        t.cursor = Place(t, r * Width + c) => Row(t) = r /\ Col(t) = c
  BY <1>4, CursorIs
<1> HIDE DEF t, row, col, k
<1>6. CASE col + 1 < Width
  <2>1. col + 1 \in GridCols /\ k + 1 = row * Width + (col + 1)
    BY <1>1, <1>6 DEF GridCols
  <2>2. k + 1 < Size
    BY <1>1, <2>1, GridCells DEF Cells
  <2>3. Row(t) = row /\ Col(t) = col + 1
    BY <1>1, <1>2, <1>5, <2>1, <2>2
  <2> QED BY <1>1, <1>2, <1>6, <2>2, <2>3 DEF Following, t, row, col, GridCols
<1>7. CASE col + 1 = Width /\ row + 1 < Height
  <2>1. row + 1 \in GridRows /\ 0 \in GridCols
    BY <1>1, <1>7 DEF GridRows, GridCols
  <2>2. (row + 1) * Width = row * Width + Width
    BY <1>1 DEF GridRows
  <2>3. k + 1 = (row + 1) * Width + 0
    BY <1>1, <1>7, <2>2 DEF GridCols
  <2>4. k + 1 < Size
    <3>1. (row + 1) * Width + 0 \in Cells
      BY <2>1, GridCells
    <3>2. k + 1 \in Cells
      BY <2>3, <3>1
    <3> QED BY <1>1, <3>2 DEF Cells
  <2>5. Row(t) = row + 1 /\ Col(t) = 0
    BY <1>2, <1>5, <2>1, <2>3, <2>4
  <2> QED BY <1>1, <1>2, <1>7, <2>4, <2>5 DEF Following, t, row, col, GridRows
<1>8. CASE col + 1 = Width /\ row + 1 >= Height
  <2>1. row + 1 = Height /\ 0 \in GridCols
    BY <1>1, <1>8 DEF GridRows, GridCols
  <2>2. Size = row * Width + Width
    BY <1>1, <2>1 DEF GridRows, Size
  <2>3. k + 1 = Size /\ Size - Width = row * Width + 0
    BY <1>1, <1>8, <2>2 DEF GridCols
  <2>4. Row(t) = row /\ Col(t) = 0
    BY <1>1, <1>3, <1>5, <2>1, <2>3
  <2> QED BY <1>1, <1>3, <1>8, <2>3, <2>4 DEF Following, t, row, col, GridRows
<1>9. col + 1 < Width \/ col + 1 = Width
  BY <1>1 DEF GridCols
<1>10. row + 1 < Height \/ row + 1 >= Height
  BY <1>1 DEF GridRows
<1> QED BY <1>6, <1>7, <1>8, <1>9, <1>10 DEF t

-----------------------------------------------------------------------------
(* Every action is one of ScrollingScreen, or moves nothing.               *)
LEMMA GridIsShown == Grid = GridOf(scr) /\ Grid' = GridOf(scr')
BY DEF Grid, GridOf, GridRows, GridCols, Size

(* A step of HW_CURSORNEXT goes to the next row past the last column.      *)
LEMMA GoesToNextRow ==
  ASSUME Good(scr), NEW s, Good(s), Row(s) = Row(scr), Col(s) + 1 = Width,
         scr' = Cursornext(s)
  PROVE  S!NextRow(GridOf(s))
<1>1. Following(s, scr') /\ Row(scr) \in GridRows
  BY CursornextFollows, CursorIs
<1>2. Row(scr) + 1 < Height \/ Row(scr) + 1 >= Height
  BY <1>1, ScreenAssumption DEF GridRows
<1> QED BY <1>1, <1>2, GridIsShown DEF S!NextRow, Following, S!Rows, S!Cols, GridRows, GridCols

(* TERM_PUTC.                                                              *)
LEMMA PutcScrolls ==
  ASSUME Good(scr), NEW ch \in Chars, scr' = Printed(scr, ch)
  PROVE  [S!Next]_(S!vars)
<1> DEFINE row == Row(scr)
           col == Col(scr)
<1> USE ScreenAssumption
<1>1. row \in GridRows /\ col \in GridCols
  BY CursorIs
<1>2. Newline # Backspace
  BY DEF Newline, Backspace
<1>3. CASE ch = Newline
  <2> DEFINE s == Gotoxy(scr, row, Width - 1)
  <2>1. Width - 1 \in GridCols
    BY DEF GridCols
  <2>2. Good(s) /\ Row(s) = row /\ Col(s) = Width - 1 /\ GridOf(s) = GridOf(scr)
    BY <1>1, <2>1, GotoxyMoves
  <2>3. scr' = Cursornext(s)
    BY <1>2, <1>3 DEF Printed
  <2> HIDE DEF s
  <2>4. Col(s) + 1 = Width
    BY <2>2
  <2>5. S!NextRow(GridOf(s))
    BY <2>2, <2>3, <2>4, GoesToNextRow
  <2>6. S!NewLine
    BY <2>2, <2>5, GridIsShown DEF S!NewLine
  <2> QED BY <2>6 DEF S!Next
<1>4. CASE ch = Backspace
  <2>1. scr' = Retreat(scr)
    BY <1>2, <1>4 DEF Printed
  <2>2. CASE col = 0
    BY <2>1, <2>2, GridIsShown DEF Retreat, S!vars
  <2>3. CASE col # 0
    <3>1. col - 1 \in GridCols /\ col > 0
      BY <1>1, <2>3 DEF GridCols
    <3>2. scr' = Gotoxy(scr, row, col - 1)
      BY <2>1, <2>3 DEF Retreat
    <3>3. Row(scr') = row /\ Col(scr') = col - 1 /\ GridOf(scr') = GridOf(scr)
      BY <1>1, <3>1, <3>2, GotoxyMoves
    <3>4. S!Back
      BY <3>1, <3>3, GridIsShown DEF S!Back
    <3> QED BY <3>4 DEF S!Next
  <2> QED BY <2>2, <2>3
<1>5. CASE ch # Newline /\ ch # Backspace
  <2> DEFINE s == Setc(scr, ch)
             g == [GridOf(scr) EXCEPT ![row][col] = ch]
  <2>1. ch \in Shown
    BY <1>5 DEF Chars, Shown
  <2>2. Good(s) /\ Row(s) = row /\ Col(s) = col /\ GridOf(s) = g
    BY <2>1, SetcWrites
  <2>3. scr' = Cursornext(s)
    BY <1>5 DEF Printed
  <2> HIDE DEF s
  <2>4. CASE col + 1 < Width
    <3>1. Following(s, scr')
      BY <2>2, <2>3, CursornextFollows
    <3>2. Row(scr') = row /\ Col(scr') = col + 1 /\ GridOf(scr') = g
      BY <2>2, <2>4, <3>1 DEF Following
    <3>3. S!Write(ch)
      BY <2>4, <3>2, GridIsShown DEF S!Write
    <3> QED BY <2>1, <3>3 DEF S!Next
  <2>5. CASE col + 1 = Width
    <3>1. S!NextRow(GridOf(s))
      BY <2>2, <2>3, <2>5, GoesToNextRow
    <3>2. S!NextRow(g)
      BY <2>2, <3>1
    <3>3. S!Write(ch)
      BY <2>5, <3>2, GridIsShown DEF S!Write
    <3> QED BY <2>1, <3>3 DEF S!Next
  <2> QED BY <1>1, <2>4, <2>5 DEF GridCols
<1> QED BY <1>3, <1>4, <1>5

(* An erased key.                                                          *)
LEMMA RubWipesOut ==
  ASSUME Good(scr), KeyErased
  PROVE  [S!Next]_(S!vars)
<1> DEFINE row == Row(scr)
           col == Col(scr)
           s == Gotoxy(scr, row, col - 1)
<1>1. row \in GridRows /\ col \in GridCols
  BY CursorIs
<1>2. CASE col = 0
  BY <1>2, GridIsShown DEF KeyErased, Rub, S!vars
<1>3. CASE col # 0
  <2>1. col - 1 \in GridCols /\ col > 0
    BY <1>1, <1>3, ScreenAssumption DEF GridCols
  <2>2. Good(s) /\ Row(s) = row /\ Col(s) = col - 1 /\ GridOf(s) = GridOf(scr)
    BY <1>1, <2>1, GotoxyMoves
  <2>3. scr' = Setc(s, Blank) /\ Blank \in Shown
    BY <1>3 DEF KeyErased, Rub, Retreat, Shown
  <2> HIDE DEF s
  <2>4. /\ Row(scr') = row /\ Col(scr') = col - 1
        /\ GridOf(scr') = [GridOf(scr) EXCEPT ![row][col - 1] = Blank]
    BY <2>2, <2>3, SetcWrites
  <2>5. S!WipeOut
    BY <2>1, <2>4, GridIsShown DEF S!WipeOut
  <2> QED BY <2>5 DEF S!Next
<1> QED BY <1>2, <1>3

(* TERM_GOTOXY, of a position on the screen or one that is rejected.       *)
LEMMA GotoxyMovesTo ==
  ASSUME Good(scr), GotoOnScreen, TERM_GOTOXY
  PROVE  [S!Next]_(S!vars)
<1>1. PICK row \in GotoRows, col \in GotoCols : scr' = Gotoxy(scr, row, col)
  BY DEF TERM_GOTOXY
<1>2. CASE ~Accepted(row, col)
  BY <1>1, <1>2, GridIsShown DEF Gotoxy, S!vars
<1>3. CASE Accepted(row, col)
  <2>1. row \in GridRows /\ col \in GridCols
    BY <1>3, ScreenAssumption DEF Accepted, GotoOnScreen, GridRows, GridCols, SCR_UNIT_SIZE
  <2>2. Row(scr') = row /\ Col(scr') = col /\ GridOf(scr') = GridOf(scr)
    BY <1>1, <2>1, GotoxyMoves
  <2>3. S!MoveTo
    BY <2>1, <2>2, GridIsShown DEF S!MoveTo, S!Rows, S!Cols, GridRows, GridCols
  <2> QED BY <2>3 DEF S!Next
<1> QED BY <1>2, <1>3

(* The blank screen is the blank grid.                                    *)
LEMMA BlankIsInit == ScreenInit => Good(scr) /\ S!Init
<1> SUFFICES ASSUME ScreenInit PROVE Good(scr) /\ S!Init
  OBVIOUS
<1>1. Good(scr)
  BY BlankIsGood DEF ScreenInit
<1>2. scr.cursor = 0 /\ scr.offset = 0 /\ \A i \in Cells : scr.cells[i] = Blank
  BY DEF ScreenInit, BlankScreen
<1>3. Row(scr) = 0 /\ Col(scr) = 0
  <2>1. Relative(scr) = 0
    BY <1>2 DEF Relative
  <2>2. 0 \in GridRows /\ 0 \in GridCols /\ 0 * Width + 0 = 0
    BY ScreenAssumption DEF GridRows, GridCols
  <2>3. Row(scr) \in GridRows /\ Col(scr) \in GridCols /\ Row(scr) * Width + Col(scr) = 0 * Width + 0
    BY <1>1, <2>1, <2>2, CursorIs
  <2> QED BY <2>2, <2>3, RowsApart
<1>4. Grid = [r \in GridRows |-> [c \in GridCols |-> Blank]]
  <2>1. \A r \in GridRows, c \in GridCols : scr.cells[Place(scr, r * Width + c)] = Blank
    BY <1>1, <1>2, GridCells, PlaceIs
  <2>2. GridOf(scr) = [r \in GridRows |-> [c \in GridCols |-> scr.cells[Place(scr, r * Width + c)]]]
    BY <1>1, GridIs
  <2> QED BY <2>1, <2>2, GridIsShown
<1> QED BY <1>1, <1>3, <1>4 DEF S!Init, S!Rows, S!Cols, GridRows, GridCols

(* The ring of cells implements the screen that scrolls, on a screen of    *)
(* any size and if programs keep to its columns.                           *)
THEOREM Refinement == GotoOnScreen /\ ScreenSpec => ScrollsAsGrid
<1> DEFINE Inv == GotoOnScreen /\ Good(scr)
<1>1. GotoOnScreen /\ ScreenInit => Inv /\ S!Init
  BY BlankIsInit
<1>2. Inv /\ [ScreenNext]_scr => Inv' /\ [S!Next]_(S!vars)
  <2> SUFFICES ASSUME Inv, [ScreenNext]_scr PROVE [S!Next]_(S!vars)
    BY StepKeeps
  <2>1. CASE TERM_PUTC
    BY <2>1, PutcScrolls DEF TERM_PUTC
  <2>2. CASE TERM_GOTOXY
    BY <2>2, GotoxyMovesTo
  <2>3. CASE KeyErased
    BY <2>3, RubWipesOut
  <2>4. CASE UNCHANGED scr
    BY <2>4, GridIsShown DEF S!vars
  <2> QED BY <2>1, <2>2, <2>3, <2>4 DEF ScreenNext
<1> QED BY <1>1, <1>2, PTL DEF ScreenSpec, ScrollsAsGrid, S!Spec

-----------------------------------------------------------------------------
(***************************************************************************)
(* On a screen of any size, a refresh that nothing disturbs shows it.      *)
(***************************************************************************)

(* What the daemon has read is what the screen holds, unless something was *)
(* written since: the offsets, and the cells before the first row shown.   *)
ReadRight ==
  stage \in {"copy", "draw"} /\ quiet => head = scr.offset /\ cursor = Relative(scr)
CopiedRight ==
  stage = "draw" /\ quiet => \A i \in Cells : i < scr.offset => behind[i] = scr.cells[i]

DInv == Good(scr) /\ ReadRight /\ CopiedRight /\ ShowsScreen

(* The cells drawn are those of the grid, in the ring or in its copy.      *)
LEMMA DrawsGrid ==
  ASSUME DInv, Draw, quiet
  PROVE  drawn' = [cells |-> Grid, row |-> Row(scr), col |-> Col(scr)]
<1> DEFINE Memory(i) == IF i < Size THEN scr.cells[i] ELSE behind[i - Size]
<1>1. head = scr.offset /\ cursor = Relative(scr) /\ scr.offset \in Cells
  BY DEF DInv, ReadRight, Draw, Good, Screens
<1>2. \A i \in Cells : i < scr.offset => behind[i] = scr.cells[i]
  BY DEF DInv, CopiedRight, Draw
<1>3. ASSUME NEW k \in Cells PROVE Memory(scr.offset + k) = scr.cells[Place(scr, k)]
  <2>1. CASE scr.offset + k < Size
    BY <2>1 DEF Place
  <2>2. CASE ~(scr.offset + k < Size)
    <3>1. scr.offset + k - Size \in Cells /\ scr.offset + k - Size < scr.offset
      BY <1>1, <2>2, RowsFit DEF Cells
    <3>2. (scr.offset + k) - Size = scr.offset + k - Size
      BY <1>1, RowsFit DEF Cells
    <3> DEFINE i == scr.offset + k - Size
    <3>3. Memory(scr.offset + k) = behind[i]
      BY <2>2, <3>2
    <3>4. Place(scr, k) = i
      BY <2>2 DEF Place
    <3>5. behind[i] = scr.cells[i]
      BY <1>2, <3>1
    <3> HIDE DEF i, Memory
    <3> QED BY <3>3, <3>4, <3>5
  <2> QED BY <2>1, <2>2
<1>4. ASSUME NEW r \in GridRows, NEW c \in GridCols
      PROVE  Memory(head + r * Width + c) = scr.cells[Place(scr, r * Width + c)]
  <2>1. r * Width + c \in Cells /\ head + r * Width + c = scr.offset + (r * Width + c)
    BY <1>1, GridCells DEF Cells, GridCols
  <2> QED BY <1>3, <2>1
<1>5. drawn' = [cells |-> [r \in GridRows |-> [c \in GridCols |-> Memory(head + r * Width + c)]],
                row |-> cursor \div Width, col |-> cursor % Width]
  BY DEF Draw, GridRows, GridCols
<1> HIDE DEF Memory
<1>6. Grid = [r \in GridRows |-> [c \in GridCols |-> Memory(head + r * Width + c)]]
  <2>1. GridOf(scr) = [r \in GridRows |-> [c \in GridCols |-> scr.cells[Place(scr, r * Width + c)]]]
    BY GridIs DEF DInv
  <2> QED BY <1>4, <2>1, GridIsShown
<1> QED BY <1>1, <1>5, <1>6 DEF Row, Col

(* Every step keeps the invariant.                                         *)
LEMMA RefreshKeeps == GotoOnScreen /\ DInv /\ [Next]_vars => DInv'
<1> SUFFICES ASSUME GotoOnScreen, DInv, [Next]_vars PROVE DInv'
  OBVIOUS
<1>1. CASE Write
  <2>1. Good(scr')
    BY <1>1, StepKeeps DEF Write, DInv
  <2> QED BY <1>1, <2>1 DEF Write, DInv, ReadRight, CopiedRight, ShowsScreen
<1>2. CASE Look
  <2>1. cursor' = Relative(scr)
    BY <1>2, RowsFit DEF Look, Relative, DInv, Good, Screens, Cells
  <2> QED BY <1>2, <2>1, GridIsShown DEF Look, DInv, ReadRight, CopiedRight, ShowsScreen
<1>3. CASE Copy
  <2>1. quiet => \A i \in Cells : i < scr.offset => behind'[i] = scr.cells[i]
    <3> SUFFICES ASSUME quiet, NEW i \in Cells, i < scr.offset PROVE behind'[i] = scr.cells[i]
      OBVIOUS
    <3>1. head = scr.offset /\ scr.offset \in Cells
      BY <1>3 DEF Copy, DInv, ReadRight, Good, Screens
    <3>2. Copied(i)
      BY <3>1, RowsFit DEF Copied, Cells, SCR_UNIT_SIZE
    <3> QED BY <1>3, <3>2 DEF Copy
  <2> QED BY <1>3, <2>1, GridIsShown DEF Copy, DInv, ReadRight, CopiedRight, ShowsScreen
<1>4. CASE Draw
  <2>1. current' => drawn' = [cells |-> Grid, row |-> Row(scr), col |-> Col(scr)]
    BY <1>4, DrawsGrid DEF Draw
  <2> QED BY <1>4, <2>1, GridIsShown DEF Draw, DInv, ReadRight, CopiedRight, ShowsScreen
<1>5. CASE UNCHANGED vars
  BY <1>5, GridIsShown DEF vars, daemonVars, DInv, ReadRight, CopiedRight, ShowsScreen
<1> QED BY <1>1, <1>2, <1>3, <1>4, <1>5 DEF Next, Refresh

(* A refresh that nothing disturbed shows the screen and its cursor,       *)
(* however often it has scrolled, if programs keep to its columns.         *)
THEOREM RefreshShows == GotoOnScreen /\ Spec => []ShowsScreen
<1>1. Init => DInv
  BY BlankIsGood DEF Init, ScreenInit, DInv, ReadRight, CopiedRight, ShowsScreen
<1>2. GotoOnScreen /\ DInv /\ [Next]_vars => GotoOnScreen' /\ DInv'
  BY RefreshKeeps DEF GotoOnScreen
<1>3. DInv => ShowsScreen
  BY DEF DInv
<1> QED BY <1>1, <1>2, <1>3, PTL DEF Spec
===============================================================================
