------------------------------- MODULE Terminal -------------------------------
(***************************************************************************)
(* The terminal of the kernel, os/terminal.lib: keys are echoed and        *)
(* collected in TERM_INBUF, a newline flushes them to LIB_INBUF, and       *)
(* programs read them there.  Both are rings of words that keep one slot   *)
(* free.  Its calls run with interrupts off, one step each.                *)
(***************************************************************************)
EXTENDS Screen, Sequences

CONSTANTS
  TERM_INBUF_SIZE, LIB_INBUF_SIZE   \* in slots

Delete == 127
Unset == 0                          \* the initial contents of the slots

ASSUME TerminalAssumption ==
  /\ TERM_INBUF_SIZE \in Nat \ {0, 1} /\ LIB_INBUF_SIZE \in Nat \ {0, 1}
  /\ {Delete, Unset} \cap Letters = {}

VARIABLES
  term,    \* TERM_INBUF: [data, start, end]
  lib,     \* LIB_INBUF: the same
  read     \* what the last GETC returned, or -1

vars == <<scr, term, lib, read>>

-----------------------------------------------------------------------------
(* Rings of n slots.                                                       *)

EmptyRing(n) == [data |-> [i \in 0 .. n - 1 |-> Unset], start |-> 0, end |-> 0]

(* Variant: no wrap. *)
AfterInMemory(i, n) == i + 1

After(i, n) == IF i + 1 = n THEN 0 ELSE i + 1

(* How far slot j is from slot i. *)
From(i, j, n) == IF i <= j THEN j - i ELSE j - i + n

Count(q, n) == From(q.start, q.end, n)

Contents(q, n) == [k \in 1 .. Count(q, n) |-> q.data[(q.start + k - 1) % n]]

Init ==
  /\ ScreenInit
  /\ term = EmptyRing(TERM_INBUF_SIZE)
  /\ lib = EmptyRing(LIB_INBUF_SIZE)
  /\ read = -1

-----------------------------------------------------------------------------
(* Variant: a full LIB_INBUF is not noticed. *)
RoomForAll(q) == Count(q, TERM_INBUF_SIZE)

(* How many characters of the line q FLUSH_TO_LIB has room for.            *)
Room(q) ==
  LET k == Count(q, TERM_INBUF_SIZE)
      free == LIB_INBUF_SIZE - 1 - Count(lib, LIB_INBUF_SIZE)
  IN IF k < free THEN k ELSE free

(* FLUSH_TO_LIB: all of the line q leaves TERM_INBUF.  What does not fit   *)
(* is written, one character over the other, to the slot that stays free.  *)
Flush(q) ==
  LET n == LIB_INBUF_SIZE
      k == Count(q, TERM_INBUF_SIZE)
      line == Contents(q, TERM_INBUF_SIZE)
      Slot(i) == From(lib.end, i, n)
  IN /\ term' = [q EXCEPT !.start = q.end]
     /\ lib' = [lib EXCEPT
          !.end = (@ + Room(q)) % n,
          !.data = [i \in 0 .. n - 1 |->
            IF Slot(i) < Room(q) THEN line[Slot(i) + 1]
            ELSE IF Slot(i) = Room(q) /\ Room(q) < k THEN line[k] ELSE @[i]]]

(* TERM_INBUF_PUSHC: the slot is written before the ring is found full.    *)
PushC(ch) ==
  LET next == After(term.end, TERM_INBUF_SIZE)
      stored == [term EXCEPT !.data[term.end] = ch]
      pushed == [stored EXCEPT !.end = next]
  IN IF next = term.start THEN term' = stored /\ UNCHANGED lib
     ELSE IF ch = Newline THEN Flush(pushed)
     ELSE term' = pushed /\ UNCHANGED lib

(* TERM_KEYBOARD of the key backspace: the character goes, and its echo.   *)
Erase ==
  /\ IF term.start # term.end
     THEN /\ term' = [term EXCEPT !.end = IF @ > 0 THEN @ - 1 ELSE TERM_INBUF_SIZE - 1]
          /\ scr' = Rub(scr)
     ELSE UNCHANGED <<term, scr>>
  /\ UNCHANGED <<lib, read>>

(* TERM_KEYBOARD of any other key: it is echoed first.                     *)
Key(ch) ==
  /\ scr' = Printed(scr, ch)
  /\ PushC(ch)
  /\ UNCHANGED read

TERM_KEYBOARD == Erase \/ \E ch \in Chars : Key(ch)

(* TERM_GETC; the low byte of a slot is a character.                       *)
TERM_GETC ==
  /\ IF lib.start = lib.end
     THEN read' = -1 /\ UNCHANGED lib
     ELSE /\ read' = lib.data[lib.start]
          /\ lib' = [lib EXCEPT !.start = After(@, LIB_INBUF_SIZE)]
  /\ UNCHANGED <<scr, term>>

Output == (TERM_PUTC \/ TERM_GOTOXY) /\ UNCHANGED <<term, lib, read>>

Next == TERM_KEYBOARD \/ TERM_GETC \/ Output

Spec == Init /\ [][Next]_vars

-----------------------------------------------------------------------------
(* Properties.                                                             *)

Ring(n) == [data : [0 .. n - 1 -> Chars \cup {Unset}], start : 0 .. n - 1, end : 0 .. n - 1]

(* Types of the rings.                                                     *)
TypeOK ==
  /\ term \in Ring(TERM_INBUF_SIZE) /\ lib \in Ring(LIB_INBUF_SIZE)
  /\ read \in Chars \cup {-1}

(* Until newline a line is the terminal's: programs see none of it, and    *)
(* backspace cannot take back what was handed over; programs read what was *)
(* handed over in order and once, and -1 only when there is nothing; a     *)
(* full ring drops only the newest (terminal.lib:36-114, 151-253).         *)
Line == INSTANCE LineDiscipline WITH
  Letters <- Chars \ {Newline},
  LineMax <- TERM_INBUF_SIZE - 1, ReadyMax <- LIB_INBUF_SIZE - 1,
  line <- Contents(term, TERM_INBUF_SIZE), ready <- Contents(lib, LIB_INBUF_SIZE)

EditsLines == Line!Spec
===============================================================================
