------------------------------- MODULE Display --------------------------------
(***************************************************************************)
(* display_daemon (memu/daemon.c): a thread that draws the frame buffer of *)
(* Screen over and over.  It unrolls the ring of cells by copying its      *)
(* start behind its end, and draws Size cells from the first row on.  No   *)
(* lock keeps the kernel from writing and scrolling meanwhile.             *)
(***************************************************************************)
EXTENDS Screen

VARIABLES
  behind,   \* the Size cells of memory behind the frame buffer
  stage,    \* where display_daemon is
  head,     \* its fbhead, in cells
  cursor,   \* its cursor_off
  drawn,    \* the terminal window: its cells, and its cursor
  quiet,    \* history: nothing was written since the refresh began
  current   \* history: nor since the window was drawn

daemonVars == <<behind, stage, head, cursor, drawn>>
vars == <<scr, daemonVars, quiet, current>>

Init ==
  /\ ScreenInit
  /\ behind = [i \in Cells |-> 0]
  /\ stage = "sleep" /\ head = 0 /\ cursor = 0
  /\ drawn = [cells |-> Grid, row |-> 0, col |-> 0]
  /\ quiet = FALSE /\ current = FALSE

Write ==
  /\ ScreenNext
  /\ quiet' = FALSE /\ current' = FALSE
  /\ UNCHANGED daemonVars

(* fbhead and cursor_off are read.                                         *)
Look ==
  /\ stage = "sleep"
  /\ head' = scr.offset
  /\ cursor' = IF scr.cursor < scr.offset THEN scr.cursor - scr.offset + Size
                                          ELSE scr.cursor - scr.offset
  /\ stage' = "copy"
  /\ quiet' = TRUE
  /\ UNCHANGED <<scr, behind, drawn, current>>

(* Variant: fbhead counts words, and fbhead bytes are copied. *)
CopiedBytes(i) == SCR_UNIT_SIZE * i < head

(* fbhead * chrsz bytes are copied, with fbhead in bytes already.  What    *)
(* goes beyond behind is never drawn.                                      *)
Copied(i) == i < head * SCR_UNIT_SIZE

Copy ==
  /\ stage = "copy"
  /\ behind' = [i \in Cells |-> IF Copied(i) THEN scr.cells[i] ELSE behind[i]]
  /\ stage' = "draw"
  /\ UNCHANGED <<scr, head, cursor, drawn, quiet, current>>

Draw ==
  /\ stage = "draw"
  /\ LET Memory(i) == IF i < Size THEN scr.cells[i] ELSE behind[i - Size] IN
     drawn' = [cells |-> [r \in 0 .. Height - 1 |-> [c \in 0 .. Width - 1 |->
                            Memory(head + r * Width + c)]],
               row |-> cursor \div Width, col |-> cursor % Width]
  /\ stage' = "sleep"
  /\ current' = quiet
  /\ UNCHANGED <<scr, behind, head, cursor, quiet>>

Refresh == Look \/ Copy \/ Draw

Next == Write \/ Refresh

Spec == Init /\ [][Next]_vars

-----------------------------------------------------------------------------
(* Properties.                                                             *)

(* A refresh that nothing disturbed shows the screen, scrolled or not, and *)
(* its cursor, until the next write (daemon.c:66-93).                      *)
ShowsScreen ==
  current => drawn = [cells |-> Grid, row |-> Row(scr), col |-> Col(scr)]
===============================================================================
