---------------------------- MODULE LineDiscipline -----------------------------
(***************************************************************************)
(* What the terminal of the kernel (os/terminal.lib) makes of the keys:    *)
(* the line being typed can be changed until newline hands it over, and    *)
(* programs read what was handed over, in order.  Both have a limit, and   *)
(* what goes beyond it is dropped.                                         *)
(***************************************************************************)
EXTENDS Integers, Sequences

CONSTANTS Letters, Newline, LineMax, ReadyMax

VARIABLES line,   \* the line being typed
          ready,  \* handed over, not yet read
          read    \* what a program read last, or -1

vars == <<line, ready, read>>

Init == line = <<>> /\ ready = <<>> /\ read = -1

Type(ch) ==
  /\ Len(line) < LineMax
  /\ line' = Append(line, ch)
  /\ UNCHANGED <<ready, read>>

(* The newline goes into the line; what there is room for is handed over.  *)
Enter ==
  /\ Len(line) < LineMax
  /\ LET text == ready \o Append(line, Newline) IN
       ready' = SubSeq(text, 1, IF Len(text) < ReadyMax THEN Len(text) ELSE ReadyMax)
  /\ line' = <<>>
  /\ UNCHANGED read

Erase ==
  /\ line # <<>>
  /\ line' = SubSeq(line, 1, Len(line) - 1)
  /\ UNCHANGED <<ready, read>>

Read ==
  /\ ready # <<>>
  /\ read' = Head(ready) /\ ready' = Tail(ready)
  /\ UNCHANGED line

NothingToRead ==
  /\ ready = <<>>
  /\ read' = -1
  /\ UNCHANGED <<line, ready>>

Next == (\E ch \in Letters : Type(ch)) \/ Enter \/ Erase \/ Read \/ NothingToRead

Spec == Init /\ [][Next]_vars
===============================================================================
