-------------------------------- MODULE MCCpu ---------------------------------
(* A program for Cpu with branches, a system call in sequence and one in   *)
(* the delay slot of a branch, a branch whose target follows its own delay *)
(* slot, a reset and a shutdown, and handlers with a branch and a reset.   *)
EXTENDS Cpu

I(op) == [op |-> op, target |-> 0]
J(target) == [op |-> "jump", target |-> target]
B(target) == [op |-> "branch", target |-> target]

MCBoot == 1
MCVector == [s \in Sources |-> CASE s = "syscall" -> 19 [] s = "keyboard" -> 21 [] s = "timer" -> 25]

Program == <<
  I("ei"),       \* 1
  B(4),          \* 2  its target follows its delay slot
  I("alu"),      \* 3
  I("syscall"),  \* 4
  B(8),          \* 5
  I("syscall"),  \* 6  in a delay slot
  I("wait"),     \* 7
  B(2),          \* 8
  I("eret"),     \* 9  in a delay slot, outside a handler
  B(12),         \* 10
  I("alu"),      \* 11
  B(15),         \* 12
  I("alu"),      \* 13
  I("reset"),    \* 14
  B(18),         \* 15
  I("alu"),      \* 16
  I("reserved"), \* 17
  I("shutdown"), \* 18
  I("alu"),      \* 19 the handler of syscall
  I("eret"),     \* 20
  B(24),         \* 21 the handler of keyboard
  J(23),         \* 22 a jump in a delay slot
  I("eret"),     \* 23
  I("reset"),    \* 24
  I("eret")      \* 25 the handler of timer
>>
===============================================================================
