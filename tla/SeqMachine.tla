------------------------------ MODULE SeqMachine ------------------------------
(***************************************************************************)
(* What a program sees of the processor (memu/inst.c, memu/reg.c) when     *)
(* there are no interrupts: instructions run one after the other, and the  *)
(* instruction after a branch, its delay slot, runs before the branch      *)
(* takes effect.  Addresses count instructions.                            *)
(***************************************************************************)
EXTENDS Naturals

CONSTANTS
  Code,             \* what each address holds: [op, target]
  Boot              \* where the processor starts

VARIABLES pc, npc,  \* the next instruction, and the one after it
          halted,   \* it was shut down, or ran an instruction that is not implemented
          resetting \* a reset was asked for

vars == <<pc, npc, halted, resetting>>

Init == pc \in Nat /\ npc = pc + 1 /\ halted = FALSE /\ resetting = FALSE

Step(op) ==
  /\ ~halted /\ ~resetting
  /\ Code[pc].op = op
  /\ pc' = npc

(* Neither a system call nor wait changes where the program goes; nor does *)
(* eret in a program that is not an interrupt handler.                     *)
Plain ==
  /\ \E op \in {"alu", "syscall", "wait", "ei", "eret"} : Step(op)
  /\ npc' = npc + 1
  /\ UNCHANGED <<halted, resetting>>

Branch ==
  /\ Step("branch")
  /\ npc' \in {npc + 1, Code[pc].target}
  /\ UNCHANGED <<halted, resetting>>

Jump ==
  /\ Step("jump")
  /\ npc' = Code[pc].target
  /\ UNCHANGED <<halted, resetting>>

Halt ==
  /\ Step("reserved") \/ Step("shutdown")
  /\ npc' = npc + 1
  /\ halted' = TRUE
  /\ UNCHANGED resetting

AskReset ==
  /\ Step("reset")
  /\ npc' = npc + 1
  /\ resetting' = TRUE
  /\ UNCHANGED halted

(* The handler of an interrupt asks for it.                                *)
HandlerAsks ==
  /\ ~halted
  /\ resetting' = TRUE
  /\ UNCHANGED <<pc, npc, halted>>

Reset ==
  /\ resetting
  /\ pc' = Boot /\ npc' = Boot + 1
  /\ resetting' = FALSE
  /\ UNCHANGED halted

Next == Plain \/ Branch \/ Jump \/ Halt \/ AskReset \/ HandlerAsks \/ Reset

Spec == Init /\ [][Next]_vars
===============================================================================
