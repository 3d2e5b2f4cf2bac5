--------------------------------- MODULE Cpu ----------------------------------
(***************************************************************************)
(* The processor of the emulator: main_loop of memu/memu.c with the        *)
(* interrupts of memu/interrupt.c, the instructions of memu/inst.c that    *)
(* move the program counter, the threads of memu/daemon.c that raise       *)
(* interrupts, and the power port of memu/mem.c, which resets all of it.   *)
(* One iteration of the loop is several steps, so that the threads run     *)
(* between them.  Addresses count instructions (4 bytes).                  *)
(*                                                                         *)
(* A branch may be taken or not, whatever it tests.  Handlers do not write *)
(* EXL or IE, as those of os/interrupt.lib do not.                         *)
(***************************************************************************)
EXTENDS Naturals

CONSTANTS
  Code,      \* what each address holds: [op, target]
  Boot,      \* entry_offset: where the processor starts
  Vector,    \* the handler of each interrupt source
  MaxKeys    \* how many keys are pressed (bound)

Sources == {"syscall", "keyboard", "timer"}
Ops == {"alu", "branch", "jump", "syscall", "wait", "ei", "eret", "reserved", "reset", "shutdown"}
Threads == {"keyboard", "timer"}

ASSUME CpuAssumption ==
  /\ \A a \in DOMAIN Code : a \in Nat /\ Code[a].op \in Ops /\ Code[a].target \in Nat
  /\ Boot \in Nat
  /\ Vector \in [Sources -> Nat]
  /\ MaxKeys \in Nat

VARIABLES
  stage,            \* where the loop is
  pc, adv1, adv2,   \* PC, PC_ADVANCE1, PC_ADVANCE2
  epc, exl, ie,     \* the coprocessor registers EPC, EXL, IE
  wait,             \* the flag the wait instruction sets
  pending,          \* interrupt_state
  taking,           \* what interrupt_entry returned
  keys,             \* the keys pressed so far
  threads           \* the threads that run

pipeline == <<pc, adv1, adv2>>
mode == <<epc, exl, ie>>
vars == <<stage, pipeline, mode, wait, pending, taking, keys, threads>>

Init ==
  /\ stage = "top"
  /\ pc = Boot /\ adv1 = Boot /\ adv2 = Boot + 1
  /\ epc = 0 /\ exl = FALSE /\ ie = FALSE
  /\ wait = FALSE
  /\ pending = [s \in Sources |-> FALSE]
  /\ taking = "timer"
  /\ keys = 0
  /\ threads = Threads

-----------------------------------------------------------------------------
(* The interrupt state.                                                    *)

(* Variant: the waiting processor is not signalled. *)
SetSilently(s) ==
  /\ pending' = [pending EXCEPT ![s] = TRUE]
  /\ UNCHANGED stage

(* interrupt_set called by another thread: pthread_cond_signal wakes the   *)
(* processor only if it is already blocked.                                *)
Set(s) ==
  /\ pending' = [pending EXCEPT ![s] = TRUE]
  /\ stage' = IF stage = "blocked" THEN "woken" ELSE stage

(* Variant: interrupts are never disabled. *)
InterruptAlways == ~exl

InterruptTest == ~exl /\ ie

(* Variant: the timer comes first. *)
TimerFirst(s) ==
  /\ pending[s]
  /\ s = "keyboard" => ~pending["timer"]
  /\ s = "syscall" => ~pending["timer"] /\ ~pending["keyboard"]

(* interrupt_entry returns s: the first pending one of syscall, keyboard,  *)
(* timer.                                                                  *)
InterruptEntry(s) ==
  /\ pending[s]
  /\ s = "keyboard" => ~pending["syscall"]
  /\ s = "timer" => ~pending["syscall"] /\ ~pending["keyboard"]

-----------------------------------------------------------------------------
(* The loop.                                                               *)

(* reg_advance_pc *)
Advance ==
  /\ pc' = adv1 /\ adv1' = adv2 /\ adv2' = adv2 + 1
  /\ stage' = "test"

Begin ==
  /\ stage = "top" /\ ~wait
  /\ Advance
  /\ UNCHANGED <<mode, wait, pending, taking, keys, threads>>

(* The processor blocks whatever is pending: the wait has no condition.    *)
Block ==
  /\ stage = "top" /\ wait
  /\ stage' = "blocked"
  /\ UNCHANGED <<pipeline, mode, wait, pending, taking, keys, threads>>

(* pthread_cond_wait may return without a signal.                          *)
WakeSpuriously ==
  /\ stage = "blocked"
  /\ stage' = "woken"
  /\ UNCHANGED <<pipeline, mode, wait, pending, taking, keys, threads>>

Resume ==
  /\ stage = "woken"
  /\ wait' = FALSE
  /\ Advance
  /\ UNCHANGED <<mode, pending, taking, keys, threads>>

(* Variant: delay slots are interrupted too. *)
InterruptibleAnywhere == InterruptTest

(* "we dont interrupt at a delay slot" *)
Interruptible == adv1 = pc + 1 /\ InterruptTest

Test ==
  /\ stage = "test"
  /\ \/ /\ Interruptible
        /\ \E s \in Sources : InterruptEntry(s) /\ taking' = s
        /\ stage' = "take"
     \/ /\ ~Interruptible \/ \A s \in Sources : ~InterruptEntry(s)
        /\ stage' = "exec"
        /\ UNCHANGED taking
  /\ UNCHANGED <<pipeline, mode, wait, pending, keys, threads>>

(* Variant: the interrupt is not reset when it is taken. *)
TakeAgain ==
  /\ stage = "take"
  /\ epc' = pc /\ exl' = TRUE
  /\ pc' = Vector[taking] /\ adv1' = pc' + 1 /\ adv2' = pc' + 2
  /\ stage' = "exec"
  /\ UNCHANGED <<ie, wait, pending, taking, keys, threads>>

Take ==
  /\ stage = "take"
  /\ epc' = pc /\ exl' = TRUE
  /\ pc' = Vector[taking] /\ adv1' = pc' + 1 /\ adv2' = pc' + 2
  /\ pending' = [pending EXCEPT ![taking] = FALSE]
  /\ stage' = "exec"
  /\ UNCHANGED <<ie, wait, taking, keys, threads>>

-----------------------------------------------------------------------------
(* inst_execute.                                                           *)

Exec(op) == stage = "exec" /\ Code[pc].op = op /\ stage' = "top"

ExecAlu ==
  /\ Exec("alu")
  /\ UNCHANGED <<pipeline, mode, wait, pending, taking, keys, threads>>

ExecBranch ==
  /\ Exec("branch")
  /\ adv2' \in {adv2, Code[pc].target}
  /\ UNCHANGED <<pc, adv1, mode, wait, pending, taking, keys, threads>>

ExecJump ==
  /\ Exec("jump")
  /\ adv2' = Code[pc].target
  /\ UNCHANGED <<pc, adv1, mode, wait, pending, taking, keys, threads>>

ExecSyscall ==
  /\ Exec("syscall")
  /\ pending' = [pending EXCEPT !["syscall"] = TRUE]
  /\ UNCHANGED <<pipeline, mode, wait, taking, keys, threads>>

ExecWait ==
  /\ Exec("wait")
  /\ wait' = TRUE
  /\ UNCHANGED <<pipeline, mode, pending, taking, keys, threads>>

(* mtc0 of 1 to IE *)
ExecEnable ==
  /\ Exec("ei")
  /\ ie' = TRUE
  /\ UNCHANGED <<pipeline, epc, exl, wait, pending, taking, keys, threads>>

(* eret outside a handler does nothing. *)
ExecEret ==
  /\ Exec("eret")
  /\ IF exl THEN adv1' = epc /\ adv2' = epc + 1 /\ exl' = FALSE
            ELSE UNCHANGED <<adv1, adv2, exl>>
  /\ UNCHANGED <<pc, epc, ie, wait, pending, taking, keys, threads>>

(* main_loop ends at an instruction that is not implemented. *)
ExecReserved ==
  /\ stage = "exec" /\ Code[pc].op = "reserved"
  /\ stage' = "stopped"
  /\ UNCHANGED <<pipeline, mode, wait, pending, taking, keys, threads>>

(* A store to the power port: fini begins, and the program ends or starts  *)
(* again.                                                                  *)
ExecShutdown ==
  /\ stage = "exec" /\ Code[pc].op = "shutdown"
  /\ stage' = "stopped"
  /\ UNCHANGED <<pipeline, mode, wait, pending, taking, keys, threads>>

ExecReset ==
  /\ stage = "exec" /\ Code[pc].op = "reset"
  /\ stage' = "resetting"
  /\ UNCHANGED <<pipeline, mode, wait, pending, taking, keys, threads>>

Execute ==
  \/ ExecAlu \/ ExecBranch \/ ExecJump \/ ExecSyscall \/ ExecWait \/ ExecEnable
  \/ ExecEret \/ ExecReserved \/ ExecShutdown \/ ExecReset

Loop == Begin \/ Block \/ Resume \/ Test \/ Take \/ Execute

(* fini cancels the threads, which run on until they sleep or read a key,  *)
(* and joins them before it frees memory.                                  *)
Cancel ==
  /\ stage \in {"resetting", "stopped"}
  /\ \E t \in threads : threads' = threads \ {t}
  /\ UNCHANGED <<stage, pipeline, mode, wait, pending, taking, keys>>

(* Variant: nothing clears the coprocessor registers. *)
RestartMode ==
  /\ stage = "resetting" /\ threads = {}
  /\ adv1' = Boot /\ adv2' = Boot + 1
  /\ stage' = "top" /\ threads' = Threads
  /\ UNCHANGED <<pc, mode, wait, pending, taking, keys>>

(* longjmp to main: reg_init clears the coprocessor registers and nothing  *)
(* else; interrupt_state and wait are as they were.                        *)
Restart ==
  /\ stage = "resetting" /\ threads = {}
  /\ adv1' = Boot /\ adv2' = Boot + 1
  /\ epc' = 0 /\ exl' = FALSE /\ ie' = FALSE
  /\ stage' = "top" /\ threads' = Threads
  /\ UNCHANGED <<pc, wait, pending, taking, keys>>

Power == Cancel \/ Restart

-----------------------------------------------------------------------------
(* The threads.                                                            *)

TimerTick ==
  /\ "timer" \in threads
  /\ Set("timer")
  /\ UNCHANGED <<pipeline, mode, wait, taking, keys, threads>>

KeyPress ==
  /\ "keyboard" \in threads /\ keys < MaxKeys
  /\ keys' = keys + 1
  /\ Set("keyboard")
  /\ UNCHANGED <<pipeline, mode, wait, taking, threads>>

Next == Loop \/ Power \/ WakeSpuriously \/ TimerTick \/ KeyPress

Spec == Init /\ [][Next]_vars

(* The main thread runs on, and the timer thread sleeps and ticks until it *)
(* is cancelled; a cancelled thread ends.                                  *)
FairSpec == Spec /\ WF_vars(Loop) /\ WF_vars(Power) /\ WF_vars(TimerTick)

-----------------------------------------------------------------------------
(* Properties.                                                             *)

(* Types; a handler runs only with interrupts enabled.                     *)
TypeOK ==
  /\ stage \in {"top", "blocked", "woken", "test", "take", "exec", "stopped", "resetting"}
  /\ pc \in Nat /\ adv1 \in Nat /\ adv2 \in Nat /\ epc \in Nat
  /\ exl \in BOOLEAN /\ ie \in BOOLEAN /\ wait \in BOOLEAN
  /\ pending \in [Sources -> BOOLEAN]
  /\ taking \in Sources
  /\ keys \in 0..MaxKeys /\ threads \subseteq Threads
  /\ exl => ie

(* A system call is answered before the program that made it goes on: once *)
(* syscall has run with interrupts enabled, the next thing to run is its   *)
(* handler, although keys and ticks arrive meanwhile (interrupt.c:72-82)   *)
(* and a handler only starts outside delay slots (memu.c:104).             *)
Outstanding == pending["syscall"] /\ ie /\ ~exl
SyscallPrecise ==
  Outstanding =>
    /\ stage \in {"top", "test", "take"}
    /\ stage = "take" => taking = "syscall"
    /\ ~wait

(* The inductive invariant behind it: after reg_advance_pc the pipeline is *)
(* in sequence behind the instruction after next, and all of it is where   *)
(* an interrupt is being taken or a system call is outstanding.            *)
Sequential ==
  /\ stage \in {"test", "take", "exec"} => adv2 = adv1 + 1 /\ ~wait
  /\ stage = "take" => adv1 = pc + 1 /\ ~exl /\ taking \in Sources
  /\ Outstanding => IF stage = "top" THEN adv2 = adv1 + 1 ELSE adv1 = pc + 1
IInv == pending \in [Sources -> BOOLEAN] /\ Sequential /\ SyscallPrecise

(* The program as it would be without interrupts: its next instructions    *)
(* are those in the pipeline, or where the handler in progress returns to. *)
Fetched == stage \in {"test", "take", "exec"}
UserPc == IF exl THEN epc ELSE IF Fetched THEN pc ELSE adv1
UserNpc == IF exl THEN epc + 1 ELSE IF Fetched THEN adv1 ELSE adv2

Seq == INSTANCE SeqMachine WITH
         pc <- UserPc, npc <- UserNpc, halted <- stage = "stopped" /\ ~exl,
         resetting <- stage = "resetting"

(* Interrupts are invisible to the flow of control of the program, at      *)
(* branches and delay slots too: EPC alone is enough to resume it          *)
(* (memu.c:104-123, inst.c:794-816); and a reset, wherever it is asked     *)
(* for, starts it at Boot outside every handler, although interrupts from  *)
(* before it are still pending (mem.c:143-172, reg.c:50-54).               *)
InterruptsTransparent == Seq!Spec

(* The processor never sleeps for ever: a wake-up that came before it      *)
(* blocked is lost, but the next tick wakes it (memu.c:93-99).             *)
WaitEnds == stage = "blocked" ~> stage # "blocked"

(* Every interrupt raised is taken in the end, once interrupts are on,     *)
(* one from before a reset too, unless the emulator ends.                  *)
InterruptTaken ==
  \A s \in Sources : (pending[s] /\ ie) ~> (~pending[s] \/ stage = "stopped")
===============================================================================
