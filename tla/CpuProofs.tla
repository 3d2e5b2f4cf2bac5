------------------------------ MODULE CpuProofs -------------------------------
(***************************************************************************)
(* Interrupts are invisible to every program, with branches and delay      *)
(* slots wherever it has them, and its system calls are answered in place. *)
(***************************************************************************)
EXTENDS Cpu, TLAPS

LEMMA InitHolds == Init => IInv
BY DEF Init, IInv, Sequential, SyscallPrecise, Outstanding, Sources

(* The steps of the loop before an instruction runs.                       *)
LEMMA LoopKeeps == IInv /\ (Begin \/ Block \/ Resume \/ Test \/ Take) => IInv'
<1> SUFFICES ASSUME IInv, Begin \/ Block \/ Resume \/ Test \/ Take PROVE IInv'
  OBVIOUS
<1> USE DEF IInv, Sequential, SyscallPrecise, Outstanding, pipeline, mode
<1>1. CASE Begin
  BY <1>1 DEF Begin, Advance
<1>2. CASE Block
  BY <1>2 DEF Block
<1>3. CASE Resume
  BY <1>3 DEF Resume, Advance
<1>4. CASE Test
  <2>1. Outstanding => Interruptible /\ InterruptEntry("syscall")
    BY <1>4 DEF Test, Interruptible, InterruptTest, InterruptEntry
  <2>2. \A s \in Sources : pending["syscall"] /\ InterruptEntry(s) => s = "syscall"
    BY DEF InterruptEntry, Sources
  <2> QED BY <1>4, <2>1, <2>2 DEF Test, Interruptible, InterruptTest, Sources
<1>5. CASE Take
  <2>1. pc' \in Nat
    BY <1>5, CpuAssumption DEF Take
  <2> QED BY <1>5, <2>1 DEF Take
<1> QED BY <1>1, <1>2, <1>3, <1>4, <1>5

(* An instruction.                                                         *)
LEMMA ExecuteKeeps == IInv /\ Execute => IInv'
<1> SUFFICES ASSUME IInv, Execute PROVE IInv'
  OBVIOUS
<1> USE DEF IInv, Sequential, SyscallPrecise, Outstanding, pipeline, mode, Exec
<1>1. CASE ExecAlu
  BY <1>1 DEF ExecAlu
<1>2. CASE ExecBranch \/ ExecJump
  BY <1>2 DEF ExecBranch, ExecJump
<1>3. CASE ExecSyscall
  BY <1>3 DEF ExecSyscall
<1>4. CASE ExecWait
  BY <1>4 DEF ExecWait
<1>5. CASE ExecEnable
  BY <1>5 DEF ExecEnable
<1>6. CASE ExecEret
  BY <1>6 DEF ExecEret
<1>7. CASE ExecReserved \/ ExecShutdown \/ ExecReset
  BY <1>7 DEF ExecReserved, ExecShutdown, ExecReset
<1> QED BY <1>1, <1>2, <1>3, <1>4, <1>5, <1>6, <1>7 DEF Execute

(* A reset and the end of the program.                                     *)
LEMMA PowerKeeps == IInv /\ Power => IInv'
<1> SUFFICES ASSUME IInv, Power PROVE IInv'
  OBVIOUS
<1> USE DEF IInv, Sequential, SyscallPrecise, Outstanding, pipeline, mode
<1>1. CASE Cancel
  BY <1>1 DEF Cancel
<1>2. CASE Restart
  BY <1>2 DEF Restart
<1> QED BY <1>1, <1>2 DEF Power

(* What the threads change.                                                *)
LEMMA ThreadKeeps == IInv /\ (TimerTick \/ KeyPress \/ WakeSpuriously) => IInv'
<1> SUFFICES ASSUME IInv, TimerTick \/ KeyPress \/ WakeSpuriously PROVE IInv'
  OBVIOUS
<1> USE DEF IInv, Sequential, SyscallPrecise, Outstanding, pipeline, mode
<1>1. pending' \in [Sources -> BOOLEAN] /\ pending'["syscall"] = pending["syscall"]
  BY DEF TimerTick, KeyPress, WakeSpuriously, Set, Sources
<1>2. UNCHANGED <<pipeline, mode, wait, taking>>
  BY DEF TimerTick, KeyPress, WakeSpuriously
<1>3. stage' = stage \/ (stage = "blocked" /\ stage' = "woken")
  BY DEF TimerTick, KeyPress, WakeSpuriously, Set
<1> QED BY <1>1, <1>2, <1>3

THEOREM Invariance == Spec => []IInv
<1>1. IInv /\ UNCHANGED vars => IInv'
  BY DEF IInv, Sequential, SyscallPrecise, Outstanding, vars, pipeline, mode
<1>2. IInv /\ [Next]_vars => IInv'
  BY <1>1, LoopKeeps, ExecuteKeeps, PowerKeeps, ThreadKeeps DEF Next, Loop
<1> QED BY <1>2, InitHolds, PTL DEF Spec

(* A system call is answered before the program that made it goes on.      *)
THEOREM SyscallInPlace == Spec => []SyscallPrecise
<1>1. IInv => SyscallPrecise
  BY DEF IInv
<1> QED BY <1>1, Invariance, PTL

(* A step of the loop is a step of the machine without interrupts, or none *)
LEMMA StepMaps == IInv /\ [Next]_vars => [Seq!Next]_(Seq!vars)
<1> SUFFICES ASSUME IInv, [Next]_vars PROVE [Seq!Next]_(Seq!vars)
  OBVIOUS
<1> USE DEF IInv, Sequential, UserPc, UserNpc, Fetched, pipeline, mode
<1>1. CASE Begin \/ Block \/ Resume \/ Test
  BY <1>1 DEF Begin, Block, Resume, Test, Advance, Seq!vars
<1>2. CASE Take
  BY <1>2 DEF Take, Seq!vars
<1>3. CASE Execute /\ exl
  <2>1. CASE ExecEret
    BY <2>1, <1>3 DEF ExecEret, Exec, Seq!vars
  <2>2. CASE ExecReserved \/ ExecShutdown
    BY <2>2, <1>3 DEF ExecReserved, ExecShutdown, Seq!vars
  <2>3. CASE ExecReset
    BY <2>3, <1>3 DEF ExecReset, Seq!Next, Seq!HandlerAsks
  <2>4. CASE Execute /\ ~ExecEret /\ ~ExecReserved /\ ~ExecShutdown /\ ~ExecReset
    BY <2>4, <1>3 DEF Execute, ExecAlu, ExecBranch, ExecJump, ExecSyscall, ExecWait,
                      ExecEnable, Exec, Seq!vars
  <2> QED BY <2>1, <2>2, <2>3, <2>4, <1>3
<1>4. CASE Execute /\ ~exl
  <2> USE <1>4 DEF Seq!Next, Seq!Step
  <2>1. CASE ExecBranch
    BY <2>1 DEF ExecBranch, Exec, Seq!Branch
  <2>2. CASE ExecJump
    BY <2>2 DEF ExecJump, Exec, Seq!Jump
  <2>3. CASE ExecReserved \/ ExecShutdown
    BY <2>3 DEF ExecReserved, ExecShutdown, Seq!Halt
  <2>4. CASE ExecReset
    BY <2>4 DEF ExecReset, Seq!AskReset
  <2>5. CASE ExecEret
    BY <2>5 DEF ExecEret, Exec, Seq!Plain
  <2>6. CASE ExecAlu \/ ExecSyscall \/ ExecWait \/ ExecEnable
    BY <2>6 DEF ExecAlu, ExecSyscall, ExecWait, ExecEnable, Exec, Seq!Plain
  <2> QED BY <2>1, <2>2, <2>3, <2>4, <2>5, <2>6 DEF Execute
<1>5. CASE TimerTick \/ KeyPress \/ WakeSpuriously
  BY <1>5 DEF TimerTick, KeyPress, WakeSpuriously, Set, Seq!vars
<1>6. CASE UNCHANGED vars
  BY <1>6 DEF vars, Seq!vars
<1>7. CASE Cancel
  BY <1>7 DEF Cancel, Seq!vars
<1>8. CASE Restart
  BY <1>8 DEF Restart, Seq!Next, Seq!Reset
<1> QED BY <1>1, <1>2, <1>3, <1>4, <1>5, <1>6, <1>7, <1>8 DEF Power, Next, Loop

(* Interrupts are transparent, for every program and every interleaving.   *)
THEOREM Transparency == Spec => InterruptsTransparent
<1>1. Init => Seq!Init
  BY CpuAssumption DEF Init, Seq!Init, UserPc, UserNpc, Fetched
<1> QED BY <1>1, StepMaps, Invariance, PTL DEF Spec, InterruptsTransparent, Seq!Spec
-----------------------------------------------------------------------------
(* A handler runs only with interrupts enabled: nothing between the test   *)
(* and the entry disables them.                                            *)
InProgram == pc \in DOMAIN Code
Numbers == pc \in Nat /\ adv1 \in Nat /\ adv2 \in Nat /\ epc \in Nat /\ keys \in 0..MaxKeys
Places ==
  /\ stage \in {"top", "blocked", "woken", "test", "take", "exec", "stopped", "resetting"}
  /\ taking \in Sources /\ threads \subseteq Threads
Flags == exl \in BOOLEAN /\ ie \in BOOLEAN /\ wait \in BOOLEAN /\ pending \in [Sources -> BOOLEAN]
Enabled == (stage = "take" => ie) /\ (exl => ie)
TInv == Numbers /\ Places /\ Flags /\ Enabled

LEMMA NumbersKept == TInv /\ InProgram /\ Next => Numbers'
<1> SUFFICES ASSUME TInv, InProgram, Next PROVE Numbers'
  OBVIOUS
<1> USE CpuAssumption DEF Numbers, Exec, pipeline, mode
<1>1. Numbers /\ taking \in Sources
  BY DEF TInv, Places
<1>2. Code[pc].target \in Nat
  BY DEF InProgram
<1>3. CASE Begin \/ Block \/ Resume \/ Test \/ WakeSpuriously
  BY <1>1, <1>3 DEF Begin, Block, Resume, Test, WakeSpuriously, Advance
<1>4. CASE Take
  BY <1>1, <1>4 DEF Take
<1>5. CASE Execute
  BY <1>1, <1>2, <1>5 DEF Execute, ExecAlu, ExecBranch, ExecJump, ExecSyscall, ExecWait,
                          ExecEnable, ExecEret, ExecReserved, ExecShutdown, ExecReset
<1>6. CASE Power
  BY <1>1, <1>6 DEF Power, Cancel, Restart
<1>7. CASE TimerTick \/ KeyPress
  BY <1>1, <1>7 DEF TimerTick, KeyPress
<1> QED BY <1>3, <1>4, <1>5, <1>6, <1>7 DEF Next, Loop

LEMMA PlacesKept == TInv /\ Next => Places'
<1> SUFFICES ASSUME TInv, Next PROVE Places'
  OBVIOUS
<1> USE DEF Places
<1>1. Places
  BY DEF TInv
<1>2. CASE Begin \/ Block \/ Resume \/ Test \/ Take \/ WakeSpuriously
  BY <1>1, <1>2 DEF Begin, Block, Resume, Test, Take, WakeSpuriously, Advance
<1>3. CASE Execute
  BY <1>1, <1>3 DEF Execute, ExecAlu, ExecBranch, ExecJump, ExecSyscall, ExecWait, Exec,
                    ExecEnable, ExecEret, ExecReserved, ExecShutdown, ExecReset
<1>4. CASE Power
  BY <1>1, <1>4 DEF Power, Cancel, Restart
<1>5. CASE TimerTick \/ KeyPress
  BY <1>1, <1>5 DEF TimerTick, KeyPress, Set
<1> QED BY <1>2, <1>3, <1>4, <1>5 DEF Next, Loop

LEMMA FlagsKept == TInv /\ Next => Flags'
<1> SUFFICES ASSUME TInv, Next PROVE Flags'
  OBVIOUS
<1> USE DEF Flags, mode
<1>1. Flags
  BY DEF TInv
<1>2. CASE Begin \/ Block \/ Resume \/ Test \/ Take \/ WakeSpuriously
  BY <1>1, <1>2 DEF Begin, Block, Resume, Test, Take, WakeSpuriously
<1>3. CASE Execute
  BY <1>1, <1>3 DEF Execute, ExecAlu, ExecBranch, ExecJump, ExecSyscall, ExecWait,
                    ExecEnable, ExecEret, ExecReserved, ExecShutdown, ExecReset
<1>4. CASE Power
  BY <1>1, <1>4 DEF Power, Cancel, Restart
<1>5. CASE TimerTick \/ KeyPress
  BY <1>1, <1>5 DEF TimerTick, KeyPress, Set
<1> QED BY <1>2, <1>3, <1>4, <1>5 DEF Next, Loop

LEMMA EnabledKept == TInv /\ Next => Enabled'
<1> SUFFICES ASSUME TInv, Next PROVE Enabled'
  OBVIOUS
<1> USE DEF Enabled, mode
<1>1. Enabled
  BY DEF TInv
<1>2. CASE Begin \/ Block \/ Resume \/ WakeSpuriously
  BY <1>1, <1>2 DEF Begin, Block, Resume, WakeSpuriously, Advance
<1>3. CASE Test
  BY <1>1, <1>3 DEF Test, Interruptible, InterruptTest
<1>4. CASE Take
  BY <1>1, <1>4 DEF Take
<1>5. CASE Execute
  BY <1>1, <1>5 DEF Execute, ExecAlu, ExecBranch, ExecJump, ExecSyscall, ExecWait, Exec,
                    ExecEnable, ExecEret, ExecReserved, ExecShutdown, ExecReset
<1>6. CASE Power
  BY <1>1, <1>6 DEF Power, Cancel, Restart
<1>7. CASE TimerTick \/ KeyPress
  BY <1>1, <1>7 DEF TimerTick, KeyPress, Set
<1> QED BY <1>2, <1>3, <1>4, <1>5, <1>6, <1>7 DEF Next, Loop

(* Types, and handlers only with interrupts enabled, for every program     *)
(* that stays in its code.                                                 *)
THEOREM Types == Spec /\ []InProgram => []TypeOK
<1> USE DEF Numbers, Places, Flags, Enabled
<1>1. Init => TInv
  <2>1. Init => Numbers
    BY CpuAssumption DEF Init
  <2>2. Init => Places
    BY DEF Init, Sources
  <2>3. Init => Flags
    BY DEF Init
  <2>4. Init => Enabled
    BY DEF Init
  <2> QED BY <2>1, <2>2, <2>3, <2>4 DEF TInv
<1>2. TInv /\ UNCHANGED vars => TInv'
  BY DEF TInv, vars, pipeline, mode
<1> USE DEF TInv
<1>3. TInv /\ InProgram /\ [Next]_vars => TInv'
  BY <1>2, NumbersKept, PlacesKept, FlagsKept, EnabledKept
<1>4. TInv => TypeOK
  BY DEF TypeOK
<1> QED BY <1>1, <1>3, <1>4, PTL DEF Spec
===============================================================================
