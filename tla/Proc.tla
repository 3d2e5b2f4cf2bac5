-------------------------------- MODULE Proc ---------------------------------
(***************************************************************************)
(* The process manager of the system: os/proc.lib (the process table, the  *)
(* scheduler, fork, exec, waitpid, sleep, exit), the handlers of           *)
(* os/interrupt.lib that call it, and process 0 (os/sys.s).  A handler     *)
(* runs with EXL set, so nothing interrupts it: each is one action.        *)
(*                                                                         *)
(* Pid arguments outside the table are not modelled (they index memory     *)
(* after it).  LastPid bounds MAX_PROC, which the code never checks.       *)
(***************************************************************************)
EXTENDS Integers

CONSTANTS
  LastPid,    \* the last process identifier fork may give (bound)
  SleepArgs,  \* the arguments sleep is called with
  UserRegs,   \* the register contexts programs compute
  Images      \* the contents of a user address space

Pids == 0..LastPid
(* The result register, LO, and a word for all the others, PC included.     *)
Regs == [v0 : Int, pc : Int, lo : Int]
FreshRegs == [v0 |-> 0, pc |-> 0, lo |-> 0]
Tick == 10

READY == 0
SUSPENDED == 1
WAITING == 2
SLEEPING == 3
EXITED == 4
States == {READY, SUSPENDED, WAITING, SLEEPING, EXITED}

ASSUME ProcAssumption ==
  /\ LastPid \in Nat \ {0}
  /\ SleepArgs \subseteq Int
  /\ UserRegs \subseteq Regs
  /\ Images # {}

VARIABLES
  curProc, maxProc,                                  \* CUR_PROC, MAX_PROC
  procState, parentPid, waitingChild, sleepTime,     \* the fields of PROC_INFO
  regs,        \* the register context saved in each PROC_INFO
  cpu,         \* the registers of the running program
  bufLo,       \* word 34 of REGS_BUF, where restore_regs takes LO from
  gdtBase,     \* the process whose GDT the processor uses
  mem          \* the user address space, 8M of physical memory per process

table == <<maxProc, procState, parentPid, waitingChild, sleepTime>>
running == <<curProc, regs, cpu, bufLo, gdtBase>>
vars == <<table, running, mem>>

(* The system after BOOT and SYS_INIT, with interrupts just enabled: only  *)
(* process 0 exists and runs, with MAX_PROC = 0.  (What the memory of the   *)
(* others holds does not matter: fork overwrites it.)                      *)
Init ==
  /\ curProc = 0 /\ maxProc = 0 /\ gdtBase = 0
  /\ procState = [p \in Pids |-> READY]
  /\ parentPid = [p \in Pids |-> 0]
  /\ waitingChild = [p \in Pids |-> 0]
  /\ sleepTime = [p \in Pids |-> 0]
  /\ regs = [p \in Pids |-> FreshRegs]
  /\ cpu = FreshRegs /\ bufLo = 0
  /\ \E m \in Images : mem = [p \in Pids |-> m]

-----------------------------------------------------------------------------
(* Entering and leaving the kernel.                                        *)

(* REGS_BUF after cache_regs, in the words that restore_regs, FLUSH_REGS   *)
(* and FETCH_REGS use.  LO is not among them: $fp has been advanced by 4   *)
(* when LO is stored at 136($fp), so it goes to word 35, which nothing     *)
(* reads, and word 34 stays as it was.                                     *)
Cached == [cpu EXCEPT !.lo = bufLo]

(* A handler that only enters the kernel and leaves it.                    *)
EnterAndLeave ==
  /\ cpu' = Cached
  /\ UNCHANGED <<table, curProc, regs, bufLo, gdtBase, mem>>

-----------------------------------------------------------------------------
(* The scheduler.                                                          *)

Ready(st) == {p \in 0..maxProc : st[p] = READY}

(* Variant: the scan starts at CUR_PROC itself. *)
DistanceFromSelf(p) == IF p >= curProc THEN p - curProc ELSE p + maxProc + 1 - curProc

(* How far the scan of PROC_SCHEDULE goes from CUR_PROC to reach p: it     *)
(* starts at CUR_PROC + 1, wraps after MAX_PROC, and ends at CUR_PROC.     *)
Distance(p) == IF p > curProc THEN p - curProc ELSE p + maxProc + 1 - curProc

(* Variant: the scan always starts at process 0. *)
ScanFromZero(n, st) ==
  IF Ready(st) = {} THEN n = 0
  ELSE n \in Ready(st) /\ \A p \in Ready(st) : n <= p

(* The scan stops at the first ready process, or at process 0 when none is *)
ScanStopsAt(n, st) ==
  IF Ready(st) = {} THEN n = 0
  ELSE n \in Ready(st) /\ \A p \in Ready(st) : Distance(n) <= Distance(p)

(* Variant: k1 is not set by PROC_SLEEP. *)
ReturnsSleep(call) == call \in {"fork", "sleep"}

(* Whether a call writes $v0 to the registers it restores: k1 = 0.         *)
Returns(call) == call = "fork"

(* INT_PROCOPEND and restore_regs: buf is REGS_BUF, v is $v0 as the        *)
(* handler left it.                                                        *)
Restored(call, buf, v) == IF Returns(call) THEN [buf EXCEPT !.v0 = v] ELSE buf

(* PROC_SCHEDULE, from a table whose states are st, and the return to the  *)
(* user program: REGS_BUF is flushed to the process left and fetched from  *)
(* the process chosen.  The kernel's own $v0 is 0 after FETCH_REGS.        *)
Schedule(st, call) ==
  \E n \in 0..maxProc :
    /\ ScanStopsAt(n, st)
    /\ procState' = IF Ready(st) = {} THEN [st EXCEPT ![0] = READY] ELSE st
    /\ curProc' = n
    /\ IF n = curProc
       THEN cpu' = Restored(call, Cached, 0) /\ UNCHANGED <<regs, bufLo, gdtBase>>
       ELSE /\ gdtBase' = n
            /\ regs' = [regs EXCEPT ![curProc] = Cached]
            /\ bufLo' = regs[n].lo
            /\ cpu' = Restored(call, regs[n], 0)

-----------------------------------------------------------------------------
(* The running program.                                                    *)

(* Process 0 runs only its own loop; every other process any program.      *)
UserRuns == curProc # 0

(* A program computes.  Its stores go through the GDT the processor uses.  *)
UserWork ==
  /\ UserRuns
  /\ cpu' \in UserRegs
  /\ \E m \in Images : mem' = [mem EXCEPT ![gdtBase] = m]
  /\ UNCHANGED <<table, curProc, regs, bufLo, gdtBase>>

(* PROC_FORK: the child's context is REGS_BUF with $v0 = 0, its address    *)
(* space a DMA copy.                                                       *)
Fork ==
  LET new == maxProc + 1 IN
  /\ new <= LastPid
  /\ maxProc' = new
  /\ procState' = [procState EXCEPT ![new] = READY]
  /\ parentPid' = [parentPid EXCEPT ![new] = curProc]
  /\ mem' = [mem EXCEPT ![new] = mem[curProc]]
  /\ regs' = [regs EXCEPT ![new] = [Cached EXCEPT !.v0 = 0]]
  /\ cpu' = Restored("fork", Cached, new)
  /\ UNCHANGED <<curProc, bufLo, gdtBase, waitingChild, sleepTime>>

UserFork == UserRuns /\ Fork

(* PROC_EXEC: the image is read from the disk to CUR_PROC's memory, and    *)
(* words 0 to 34 of REGS_BUF are cleared.                                  *)
Exec ==
  /\ UserRuns
  /\ \E m \in Images : mem' = [mem EXCEPT ![curProc] = m]
  /\ cpu' = FreshRegs /\ bufLo' = 0
  /\ UNCHANGED <<table, curProc, regs, gdtBase>>

(* Variants: the child's state, or whose child it is, is not checked. *)
MayWaitForAnyChild(pid) == parentPid[pid] = curProc
MayWaitForAnyone(pid) == procState[pid] # EXITED

MayWaitFor(pid) == parentPid[pid] = curProc /\ procState[pid] # EXITED

(* PROC_WAITPID returns at once unless pid is a child that has not exited. *)
Waitpid(pid) ==
  /\ UserRuns
  /\ IF MayWaitFor(pid)
     THEN /\ waitingChild' = [waitingChild EXCEPT ![curProc] = pid]
          /\ Schedule([procState EXCEPT ![curProc] = WAITING], "waitpid")
          /\ UNCHANGED <<maxProc, parentPid, sleepTime, mem>>
     ELSE EnterAndLeave

(* Variant: the caller keeps the processor. *)
SleepOn(time) ==
  /\ UserRuns
  /\ IF time > 0
     THEN /\ sleepTime' = [sleepTime EXCEPT ![curProc] = time]
          /\ procState' = [procState EXCEPT ![curProc] = SLEEPING]
          /\ UNCHANGED <<maxProc, parentPid, waitingChild, running, mem>>
     ELSE EnterAndLeave

(* PROC_SLEEP returns at once when the time is not positive.               *)
Sleep(time) ==
  /\ UserRuns
  /\ IF time > 0
     THEN /\ sleepTime' = [sleepTime EXCEPT ![curProc] = time]
          /\ Schedule([procState EXCEPT ![curProc] = SLEEPING], "sleep")
          /\ UNCHANGED <<maxProc, parentPid, waitingChild, mem>>
     ELSE EnterAndLeave

(* Variant: any waiting parent is activated. *)
WaitsForAny(p, c) == procState[p] = WAITING

(* The parent PROC_EXIT activates: the one that waits for this process.    *)
WaitsFor(p, c) == waitingChild[p] = c /\ procState[p] = WAITING

Exited ==
  [p \in Pids |-> IF p = curProc THEN EXITED
                  ELSE IF p = parentPid[curProc] /\ WaitsFor(p, curProc) THEN READY
                  ELSE procState[p]]

Exit ==
  /\ UserRuns
  /\ Schedule(Exited, "exit")
  /\ UNCHANGED <<maxProc, parentPid, waitingChild, sleepTime, mem>>

-----------------------------------------------------------------------------
(* Process 0: SYS_MAIN forks the shell, SYS_END suspends itself for ever.  *)

InitFork == curProc = 0 /\ maxProc = 0 /\ Fork

InitSuspend ==
  /\ curProc = 0 /\ maxProc # 0
  /\ procState' = [procState EXCEPT ![0] = SUSPENDED]
  /\ UNCHANGED <<maxProc, parentPid, waitingChild, sleepTime, running, mem>>

-----------------------------------------------------------------------------
(* The interrupts.                                                         *)

(* INT_KEYBOARD: what it does with the key is in Keyboard and Terminal.    *)
KeyPressed == EnterAndLeave

(* Variant: the loop of PROC_SLEEP_UPDATE starts below MAX_PROC. *)
AsleepButLast == {p \in 0..(maxProc - 1) : procState[p] = SLEEPING}

Asleep == {p \in 0..maxProc : procState[p] = SLEEPING}
(* Variant: a sleeper whose time is used up exactly sleeps on. *)
WokenLate == {p \in Asleep : sleepTime[p] - Tick < 0}

Woken == {p \in Asleep : sleepTime[p] - Tick <= 0}

(* Variant: the time of a woken process is not cleared. *)
TimerNoClear ==
  /\ sleepTime' = [p \in Pids |-> IF p \in Asleep THEN sleepTime[p] - Tick ELSE sleepTime[p]]
  /\ Schedule([p \in Pids |-> IF p \in Woken THEN READY ELSE procState[p]], "timer")
  /\ UNCHANGED <<maxProc, parentPid, waitingChild, mem>>

(* INT_TIMER: PROC_SLEEP_UPDATE, then PROC_SCHEDULE.                       *)
Timer ==
  /\ sleepTime' = [p \in Pids |-> IF p \in Woken THEN 0
                                  ELSE IF p \in Asleep THEN sleepTime[p] - Tick
                                  ELSE sleepTime[p]]
  /\ Schedule([p \in Pids |-> IF p \in Woken THEN READY ELSE procState[p]], "timer")
  /\ UNCHANGED <<maxProc, parentPid, waitingChild, mem>>

-----------------------------------------------------------------------------
Next ==
  \/ InitFork \/ InitSuspend
  \/ UserWork \/ UserFork \/ Exec \/ Exit
  \/ \E pid \in Pids : Waitpid(pid)
  \/ \E time \in SleepArgs : Sleep(time)
  \/ Timer \/ KeyPressed

Spec == Init /\ [][Next]_vars

(* The timer thread of the emulator never stops, and a pending timer       *)
(* interrupt is taken as soon as the handler in progress returns.          *)
FairSpec == Spec /\ WF_vars(Timer)

-----------------------------------------------------------------------------
(* Safety.                                                                 *)

(* Types; a sleep time is never negative, though the timer subtracts 10    *)
(* from times that are no multiple of 10 (proc.lib:344-348).               *)
TypeOK ==
  /\ curProc \in Pids /\ maxProc \in Pids /\ gdtBase \in Pids
  /\ procState \in [Pids -> States]
  /\ parentPid \in [Pids -> Pids]
  /\ waitingChild \in [Pids -> Pids]
  /\ sleepTime \in [Pids -> Nat]
  /\ regs \in [Pids -> Regs]
  /\ cpu \in Regs /\ bufLo \in Int
  /\ mem \in [Pids -> Images]

(* No wake-up is lost between waitpid and exit: a waiting process waits    *)
(* for a child of its own that has not exited yet (proc.lib:276-280 on one *)
(* side, 383-389 on the other).                                            *)
NoLostWait ==
  \A p \in Pids : procState[p] = WAITING =>
    /\ waitingChild[p] \in 1..maxProc
    /\ parentPid[waitingChild[p]] = p
    /\ procState[waitingChild[p]] # EXITED

(* The program that has the processor is ready, in its own address space;  *)
(* only process 0 may run while suspended (sys.s:49-55).                   *)
CurrentRuns ==
  /\ curProc \in 0..maxProc /\ gdtBase = curProc
  /\ procState[curProc] = READY \/ (curProc = 0 /\ procState[0] = SUSPENDED)

(* Exactly the sleeping processes have time left to sleep, so none is      *)
(* forgotten at 0 and none is woken early (proc.lib:340-350).              *)
SleepersHaveTime ==
  \A p \in Pids : procState[p] = SLEEPING <=> sleepTime[p] > 0

(* Processes never wait for each other in a circle: behind every waiting   *)
(* process there is a younger one that is ready or will wake by itself.    *)
WaitsEnd ==
  \A p \in Pids : procState[p] = WAITING =>
    \E q \in (p + 1)..maxProc : procState[q] \in {READY, SLEEPING}

(* The inductive invariant.  A slot fork has not given out is as           *)
(* procinfo.b leaves it, and process 0 never waits, sleeps or exits.       *)
FreeSlots ==
  \A p \in Pids : /\ p > maxProc => procState[p] = READY
                  /\ p > maxProc \/ p = 0 => parentPid[p] = 0
InitStays == procState[0] \in {READY, SUSPENDED}

(* No LO a program computed ever gets to where restore_regs looks for it.  *)
LoIsLost == bufLo = 0 /\ \A p \in Pids : regs[p].lo = 0

IInv ==
  /\ TypeOK /\ FreeSlots /\ InitStays /\ LoIsLost
  /\ NoLostWait /\ CurrentRuns /\ SleepersHaveTime

(* waitpid returns only because the awaited child exits, in that step.     *)
WaitEndsByExit ==
  [][\A p \in Pids : procState[p] = WAITING /\ procState'[p] # WAITING =>
       /\ procState'[p] = READY
       /\ procState[waitingChild[p]] # EXITED
       /\ procState'[waitingChild[p]] = EXITED]_vars

(* Process 0 keeps the processor over a tick of the timer only when nobody *)
(* else can run, whether or not it was activated by the scheduler before   *)
(* (proc.lib:134-137, sys.s:50).                                           *)
IdleYields ==
  [][Timer /\ curProc = 0 /\ curProc' = 0 =>
       \A p \in 1..maxProc : procState'[p] # READY]_vars

-----------------------------------------------------------------------------
(* The abstract specification: the context of the running process is in    *)
(* the processor, that of every other one in the table.                    *)

Status(p) ==
  CASE p > maxProc -> "none"
    [] p <= maxProc /\ procState[p] \in {READY, SUSPENDED} -> "live"
    [] p <= maxProc /\ procState[p] = WAITING -> "waiting"
    [] p <= maxProc /\ procState[p] = SLEEPING -> "sleeping"
    [] p <= maxProc /\ procState[p] = EXITED -> "exited"

Abs == INSTANCE Processes WITH
         Regs <- UserRegs,
         status <- [pid \in Pids |-> Status(pid)],
         parent <- parentPid,
         awaited <- waitingChild,
         ctx <- [pid \in Pids |-> IF pid = curProc THEN cpu ELSE regs[pid]]

(* The scheduler is invisible to programs: memory and every register but   *)
(* LO survive each interrupt, call and switch, LO is 0 after each for the  *)
(* process that ran and is kept for the others, and system calls do to     *)
(* each process what Processes says (interrupt.lib:85-91, "if k1==1, there *)
(* is no return").                                                         *)
RefinesProcesses == Abs!Spec

(* LO as p sees it or will see it when it runs again.                      *)
Lo(p) == IF p = curProc THEN cpu.lo ELSE regs[p].lo

(* What proc.lib says of REGS_BUF (:13, "32w:gpr, 1w:epc, 1w:hi, 1w:lo"),  *)
(* of cache_regs (:25, "store epc, hi, lo") and of restore_regs (:66): the *)
(* kernel gives every program the LO it had.  It gives it 0.               *)
RestoresLo ==
  [][UserWork \/ Exec \/ \A p \in 0..maxProc : Lo(p)' = Lo(p)]_vars

-----------------------------------------------------------------------------
(* Liveness, under FairSpec.                                               *)

(* Every sleeper wakes.                                                    *)
SleepersWake ==
  \A p \in Pids : procState[p] = SLEEPING ~> procState[p] # SLEEPING

(* No ready process is starved: each gets the processor, whatever the      *)
(* others do.                                                              *)
ReadyRuns ==
  \A p \in Pids : (p <= maxProc /\ procState[p] = READY) ~> curProc = p
==============================================================================
