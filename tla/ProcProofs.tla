------------------------------ MODULE ProcProofs ------------------------------
(***************************************************************************)
(* The process table of Proc is consistent for every number of processes,  *)
(* every set of sleep times and every program, and Proc implements         *)
(* Processes.                                                              *)
(***************************************************************************)
EXTENDS Proc, TLAPS, WellFoundedInduction

(* The five states are different from one another.                         *)
LEMMA StateNames ==
  /\ READY \in States /\ SUSPENDED \in States /\ WAITING \in States
  /\ SLEEPING \in States /\ EXITED \in States
  /\ READY # SUSPENDED /\ READY # WAITING /\ READY # SLEEPING /\ READY # EXITED
  /\ SUSPENDED # WAITING /\ SUSPENDED # SLEEPING /\ SUSPENDED # EXITED
  /\ WAITING # SLEEPING /\ WAITING # EXITED /\ SLEEPING # EXITED
BY DEF States, READY, SUSPENDED, WAITING, SLEEPING, EXITED

(* Process identifiers are the numbers from 0 to LastPid.                  *)
LEMMA PidNumbers ==
  /\ LastPid \in Nat /\ 0 \in Pids
  /\ \A p : p \in Pids <=> p \in Nat /\ p <= LastPid
BY ProcAssumption DEF Pids

(* What cache_regs leaves in REGS_BUF is a register context.               *)
LEMMA CachedIsContext == TypeOK => Cached \in Regs
BY DEF TypeOK, Cached, Regs

(* What PROC_SCHEDULE does to a table whose states are st: it picks a      *)
(* process that is then ready and runs in its own address space, and       *)
(* changes no state but that of process 0, which it may only make ready.   *)
LEMMA ScheduleEffect ==
  ASSUME NEW st \in [Pids -> States], NEW call, st[0] \in {READY, SUSPENDED},
         TypeOK, LoIsLost, curProc \in 0..maxProc, gdtBase = curProc, Schedule(st, call)
  PROVE  /\ curProc' \in 0..maxProc /\ gdtBase' = curProc'
         /\ procState' \in [Pids -> States]
         /\ procState'[curProc'] = READY
         /\ procState'[0] \in {READY, SUSPENDED}
         /\ \A p \in Pids : p # 0 => procState'[p] = st[p]
         /\ regs' \in [Pids -> Regs] /\ cpu' \in Regs /\ bufLo' \in Int
         /\ LoIsLost'
<1> USE StateNames, PidNumbers
<1>1. PICK n \in 0..maxProc :
        /\ ScanStopsAt(n, st)
        /\ procState' = IF Ready(st) = {} THEN [st EXCEPT ![0] = READY] ELSE st
        /\ curProc' = n
        /\ IF n = curProc
           THEN cpu' = Restored(call, Cached, 0) /\ UNCHANGED <<regs, bufLo, gdtBase>>
           ELSE /\ gdtBase' = n
                /\ regs' = [regs EXCEPT ![curProc] = Cached]
                /\ bufLo' = regs[n].lo
                /\ cpu' = Restored(call, regs[n], 0)
  BY DEF Schedule
<1>2. n \in Pids /\ curProc \in Pids
  BY DEF TypeOK
<1>3. curProc' \in 0..maxProc /\ gdtBase' = curProc'
  BY <1>1
<1>4. procState' \in [Pids -> States] /\ procState'[curProc'] = READY
  BY <1>1, <1>2 DEF ScanStopsAt, Ready
<1>5. procState'[0] \in {READY, SUSPENDED} /\ \A p \in Pids : p # 0 => procState'[p] = st[p]
  BY <1>1
<1>6. \A r \in Regs : Restored(call, r, 0) \in Regs
  BY DEF Restored, Regs
<1>7. regs' \in [Pids -> Regs] /\ cpu' \in Regs
  BY <1>1, <1>2, <1>6, CachedIsContext DEF TypeOK
<1>8. Cached.lo = 0
  BY DEF LoIsLost, Cached, TypeOK, Regs
<1>9. bufLo' = 0 /\ \A p \in Pids : regs'[p].lo = 0
  BY <1>1, <1>2, <1>8 DEF LoIsLost, TypeOK
<1> QED BY <1>3, <1>4, <1>5, <1>7, <1>9 DEF LoIsLost

LEMMA InitEstablishes == Init => IInv
<1> SUFFICES ASSUME Init PROVE IInv
  OBVIOUS
<1> USE StateNames, PidNumbers DEF Init
<1>1. TypeOK
  BY DEF TypeOK, Regs, FreshRegs
<1>2. NoLostWait /\ CurrentRuns /\ SleepersHaveTime /\ FreeSlots /\ InitStays /\ LoIsLost
  BY DEF NoLostWait, CurrentRuns, SleepersHaveTime, FreeSlots, InitStays, LoIsLost, FreshRegs
<1> QED BY <1>1, <1>2 DEF IInv

(* A handler that enters the kernel and leaves it touches only LO.         *)
LEMMA EnterKeeps == IInv /\ EnterAndLeave => IInv'
<1> SUFFICES ASSUME IInv, EnterAndLeave PROVE IInv'
  OBVIOUS
<1>1. cpu' \in Regs
  BY CachedIsContext DEF IInv, EnterAndLeave
<1> QED BY <1>1 DEF EnterAndLeave, table, IInv, TypeOK, FreeSlots, InitStays, LoIsLost,
                    NoLostWait, CurrentRuns, SleepersHaveTime

(* fork takes a slot nobody refers to.                                     *)
LEMMA ForkKeeps == IInv /\ Fork => IInv'
<1> SUFFICES ASSUME IInv, Fork PROVE IInv'
  OBVIOUS
<1> USE StateNames, PidNumbers
<1> DEFINE new == maxProc + 1
<1>1. new \in Pids /\ new > maxProc /\ new > 0 /\ curProc # new
  BY DEF IInv, TypeOK, CurrentRuns, Fork
<1>2. TypeOK'
  <2>1. Cached \in Regs /\ \A v \in Int : [Cached EXCEPT !.v0 = v] \in Regs
    BY CachedIsContext DEF IInv, Regs
  <2>2. cpu' \in Regs
    <3>1. cpu' = Restored("fork", Cached, maxProc + 1)
      BY DEF Fork
    <3>2. maxProc + 1 \in Int
      BY <1>1
    <3> QED BY <2>1, <3>1, <3>2 DEF Restored
  <2>3. regs' \in [Pids -> Regs]
    BY <1>1, <2>1 DEF IInv, TypeOK, Fork
  <2>4. parentPid' \in [Pids -> Pids] /\ mem' \in [Pids -> Images]
    BY <1>1 DEF IInv, TypeOK, Fork
  <2> QED BY <1>1, <2>2, <2>3, <2>4 DEF IInv, TypeOK, Fork
<1>3. FreeSlots' /\ InitStays'
  BY <1>1 DEF IInv, TypeOK, FreeSlots, InitStays, Fork
<1>4. NoLostWait'
  BY <1>1 DEF IInv, TypeOK, NoLostWait, Fork
<1>5. CurrentRuns'
  BY <1>1 DEF IInv, TypeOK, CurrentRuns, Fork
<1>6. SleepersHaveTime'
  BY <1>1 DEF IInv, TypeOK, FreeSlots, SleepersHaveTime, Fork
<1>7. LoIsLost'
  <2>1. [Cached EXCEPT !.v0 = 0].lo = 0
    BY CachedIsContext DEF IInv, LoIsLost, Cached, Regs, TypeOK
  <2>2. regs' = [regs EXCEPT ![new] = [Cached EXCEPT !.v0 = 0]] /\ bufLo' = bufLo
    BY DEF Fork
  <2> QED BY <1>1, <2>1, <2>2 DEF IInv, TypeOK, LoIsLost
<1> QED BY <1>2, <1>3, <1>4, <1>5, <1>6, <1>7 DEF IInv

(* waitpid: the caller refers to an allocated child that has not exited.   *)
LEMMA WaitpidKeeps == ASSUME NEW pid \in Pids PROVE IInv /\ Waitpid(pid) => IInv'
<1> SUFFICES ASSUME IInv, Waitpid(pid), MayWaitFor(pid) PROVE IInv'
  <2> QED BY EnterKeeps DEF Waitpid
<1> USE StateNames, PidNumbers
<1> DEFINE st == [procState EXCEPT ![curProc] = WAITING]
<1>1. /\ curProc \in Pids /\ curProc # 0 /\ curProc \in 0..maxProc
      /\ waitingChild' = [waitingChild EXCEPT ![curProc] = pid]
      /\ Schedule(st, "waitpid")
      /\ UNCHANGED <<maxProc, parentPid, sleepTime, mem>>
  BY DEF Waitpid, UserRuns, IInv, CurrentRuns, TypeOK
<1>2. st \in [Pids -> States] /\ st[0] \in {READY, SUSPENDED}
  BY <1>1 DEF IInv, TypeOK, InitStays
<1> HIDE DEF st
<1>3. /\ curProc' \in 0..maxProc /\ gdtBase' = curProc'
      /\ procState' \in [Pids -> States]
      /\ procState'[curProc'] = READY
      /\ procState'[0] \in {READY, SUSPENDED}
      /\ \A p \in Pids : p # 0 => procState'[p] = st[p]
      /\ regs' \in [Pids -> Regs] /\ cpu' \in Regs /\ bufLo' \in Int
      /\ LoIsLost'
  BY <1>1, <1>2, ScheduleEffect DEF IInv, CurrentRuns
<1>4. pid \in 1..maxProc /\ parentPid[pid] = curProc /\ procState[pid] # EXITED
  BY <1>1 DEF MayWaitFor, IInv, TypeOK, FreeSlots
<1>5. \A p \in Pids : p # curProc => st[p] = procState[p]
  BY <1>1 DEF st, IInv, TypeOK
<1>6. st[curProc] = WAITING
  BY <1>1 DEF st, IInv, TypeOK
<1>7. TypeOK'
  <2>1. curProc' \in Pids /\ gdtBase' \in Pids
    BY <1>3 DEF IInv, TypeOK
  <2>2. waitingChild' \in [Pids -> Pids]
    BY <1>1 DEF IInv, TypeOK
  <2> QED BY <2>1, <2>2, <1>1, <1>3 DEF IInv, TypeOK
<1>8. FreeSlots' /\ InitStays'
  BY <1>1, <1>3, <1>5 DEF IInv, TypeOK, FreeSlots, InitStays
<1>9. NoLostWait'
  <2> SUFFICES ASSUME NEW p \in Pids, procState'[p] = WAITING
               PROVE  /\ waitingChild'[p] \in 1..maxProc'
                      /\ parentPid'[waitingChild'[p]] = p
                      /\ procState'[waitingChild'[p]] # EXITED
    BY DEF NoLostWait
  <2>1. CASE p = curProc
    BY <2>1, <1>1, <1>3, <1>4, <1>5, <1>6 DEF IInv, TypeOK
  <2>2. CASE p # curProc
    <3>1. procState[p] = WAITING /\ waitingChild'[p] = waitingChild[p]
      BY <2>2, <1>1, <1>3, <1>5 DEF IInv, TypeOK
    <3> QED BY <3>1, <2>2, <1>1, <1>3, <1>5, <1>6 DEF IInv, TypeOK, NoLostWait
  <2> QED BY <2>1, <2>2
<1>10. CurrentRuns'
  BY <1>1, <1>3 DEF CurrentRuns
<1>11. SleepersHaveTime'
  BY <1>1, <1>3, <1>5, <1>6 DEF IInv, TypeOK, SleepersHaveTime, InitStays, CurrentRuns
<1> QED BY <1>3, <1>7, <1>8, <1>9, <1>10, <1>11 DEF IInv

(* sleep: the caller gets the time it asked for, and gives way.            *)
LEMMA SleepKeeps == ASSUME NEW time \in SleepArgs PROVE IInv /\ Sleep(time) => IInv'
<1> SUFFICES ASSUME IInv, Sleep(time), time > 0 PROVE IInv'
  <2> QED BY EnterKeeps DEF Sleep
<1> USE StateNames, PidNumbers
<1> DEFINE st == [procState EXCEPT ![curProc] = SLEEPING]
<1>1. /\ curProc \in Pids /\ curProc # 0 /\ curProc \in 0..maxProc
      /\ sleepTime' = [sleepTime EXCEPT ![curProc] = time]
      /\ Schedule(st, "sleep")
      /\ UNCHANGED <<maxProc, parentPid, waitingChild, mem>>
  BY DEF Sleep, UserRuns, IInv, CurrentRuns, TypeOK
<1>2. st \in [Pids -> States] /\ st[0] \in {READY, SUSPENDED}
  BY <1>1 DEF IInv, TypeOK, InitStays
<1> HIDE DEF st
<1>3. /\ curProc' \in 0..maxProc /\ gdtBase' = curProc'
      /\ procState' \in [Pids -> States]
      /\ procState'[curProc'] = READY
      /\ procState'[0] \in {READY, SUSPENDED}
      /\ \A p \in Pids : p # 0 => procState'[p] = st[p]
      /\ regs' \in [Pids -> Regs] /\ cpu' \in Regs /\ bufLo' \in Int
      /\ LoIsLost'
  BY <1>1, <1>2, ScheduleEffect DEF IInv, CurrentRuns
<1>4. time \in Nat /\ time > 0
  BY ProcAssumption
<1>5. \A p \in Pids : p # curProc => st[p] = procState[p]
  BY <1>1 DEF st, IInv, TypeOK
<1>6. st[curProc] = SLEEPING /\ procState[curProc] = READY
  BY <1>1 DEF st, IInv, TypeOK, CurrentRuns
<1>7. TypeOK'
  <2>1. curProc' \in Pids /\ gdtBase' \in Pids
    BY <1>3 DEF IInv, TypeOK
  <2>2. sleepTime' \in [Pids -> Nat]
    BY <1>1, <1>4 DEF IInv, TypeOK
  <2> QED BY <2>1, <2>2, <1>1, <1>3 DEF IInv, TypeOK
<1>8. FreeSlots' /\ InitStays'
  BY <1>1, <1>3, <1>5 DEF IInv, TypeOK, FreeSlots, InitStays
<1>9. NoLostWait'
  BY <1>1, <1>3, <1>5, <1>6 DEF IInv, TypeOK, NoLostWait
<1>10. CurrentRuns'
  BY <1>1, <1>3 DEF CurrentRuns
<1>11. SleepersHaveTime'
  <2> SUFFICES ASSUME NEW p \in Pids
               PROVE  procState'[p] = SLEEPING <=> sleepTime'[p] > 0
    BY DEF SleepersHaveTime
  <2>1. CASE p = curProc
    BY <2>1, <1>1, <1>3, <1>4, <1>6 DEF IInv, TypeOK
  <2>2. CASE p # curProc
    BY <2>2, <1>1, <1>3, <1>5 DEF IInv, TypeOK, SleepersHaveTime, InitStays
  <2> QED BY <2>1, <2>2
<1> QED BY <1>3, <1>7, <1>8, <1>9, <1>10, <1>11 DEF IInv

(* exit: whoever waited for the caller is made ready.                      *)
LEMMA ExitKeeps == IInv /\ Exit => IInv'
<1> SUFFICES ASSUME IInv, Exit PROVE IInv'
  OBVIOUS
<1> USE StateNames, PidNumbers
<1> DEFINE par == parentPid[curProc]
<1>1. /\ curProc \in Pids /\ curProc # 0 /\ curProc \in 0..maxProc
      /\ Schedule(Exited, "exit")
      /\ UNCHANGED <<maxProc, parentPid, waitingChild, sleepTime, mem>>
      /\ procState[curProc] = READY
  BY DEF Exit, UserRuns, IInv, CurrentRuns, TypeOK
<1>2. Exited \in [Pids -> States] /\ Exited[0] \in {READY, SUSPENDED}
  BY <1>1 DEF Exited, WaitsFor, IInv, TypeOK, InitStays
<1>3. /\ curProc' \in 0..maxProc /\ gdtBase' = curProc'
      /\ procState' \in [Pids -> States]
      /\ procState'[curProc'] = READY
      /\ procState'[0] \in {READY, SUSPENDED}
      /\ \A p \in Pids : p # 0 => procState'[p] = Exited[p]
      /\ regs' \in [Pids -> Regs] /\ cpu' \in Regs /\ bufLo' \in Int
      /\ LoIsLost'
  BY <1>1, <1>2, ScheduleEffect DEF IInv, CurrentRuns
<1>4. \A p \in Pids : p # curProc =>
        \/ Exited[p] = procState[p]
        \/ procState[p] = WAITING /\ Exited[p] = READY
  BY DEF Exited, WaitsFor
<1>5. \A p \in Pids : p # curProc /\ Exited[p] = WAITING =>
        procState[p] = WAITING /\ (p = par => waitingChild[p] # curProc)
  BY DEF Exited, WaitsFor
<1>6. Exited[curProc] = EXITED
  BY <1>1 DEF Exited
<1>7. TypeOK'
  BY <1>1, <1>3 DEF IInv, TypeOK
<1>8. FreeSlots' /\ InitStays'
  BY <1>1, <1>3, <1>4 DEF IInv, TypeOK, FreeSlots, InitStays
<1>9. NoLostWait'
  <2> SUFFICES ASSUME NEW p \in Pids, procState'[p] = WAITING
               PROVE  /\ waitingChild'[p] \in 1..maxProc'
                      /\ parentPid'[waitingChild'[p]] = p
                      /\ procState'[waitingChild'[p]] # EXITED
    BY DEF NoLostWait
  <2>1. p # 0 /\ p # curProc /\ Exited[p] = WAITING
    BY <1>1, <1>3, <1>6
  <2>2. procState[p] = WAITING /\ (p = par => waitingChild[p] # curProc)
    BY <2>1, <1>5
  <2>3. /\ waitingChild[p] \in 1..maxProc /\ parentPid[waitingChild[p]] = p
        /\ procState[waitingChild[p]] # EXITED
    BY <2>2 DEF IInv, NoLostWait
  <2>4. waitingChild[p] # curProc /\ waitingChild[p] \in Pids
    BY <2>2, <2>3 DEF IInv, TypeOK
  <2> QED BY <2>3, <2>4, <1>1, <1>3, <1>4
<1>10. CurrentRuns'
  BY <1>1, <1>3 DEF CurrentRuns
<1>11. SleepersHaveTime'
  BY <1>1, <1>3, <1>4, <1>6 DEF IInv, TypeOK, SleepersHaveTime, InitStays
<1> QED BY <1>3, <1>7, <1>8, <1>9, <1>10, <1>11 DEF IInv

(* The timer counts every sleeper down and wakes those whose time is up.   *)
LEMMA TimerKeeps == IInv /\ Timer => IInv'
<1> SUFFICES ASSUME IInv, Timer PROVE IInv'
  OBVIOUS
<1> USE StateNames, PidNumbers
<1> DEFINE st == [p \in Pids |-> IF p \in Woken THEN READY ELSE procState[p]]
<1>1. /\ curProc \in Pids /\ curProc \in 0..maxProc
      /\ Schedule(st, "timer")
      /\ UNCHANGED <<maxProc, parentPid, waitingChild, mem>>
      /\ sleepTime' = [p \in Pids |-> IF p \in Woken THEN 0
                                      ELSE IF p \in Asleep THEN sleepTime[p] - Tick
                                      ELSE sleepTime[p]]
  BY DEF Timer, IInv, CurrentRuns, TypeOK
<1>2. st \in [Pids -> States] /\ st[0] \in {READY, SUSPENDED}
  BY DEF IInv, TypeOK, InitStays, Woken, Asleep
<1>3. \A p \in Pids : p \in Asleep <=> procState[p] = SLEEPING
  BY DEF Asleep, IInv, TypeOK, FreeSlots
<1>4. \A p \in Pids : p \in Woken <=> procState[p] = SLEEPING /\ sleepTime[p] <= 10
  BY <1>3 DEF Woken, Tick, Asleep, IInv, TypeOK
<1>5. \A p \in Pids : IF p \in Woken THEN st[p] = READY ELSE st[p] = procState[p]
  OBVIOUS
<1> HIDE DEF st
<1>6. /\ curProc' \in 0..maxProc /\ gdtBase' = curProc'
      /\ procState' \in [Pids -> States]
      /\ procState'[curProc'] = READY
      /\ procState'[0] \in {READY, SUSPENDED}
      /\ \A p \in Pids : p # 0 => procState'[p] = st[p]
      /\ regs' \in [Pids -> Regs] /\ cpu' \in Regs /\ bufLo' \in Int
      /\ LoIsLost'
  BY <1>1, <1>2, ScheduleEffect DEF IInv, CurrentRuns
<1>7. \A p \in Pids :
        \/ procState'[p] = procState[p] /\ procState[p] # SLEEPING
        \/ procState[p] = SLEEPING /\ sleepTime[p] <= 10 /\ procState'[p] = READY
        \/ procState[p] = SLEEPING /\ sleepTime[p] > 10 /\ procState'[p] = SLEEPING
        \/ p = 0 /\ procState[p] # SLEEPING /\ procState'[p] # SLEEPING
  <2>1. procState[0] # SLEEPING /\ procState'[0] # SLEEPING
    BY <1>6 DEF IInv, InitStays
  <2>2. \A p \in Pids : sleepTime[p] \in Nat
    BY DEF IInv, TypeOK
  <2> QED BY <2>1, <2>2, <1>4, <1>5, <1>6
<1>8. \A p \in Pids :
        sleepTime'[p] = IF procState[p] # SLEEPING THEN sleepTime[p]
                        ELSE IF sleepTime[p] <= 10 THEN 0 ELSE sleepTime[p] - 10
  BY <1>1, <1>3, <1>4 DEF Tick
<1>9. TypeOK'
  <2>1. \A p \in Pids : sleepTime'[p] \in Nat
    BY <1>8 DEF IInv, TypeOK
  <2>2. sleepTime' \in [Pids -> Nat]
    BY <2>1, <1>1
  <2> QED BY <2>2, <1>1, <1>6 DEF IInv, TypeOK
<1>10. FreeSlots' /\ InitStays'
  <2>1. \A p \in Pids : p > maxProc => p # 0
    BY DEF IInv, TypeOK
  <2> QED BY <2>1, <1>1, <1>6, <1>7 DEF IInv, FreeSlots, InitStays
<1>11. NoLostWait'
  <2> SUFFICES ASSUME NEW p \in Pids, procState'[p] = WAITING
               PROVE  /\ waitingChild'[p] \in 1..maxProc'
                      /\ parentPid'[waitingChild'[p]] = p
                      /\ procState'[waitingChild'[p]] # EXITED
    BY DEF NoLostWait
  <2>1. procState[p] = WAITING
    BY <1>6, <1>7
  <2>2. waitingChild[p] \in Pids /\ waitingChild[p] # 0
    BY <2>1 DEF IInv, TypeOK, NoLostWait
  <2> QED BY <2>1, <2>2, <1>1, <1>7 DEF IInv, NoLostWait
<1>12. CurrentRuns'
  BY <1>1, <1>6 DEF CurrentRuns
<1>13. SleepersHaveTime'
  <2> SUFFICES ASSUME NEW p \in Pids
               PROVE  procState'[p] = SLEEPING <=> sleepTime'[p] > 0
    BY DEF SleepersHaveTime
  <2>1. sleepTime[p] \in Nat /\ (procState[p] = SLEEPING <=> sleepTime[p] > 0)
    BY DEF IInv, TypeOK, SleepersHaveTime
  <2> QED BY <2>1, <1>7, <1>8
<1> QED BY <1>6, <1>9, <1>10, <1>11, <1>12, <1>13 DEF IInv

(* The inductive invariant holds in every reachable state: the invariants  *)
(* below are its parts.                                                    *)
THEOREM TableConsistent == Spec => []IInv
<1>1. IInv /\ [Next]_vars => IInv'
  <2> SUFFICES ASSUME IInv, [Next]_vars PROVE IInv'
    OBVIOUS
  <2>1. CASE InitFork
    BY <2>1, ForkKeeps DEF InitFork
  <2>2. CASE InitSuspend
    BY <2>2, StateNames, PidNumbers DEF InitSuspend, running, IInv, TypeOK, FreeSlots,
       LoIsLost, InitStays, NoLostWait, CurrentRuns, SleepersHaveTime
  <2>3. CASE UserWork
    BY <2>3, ProcAssumption DEF UserWork, table, IInv, TypeOK, FreeSlots, InitStays, LoIsLost,
       NoLostWait, CurrentRuns, SleepersHaveTime
  <2>4. CASE UserFork
    BY <2>4, ForkKeeps DEF UserFork
  <2>5. CASE Exec
    BY <2>5, ProcAssumption DEF Exec, table, IInv, TypeOK, FreeSlots, InitStays, LoIsLost,
       NoLostWait, CurrentRuns, SleepersHaveTime, Regs, FreshRegs
  <2>6. CASE Exit
    BY <2>6, ExitKeeps
  <2>7. CASE \E pid \in Pids : Waitpid(pid)
    BY <2>7, WaitpidKeeps
  <2>8. CASE \E time \in SleepArgs : Sleep(time)
    BY <2>8, SleepKeeps
  <2>9. CASE Timer
    BY <2>9, TimerKeeps
  <2>10. CASE UNCHANGED vars
    BY <2>10 DEF IInv, TypeOK, FreeSlots, InitStays, LoIsLost, NoLostWait, CurrentRuns,
                 SleepersHaveTime, vars, table, running
  <2>11. CASE KeyPressed
    BY <2>11, EnterKeeps DEF KeyPressed
  <2> QED BY <2>1, <2>2, <2>3, <2>4, <2>5, <2>6, <2>7, <2>8, <2>9, <2>10, <2>11 DEF Next
<1> QED BY InitEstablishes, <1>1, PTL DEF Spec

(* Every reachable state is well typed, for every size of the table.       *)
THEOREM Types == Spec => []TypeOK
<1>1. IInv => TypeOK
  BY DEF IInv
<1> QED BY <1>1, TableConsistent, PTL

(* No process waits for a child that is not its own or is gone.            *)
THEOREM WaitSafety == Spec => []NoLostWait
<1>1. IInv => NoLostWait
  BY DEF IInv
<1> QED BY <1>1, TableConsistent, PTL

(* The processor runs a ready process, in that process's address space.    *)
THEOREM SwitchSafety == Spec => []CurrentRuns
<1>1. IInv => CurrentRuns
  BY DEF IInv
<1> QED BY <1>1, TableConsistent, PTL

(* Exactly the sleepers have time left.                                    *)
THEOREM SleepSafety == Spec => []SleepersHaveTime
<1>1. IInv => SleepersHaveTime
  BY DEF IInv
<1> QED BY <1>1, TableConsistent, PTL

-----------------------------------------------------------------------------
(* The life of a process: what a step may make of its state.               *)
Moves(p) ==
  \/ procState'[p] = procState[p]
  \/ procState[p] = READY /\ procState'[p] \in {WAITING, SLEEPING, EXITED}
  \/ procState[p] = SLEEPING /\ procState'[p] = READY
  \/ /\ procState[p] = WAITING /\ procState'[p] = READY
     /\ procState[waitingChild[p]] # EXITED /\ procState'[waitingChild[p]] = EXITED

(* The system calls that give the processor away change the state of the   *)
(* caller, which is ready, before the scheduler runs.                      *)
LEMMA CallerMoves ==
  ASSUME IInv, NEW s \in {WAITING, SLEEPING}, NEW call, UserRuns,
         Schedule([procState EXCEPT ![curProc] = s], call)
  PROVE  \A p \in Pids \ {0} : Moves(p)
<1> USE StateNames, PidNumbers
<1> DEFINE st == [procState EXCEPT ![curProc] = s]
<1>1. curProc \in Pids /\ curProc # 0 /\ curProc \in 0..maxProc /\ procState[curProc] = READY
  BY DEF UserRuns, IInv, CurrentRuns, TypeOK
<1>2. st \in [Pids -> States] /\ st[0] \in {READY, SUSPENDED} /\ s \in States
  BY <1>1 DEF IInv, TypeOK, InitStays
<1>3. /\ \A p \in Pids : p # curProc => st[p] = procState[p]
      /\ st[curProc] = s
  BY <1>1 DEF IInv, TypeOK
<1> HIDE DEF st
<1>4. Schedule(st, call)
  BY DEF st
<1>5. \A p \in Pids : p # 0 => procState'[p] = st[p]
  BY <1>1, <1>2, <1>4, ScheduleEffect DEF IInv, CurrentRuns
<1> QED BY <1>1, <1>3, <1>5 DEF Moves

(* exit ends the caller, and the wait for it.                              *)
LEMMA ExitMoves == ASSUME IInv, Exit PROVE \A p \in Pids \ {0} : Moves(p)
<1> USE StateNames, PidNumbers
<1>1. /\ curProc \in Pids /\ curProc # 0 /\ curProc \in 0..maxProc
      /\ Schedule(Exited, "exit") /\ procState[curProc] = READY
  BY DEF Exit, UserRuns, IInv, CurrentRuns, TypeOK
<1>2. Exited \in [Pids -> States] /\ Exited[0] \in {READY, SUSPENDED}
  BY <1>1 DEF Exited, WaitsFor, IInv, TypeOK, InitStays
<1>3. \A p \in Pids : p # 0 => procState'[p] = Exited[p]
  BY <1>1, <1>2, ScheduleEffect DEF IInv, CurrentRuns
<1>4. Exited[curProc] = EXITED
  BY <1>1 DEF Exited
<1>5. \A p \in Pids : p # curProc =>
        \/ Exited[p] = procState[p]
        \/ procState[p] = WAITING /\ Exited[p] = READY /\ waitingChild[p] = curProc
  BY DEF Exited, WaitsFor
<1> QED BY <1>1, <1>3, <1>4, <1>5 DEF Moves

(* The timer wakes sleepers.                                               *)
LEMMA TimerMoves == ASSUME IInv, Timer PROVE \A p \in Pids \ {0} : Moves(p)
<1> USE StateNames, PidNumbers
<1> DEFINE st == [p \in Pids |-> IF p \in Woken THEN READY ELSE procState[p]]
<1>1. Schedule(st, "timer") /\ curProc \in 0..maxProc
  BY DEF Timer, IInv, CurrentRuns
<1>2. st \in [Pids -> States] /\ st[0] \in {READY, SUSPENDED}
  BY DEF IInv, TypeOK, InitStays, Woken, Asleep
<1>3. \A p \in Pids : st[p] = procState[p] \/ (procState[p] = SLEEPING /\ st[p] = READY)
  BY DEF Woken, Asleep
<1> HIDE DEF st
<1>4. \A p \in Pids : p # 0 => procState'[p] = st[p]
  BY <1>1, <1>2, ScheduleEffect DEF IInv, CurrentRuns
<1> QED BY <1>3, <1>4 DEF Moves

(* Every step moves every process but the first as Moves says.             *)
LEMMA LifeCycle == IInv /\ [Next]_vars => \A p \in Pids \ {0} : Moves(p)
<1> SUFFICES ASSUME IInv, [Next]_vars PROVE \A p \in Pids \ {0} : Moves(p)
  OBVIOUS
<1> USE StateNames, PidNumbers
<1>1. CASE Fork
  <2>1. /\ maxProc + 1 \in Pids /\ procState[maxProc + 1] = READY
        /\ procState' = [procState EXCEPT ![maxProc + 1] = READY]
    BY <1>1 DEF Fork, IInv, TypeOK, FreeSlots
  <2> QED BY <2>1 DEF Moves, IInv, TypeOK
<1>2. CASE InitSuspend
  BY <1>2 DEF InitSuspend, Moves, IInv, TypeOK
<1>3. CASE UNCHANGED procState
  BY <1>3 DEF Moves
<1>4. ASSUME NEW pid \in Pids, Waitpid(pid) PROVE \A p \in Pids \ {0} : Moves(p)
  BY <1>3, <1>4, CallerMoves DEF Waitpid, EnterAndLeave, table
<1>5. ASSUME NEW time \in SleepArgs, Sleep(time) PROVE \A p \in Pids \ {0} : Moves(p)
  BY <1>3, <1>5, CallerMoves DEF Sleep, EnterAndLeave, table
<1>6. UserWork \/ Exec \/ KeyPressed \/ UNCHANGED vars => UNCHANGED procState
  BY DEF UserWork, Exec, KeyPressed, EnterAndLeave, vars, table
<1> QED BY <1>1, <1>2, <1>3, <1>4, <1>5, <1>6, ExitMoves, TimerMoves
       DEF Next, InitFork, UserFork

(* waitpid returns only because the awaited child exits, in that step:     *)
(* neither the timer nor another child's exit ends the wait.               *)
THEOREM WaitsEndByExit == Spec => WaitEndsByExit
<1>1. IInv /\ [Next]_vars =>
        [\A p \in Pids : procState[p] = WAITING /\ procState'[p] # WAITING =>
           /\ procState'[p] = READY
           /\ procState[waitingChild[p]] # EXITED
           /\ procState'[waitingChild[p]] = EXITED]_vars
  <2>1. IInv => procState[0] # WAITING
    BY StateNames DEF IInv, InitStays
  <2> QED BY <2>1, LifeCycle, StateNames DEF Moves
<1> QED BY <1>1, TableConsistent, PTL DEF Spec, WaitEndsByExit

(* The scan of the scheduler reaches every other process before it is back *)
(* at process 0: an idle system stays idle only if nobody is ready.        *)
THEOREM IdleGivesWay == Spec => IdleYields
<1>1. ASSUME IInv, Timer, curProc = 0, curProc' = 0, NEW p \in 1..maxProc
      PROVE  procState'[p] # READY
  <2> USE StateNames, PidNumbers
  <2> DEFINE st == [q \in Pids |-> IF q \in Woken THEN READY ELSE procState[q]]
  <2>1. Schedule(st, "timer") /\ curProc \in 0..maxProc
    BY <1>1 DEF Timer, IInv, CurrentRuns
  <2>2. st \in [Pids -> States] /\ st[0] \in {READY, SUSPENDED}
    BY <1>1 DEF IInv, TypeOK, InitStays, Woken, Asleep
  <2> HIDE DEF st
  <2>3. maxProc \in Nat /\ maxProc <= LastPid /\ p \in Pids /\ p # 0
    BY <1>1 DEF IInv, TypeOK
  <2>4. procState'[p] = st[p]
    BY <1>1, <2>1, <2>2, <2>3, ScheduleEffect DEF IInv, CurrentRuns
  <2>5. ScanStopsAt(0, st)
    BY <1>1, <2>1 DEF Schedule
  <2>6. p \notin Ready(st)
    <3>1. Distance(0) = maxProc + 1 /\ Distance(p) = p
      BY <1>1, <2>3 DEF Distance
    <3> QED BY <2>3, <2>5, <3>1 DEF ScanStopsAt, Ready
  <2> QED BY <2>3, <2>4, <2>6 DEF Ready
<1>2. IInv /\ [Next]_vars =>
        [Timer /\ curProc = 0 /\ curProc' = 0 =>
           \A p \in 1..maxProc : procState'[p] # READY]_vars
  BY <1>1
<1> QED BY <1>2, TableConsistent, PTL DEF Spec, IdleYields

-----------------------------------------------------------------------------
(* Nobody waits in a circle: a child is younger than its parent, and only  *)
(* process 0 is ever suspended.                                            *)
ChildrenYounger == \A p \in 1..maxProc : parentPid[p] < p
OnlyInitSuspended == \A p \in Pids : p # 0 => procState[p] # SUSPENDED

(* Only fork says who is whose child, and it does so of the youngest.      *)
LEMMA ChildrenStayYounger == IInv /\ ChildrenYounger /\ [Next]_vars => ChildrenYounger'
<1> SUFFICES ASSUME IInv, ChildrenYounger, [Next]_vars PROVE ChildrenYounger'
  OBVIOUS
<1>1. CASE Fork
  <2>1. /\ maxProc \in Nat /\ maxProc + 1 \in Pids /\ curProc \in 0..maxProc
        /\ maxProc' = maxProc + 1
        /\ parentPid' = [parentPid EXCEPT ![maxProc + 1] = curProc]
    BY <1>1, PidNumbers DEF Fork, IInv, TypeOK, CurrentRuns
  <2>2. parentPid'[maxProc + 1] = curProc
    BY <2>1 DEF IInv, TypeOK
  <2>3. \A p \in 1..maxProc : parentPid'[p] = parentPid[p]
    BY <2>1 DEF IInv, TypeOK
  <2> QED BY <2>1, <2>2, <2>3 DEF ChildrenYounger
<1>2. CASE UNCHANGED <<maxProc, parentPid>>
  BY <1>2 DEF ChildrenYounger
<1>3. Fork \/ UNCHANGED <<maxProc, parentPid>>
  BY DEF Next, InitFork, UserFork, InitSuspend, UserWork, Exec, Exit, Waitpid, Sleep, Timer,
         KeyPressed, EnterAndLeave, vars, table, running
<1> QED BY <1>1, <1>2, <1>3

(* Every set of natural numbers but the empty one has a least member.      *)
LEMMA LeastNumber ==
  ASSUME NEW T, T \subseteq Nat, T # {}
  PROVE  \E x \in T : \A y \in T : x <= y
<1> DEFINE R == OpToRel(<, Nat)
<1>1. IsWellFoundedOn(R, Nat)
  BY NatLessThanWellFounded, Zenon
<1> HIDE DEF R
<1>2. PICK x \in T : \A y \in T : ~(<<y, x>> \in R)
  BY <1>1, WFMin
<1>3. \A y \in T : y < x => <<y, x>> \in R
  BY DEF R, OpToRel
<1>4. \A y \in T : ~(y < x)
  BY <1>2, <1>3
<1>5. x \in Nat /\ \A y \in T : y \in Nat
  OBVIOUS
<1>6. \A y \in T : x <= y
  BY <1>4, <1>5
<1> QED BY <1>6

(* The youngest of the waiting processes waits for one that is younger and *)
(* neither waits nor has exited.                                           *)
LEMMA YoungestWaitsWell ==
  ASSUME IInv, ChildrenYounger, OnlyInitSuspended, NEW p \in Pids, procState[p] = WAITING
  PROVE  \E q \in (p + 1)..maxProc : procState[q] \in {READY, SLEEPING}
<1> USE StateNames, PidNumbers
<1> DEFINE S == {n \in Nat : \E q \in Pids : q >= p /\ procState[q] = WAITING /\ n = LastPid - q}
<1>1. S \in SUBSET Nat /\ S # {}
  <2>1. LastPid - p \in S
    OBVIOUS
  <2> QED BY <2>1
<1>2. PICK least \in S : \A n \in S : least <= n
  BY <1>1, LeastNumber
<1>3. PICK w \in Pids : w >= p /\ procState[w] = WAITING /\ least = LastPid - w
  OBVIOUS
<1>4. \A q \in Pids : q >= p /\ procState[q] = WAITING => q <= w
  <2> SUFFICES ASSUME NEW q \in Pids, q >= p, procState[q] = WAITING
               PROVE  q <= w
    OBVIOUS
  <2>1. LastPid - q \in S
    OBVIOUS
  <2>2. least <= LastPid - q
    BY <1>2, <2>1
  <2> QED BY <1>3, <2>2
<1> HIDE DEF S
<1> DEFINE c == waitingChild[w]
<1>5. c \in 1..maxProc /\ parentPid[c] = w /\ procState[c] # EXITED
  BY <1>3 DEF IInv, NoLostWait
<1>6. c > w
  BY <1>3, <1>5 DEF ChildrenYounger
<1>7. c \in Pids /\ maxProc \in Nat
  BY <1>5 DEF IInv, TypeOK
<1>8. procState[c] # WAITING
  BY <1>3, <1>4, <1>6, <1>7
<1>9. procState[c] # SUSPENDED
  BY <1>5, <1>7 DEF OnlyInitSuspended
<1> QED BY <1>3, <1>5, <1>6, <1>7, <1>8, <1>9 DEF IInv, TypeOK, States

(* Processes never wait for each other in a circle: behind every waiting   *)
(* process there is a younger one that is ready or will wake by itself.    *)
THEOREM NoDeadlock == Spec => []WaitsEnd
<1> DEFINE Chain == IInv /\ ChildrenYounger /\ OnlyInitSuspended
<1>1. Init => Chain
  <2>1. Init => ChildrenYounger /\ OnlyInitSuspended
    BY StateNames DEF Init, ChildrenYounger, OnlyInitSuspended
  <2> QED BY <2>1, InitEstablishes
<1>2. IInv /\ OnlyInitSuspended /\ [Next]_vars => OnlyInitSuspended'
  <2>1. ASSUME NEW p \in Pids \ {0}, Moves(p), procState[p] # SUSPENDED
        PROVE  procState'[p] # SUSPENDED
    BY <2>1, StateNames DEF Moves
  <2> QED BY <2>1, LifeCycle DEF OnlyInitSuspended
<1>3. Chain => WaitsEnd
  BY YoungestWaitsWell DEF WaitsEnd
<1>4. Spec => [](ChildrenYounger /\ OnlyInitSuspended)
  <2>1. IInv /\ (ChildrenYounger /\ OnlyInitSuspended) /\ [Next]_vars =>
          (ChildrenYounger /\ OnlyInitSuspended)'
    BY <1>2, ChildrenStayYounger
  <2>2. Init => ChildrenYounger /\ OnlyInitSuspended
    BY <1>1
  <2> QED BY <2>1, <2>2, TableConsistent, PTL DEF Spec
<1> QED BY <1>3, <1>4, TableConsistent, PTL

-----------------------------------------------------------------------------
(***************************************************************************)
(* The process manager implements Processes: a step of Proc is a step of   *)
(* the abstract specification, or changes nothing a program can see.       *)
(***************************************************************************)

(* What Processes sees of the state of Proc.                               *)
Stat == [p \in Pids |-> Status(p)]
Ctx == [p \in Pids |-> IF p = curProc THEN cpu ELSE regs[p]]

(* The status of a process, by cases.                                      *)
LEMMA StatusCases ==
  ASSUME procState \in [Pids -> States], maxProc \in Pids
  PROVE  \A p \in Pids :
           /\ p > maxProc <=> Status(p) = "none"
           /\ p <= maxProc /\ procState[p] \in {READY, SUSPENDED} <=> Status(p) = "live"
           /\ p <= maxProc /\ procState[p] = WAITING <=> Status(p) = "waiting"
           /\ p <= maxProc /\ procState[p] = SLEEPING <=> Status(p) = "sleeping"
           /\ p <= maxProc /\ procState[p] = EXITED <=> Status(p) = "exited"
BY StateNames, PidNumbers DEF Status, States

(* The same in the next state.                                             *)
LEMMA StatusCasesNext ==
  ASSUME procState' \in [Pids -> States], maxProc' \in Pids
  PROVE  \A p \in Pids :
           /\ p > maxProc' <=> Status(p)' = "none"
           /\ p <= maxProc' /\ procState'[p] \in {READY, SUSPENDED} <=> Status(p)' = "live"
           /\ p <= maxProc' /\ procState'[p] = WAITING <=> Status(p)' = "waiting"
           /\ p <= maxProc' /\ procState'[p] = SLEEPING <=> Status(p)' = "sleeping"
           /\ p <= maxProc' /\ procState'[p] = EXITED <=> Status(p)' = "exited"
BY StateNames, PidNumbers DEF Status, States

(* A status is kept if the state is, or is still one of a live process.    *)
LEMMA StatusKept ==
  ASSUME procState \in [Pids -> States], procState' \in [Pids -> States],
         maxProc \in Pids, maxProc' = maxProc, NEW p \in Pids,
         \/ procState'[p] = procState[p]
         \/ {procState'[p], procState[p]} \subseteq {READY, SUSPENDED}
  PROVE  Status(p)' = Status(p)
<1>1. procState[p] \in States /\ (p > maxProc \/ p <= maxProc)
  BY PidNumbers
<1> QED BY <1>1, StateNames, StatusCases, StatusCasesNext DEF States

(* A process that runs is live.                                            *)
LEMMA CurrentIsLive == IInv => curProc \in Pids /\ Stat[curProc] = "live"
BY StateNames, PidNumbers, StatusCases DEF IInv, TypeOK, CurrentRuns, Stat

(* What cache_regs leaves in REGS_BUF is the context without LO.           *)
LEMMA CachedIsKept == IInv => Cached = Abs!Kept(cpu)
BY DEF IInv, LoIsLost, Cached, Abs!Kept

(* Entering the kernel and leaving it at once changes no status and of no  *)
(* context but the caller's LO.                                            *)
LEMMA EnterRefines == ASSUME IInv, EnterAndLeave PROVE Abs!Interrupt(curProc, {})
<1>1. /\ curProc \in Pids /\ Stat[curProc] = "live" /\ regs \in [Pids -> Regs]
  BY CurrentIsLive DEF IInv, TypeOK
<1>2. /\ cpu' = Abs!Kept(cpu) /\ curProc' = curProc /\ regs' = regs
      /\ procState' = procState /\ maxProc' = maxProc /\ mem' = mem
      /\ parentPid' = parentPid /\ waitingChild' = waitingChild
  BY CachedIsKept DEF EnterAndLeave, table
<1>3. Ctx' = [Ctx EXCEPT ![curProc] = Abs!Kept(Ctx[curProc])]
  BY <1>1, <1>2 DEF Ctx
<1>4. Stat' = [q \in Pids |-> IF q \in {} THEN "live" ELSE Stat[q]]
  <2>1. \A q \in Pids : Status(q)' = Status(q)
    BY <1>2 DEF Status
  <2> QED BY <2>1 DEF Stat
<1> QED BY <1>1, <1>2, <1>3, <1>4 DEF Abs!Interrupt, Stat, Ctx

(* Switching processes moves contexts between the processor and the table, *)
(* and makes no difference to any process but the LO of the one that ran.  *)
LEMMA SwitchUnseen ==
  ASSUME IInv, NEW st \in [Pids -> States], NEW call, call # "fork",
         st[0] \in {READY, SUSPENDED}, Schedule(st, call), maxProc' = maxProc
  PROVE  /\ Ctx' = [Ctx EXCEPT ![curProc] = Abs!Kept(Ctx[curProc])]
         /\ procState' \in [Pids -> States]
         /\ \A p \in Pids : \/ procState'[p] = st[p]
                            \/ p = 0 /\ {procState'[p], st[p]} \subseteq {READY, SUSPENDED}
<1> USE StateNames, PidNumbers
<1>1. \A r : Restored(call, r, 0) = r
  BY DEF Restored, Returns
<1>2. PICK n \in 0..maxProc :
        /\ curProc' = n
        /\ IF n = curProc
           THEN cpu' = Abs!Kept(cpu) /\ UNCHANGED regs
           ELSE regs' = [regs EXCEPT ![curProc] = Abs!Kept(cpu)] /\ cpu' = regs[n]
  BY <1>1, CachedIsKept DEF Schedule
<1>3. n \in Pids /\ curProc \in Pids /\ regs \in [Pids -> Regs]
  BY DEF IInv, TypeOK
<1>4. Ctx' = [Ctx EXCEPT ![curProc] = Abs!Kept(Ctx[curProc])]
  BY <1>2, <1>3 DEF Ctx
<1>5. /\ procState' \in [Pids -> States] /\ procState'[0] \in {READY, SUSPENDED}
      /\ \A p \in Pids : p # 0 => procState'[p] = st[p]
  BY ScheduleEffect DEF IInv, CurrentRuns
<1> QED BY <1>4, <1>5

-----------------------------------------------------------------------------
(* It computes in its own address space.                                   *)
LEMMA WorkRefines == ASSUME IInv, UserWork PROVE Abs!Work(curProc)
<1>1. /\ curProc \in Pids /\ Stat[curProc] = "live" /\ gdtBase = curProc
      /\ regs \in [Pids -> Regs]
  BY CurrentIsLive DEF IInv, TypeOK, CurrentRuns
<1>2. /\ cpu' \in UserRegs /\ curProc' = curProc /\ regs' = regs
      /\ procState' = procState /\ maxProc' = maxProc
      /\ \E m \in Images : mem' = [mem EXCEPT ![curProc] = m]
      /\ parentPid' = parentPid /\ waitingChild' = waitingChild
  BY <1>1 DEF UserWork, table
<1>3. Ctx' = [Ctx EXCEPT ![curProc] = cpu']
  BY <1>1, <1>2 DEF Ctx
<1>4. Stat' = Stat
  BY <1>2 DEF Stat, Status
<1>5. \E r \in UserRegs : Ctx' = [Ctx EXCEPT ![curProc] = r]
  BY <1>2, <1>3
<1> QED BY <1>1, <1>2, <1>4, <1>5 DEF Abs!Work, Stat, Ctx

(* It is replaced by another one.                                          *)
LEMMA ExecRefines == ASSUME IInv, Exec PROVE Abs!Exec(curProc)
<1>1. /\ curProc \in Pids /\ Stat[curProc] = "live" /\ regs \in [Pids -> Regs]
  BY CurrentIsLive DEF IInv, TypeOK
<1>2. /\ cpu' = FreshRegs /\ curProc' = curProc /\ regs' = regs
      /\ procState' = procState /\ maxProc' = maxProc
      /\ \E m \in Images : mem' = [mem EXCEPT ![curProc] = m]
      /\ parentPid' = parentPid /\ waitingChild' = waitingChild
  BY <1>1 DEF Exec, table
<1>3. Ctx' = [Ctx EXCEPT ![curProc] = FreshRegs]
  BY <1>1, <1>2 DEF Ctx
<1>4. Stat' = Stat
  BY <1>2 DEF Stat, Status
<1> QED BY <1>1, <1>2, <1>3, <1>4 DEF Abs!Exec, Stat, Ctx

(* fork, by the first process or another one.                              *)
LEMMA ForkRefines == ASSUME IInv, Fork PROVE Abs!Fork(curProc, maxProc + 1)
<1> USE StateNames, PidNumbers
<1> DEFINE new == maxProc + 1
<1>1. /\ curProc \in Pids /\ Stat[curProc] = "live" /\ curProc # new
      /\ new \in Pids /\ maxProc \in Pids /\ regs \in [Pids -> Regs] /\ cpu \in Regs
      /\ procState \in [Pids -> States]
  BY CurrentIsLive DEF IInv, TypeOK, CurrentRuns, Fork
<1>2. /\ maxProc' = new /\ procState' = [procState EXCEPT ![new] = READY]
      /\ parentPid' = [parentPid EXCEPT ![new] = curProc]
      /\ mem' = [mem EXCEPT ![new] = mem[curProc]]
      /\ regs' = [regs EXCEPT ![new] = [Abs!Kept(cpu) EXCEPT !.v0 = 0]]
      /\ cpu' = [Abs!Kept(cpu) EXCEPT !.v0 = new]
      /\ curProc' = curProc /\ waitingChild' = waitingChild
  BY CachedIsKept DEF Fork, Restored, Returns
<1>3. Stat[new] = "none"
  BY <1>1, StatusCases DEF Stat
<1>4. Stat' = [Stat EXCEPT ![new] = "live"]
  <2>1. procState' \in [Pids -> States] /\ maxProc' \in Pids
    BY <1>1, <1>2
  <2>2. ASSUME NEW p \in Pids, p = new PROVE Status(p)' = "live"
    BY <1>1, <1>2, <2>1, <2>2, StatusCasesNext
  <2>3. ASSUME NEW p \in Pids, p # new PROVE Status(p)' = Status(p)
    <3>1. procState'[p] = procState[p] /\ (p > new <=> p > maxProc) /\ (p <= new <=> p <= maxProc)
      BY <1>1, <1>2, <2>3
    <3>2. procState[p] \in States /\ (p > new \/ p <= new)
      BY <1>1
    <3> QED BY <1>1, <1>2, <2>1, <3>1, <3>2, StatusCases, StatusCasesNext DEF States
  <2> QED BY <1>1, <2>2, <2>3 DEF Stat
<1>5. Ctx' = [Ctx EXCEPT ![new] = [Abs!Kept(Ctx[curProc]) EXCEPT !.v0 = 0],
                         ![curProc] = [Abs!Kept(Ctx[curProc]) EXCEPT !.v0 = new]]
  BY <1>1, <1>2 DEF Ctx
<1> HIDE DEF new
<1>6. Abs!Fork(curProc, new)
  BY <1>1, <1>2, <1>3, <1>4, <1>5 DEF Abs!Fork, Stat, Ctx
<1> QED BY <1>6 DEF new

(* waitpid, for a child that has not exited.                               *)
LEMMA WaitRefines ==
  ASSUME IInv, NEW pid \in Pids, Waitpid(pid), MayWaitFor(pid)
  PROVE  Abs!Wait(curProc, pid)
<1> USE StateNames, PidNumbers
<1> DEFINE st == [procState EXCEPT ![curProc] = WAITING]
<1>1. /\ curProc \in Pids /\ Stat[curProc] = "live" /\ curProc # 0 /\ maxProc \in Pids
      /\ procState \in [Pids -> States] /\ curProc <= maxProc
  BY CurrentIsLive DEF Waitpid, UserRuns, IInv, TypeOK, CurrentRuns
<1>2. /\ waitingChild' = [waitingChild EXCEPT ![curProc] = pid]
      /\ maxProc' = maxProc /\ parentPid' = parentPid /\ mem' = mem
      /\ Schedule(st, "waitpid")
  BY DEF Waitpid
<1>3. st \in [Pids -> States] /\ st[0] \in {READY, SUSPENDED}
  BY <1>1 DEF IInv, InitStays
<1>4. st[curProc] = WAITING /\ \A p \in Pids : p # curProc => st[p] = procState[p]
  BY <1>1
<1> HIDE DEF st
<1>5. /\ Ctx' = [Ctx EXCEPT ![curProc] = Abs!Kept(Ctx[curProc])]
      /\ procState' \in [Pids -> States]
      /\ \A p \in Pids : \/ procState'[p] = st[p]
                         \/ p = 0 /\ {procState'[p], st[p]} \subseteq {READY, SUSPENDED}
  BY <1>2, <1>3, SwitchUnseen
<1>6. parentPid[pid] = curProc /\ Stat[pid] \notin {"none", "exited"}
  <2>1. parentPid[pid] = curProc /\ procState[pid] # EXITED
    BY DEF MayWaitFor
  <2>2. ~(pid > maxProc)
    BY <1>1, <2>1 DEF IInv, FreeSlots
  <2> QED BY <1>1, <2>1, <2>2, StatusCases DEF Stat
<1>7. Stat' = [Stat EXCEPT ![curProc] = "waiting"]
  <2>1. ASSUME NEW p \in Pids, p = curProc PROVE Status(p)' = "waiting"
    BY <1>1, <1>2, <1>4, <1>5, <2>1, StatusCasesNext
  <2>2. ASSUME NEW p \in Pids, p # curProc PROVE Status(p)' = Status(p)
    <3>1. \/ procState'[p] = procState[p]
          \/ {procState'[p], procState[p]} \subseteq {READY, SUSPENDED}
      BY <1>4, <1>5, <2>2
    <3> QED BY <1>1, <1>2, <1>5, <3>1, StatusKept
  <2> QED BY <1>1, <2>1, <2>2 DEF Stat
<1> QED BY <1>1, <1>2, <1>5, <1>6, <1>7 DEF Abs!Wait, Stat, Ctx

(* sleep, for a positive time.                                             *)
LEMMA SleepRefines ==
  ASSUME IInv, NEW time \in SleepArgs, Sleep(time), time > 0
  PROVE  Abs!Sleep(curProc)
<1> USE StateNames, PidNumbers
<1> DEFINE st == [procState EXCEPT ![curProc] = SLEEPING]
<1>1. /\ curProc \in Pids /\ Stat[curProc] = "live" /\ curProc # 0 /\ maxProc \in Pids
      /\ procState \in [Pids -> States] /\ curProc <= maxProc
  BY CurrentIsLive DEF Sleep, UserRuns, IInv, TypeOK, CurrentRuns
<1>2. /\ waitingChild' = waitingChild
      /\ maxProc' = maxProc /\ parentPid' = parentPid /\ mem' = mem
      /\ Schedule(st, "sleep")
  BY DEF Sleep
<1>3. st \in [Pids -> States] /\ st[0] \in {READY, SUSPENDED}
  BY <1>1 DEF IInv, InitStays
<1>4. st[curProc] = SLEEPING /\ \A p \in Pids : p # curProc => st[p] = procState[p]
  BY <1>1
<1> HIDE DEF st
<1>5. /\ Ctx' = [Ctx EXCEPT ![curProc] = Abs!Kept(Ctx[curProc])]
      /\ procState' \in [Pids -> States]
      /\ \A p \in Pids : \/ procState'[p] = st[p]
                         \/ p = 0 /\ {procState'[p], st[p]} \subseteq {READY, SUSPENDED}
  BY <1>2, <1>3, SwitchUnseen
<1>6. Stat' = [Stat EXCEPT ![curProc] = "sleeping"]
  <2>1. ASSUME NEW p \in Pids, p = curProc PROVE Status(p)' = "sleeping"
    BY <1>1, <1>2, <1>4, <1>5, <2>1, StatusCasesNext
  <2>2. ASSUME NEW p \in Pids, p # curProc PROVE Status(p)' = Status(p)
    <3>1. \/ procState'[p] = procState[p]
          \/ {procState'[p], procState[p]} \subseteq {READY, SUSPENDED}
      BY <1>4, <1>5, <2>2
    <3> QED BY <1>1, <1>2, <1>5, <3>1, StatusKept
  <2> QED BY <1>1, <2>1, <2>2 DEF Stat
<1> QED BY <1>1, <1>2, <1>5, <1>6 DEF Abs!Sleep, Stat, Ctx

(* exit, and the end of the parent's wait for it.                          *)
LEMMA ExitRefines == ASSUME IInv, Exit PROVE Abs!Exit(curProc)
<1> USE StateNames, PidNumbers
<1>1. /\ curProc \in Pids /\ Stat[curProc] = "live" /\ curProc # 0 /\ maxProc \in Pids
      /\ procState \in [Pids -> States] /\ curProc <= maxProc
  BY CurrentIsLive DEF Exit, UserRuns, IInv, TypeOK, CurrentRuns
<1>2. /\ waitingChild' = waitingChild
      /\ maxProc' = maxProc /\ parentPid' = parentPid /\ mem' = mem
      /\ Schedule(Exited, "exit")
  BY DEF Exit
<1>3. Exited \in [Pids -> States] /\ Exited[0] \in {READY, SUSPENDED}
  BY <1>1 DEF Exited, WaitsFor, IInv, InitStays
<1>4. /\ Ctx' = [Ctx EXCEPT ![curProc] = Abs!Kept(Ctx[curProc])]
      /\ procState' \in [Pids -> States]
      /\ \A p \in Pids : \/ procState'[p] = Exited[p]
                         \/ p = 0 /\ {procState'[p], Exited[p]} \subseteq {READY, SUSPENDED}
  BY <1>2, <1>3, SwitchUnseen
<1>5. ASSUME NEW q \in Pids, q = curProc PROVE Status(q)' = "exited"
  <2>1. Exited[q] = EXITED
    BY <1>5 DEF Exited
  <2> QED BY <1>1, <1>2, <1>4, <1>5, <2>1, StatusCasesNext
<1>6. ASSUME NEW q \in Pids, q # curProc, q = parentPid[curProc], WaitsFor(q, curProc)
      PROVE  Status(q)' = "live"
  <2>1. Exited[q] = READY /\ procState[q] = WAITING
    BY <1>6 DEF Exited, WaitsFor
  <2>2. q <= maxProc
    BY <1>1, <2>1 DEF IInv, FreeSlots
  <2> QED BY <1>1, <1>2, <1>4, <2>1, <2>2, StatusCasesNext
<1>7. ASSUME NEW q \in Pids, q # curProc, ~(q = parentPid[curProc] /\ WaitsFor(q, curProc))
      PROVE  Status(q)' = Status(q)
  <2>1. Exited[q] = procState[q]
    BY <1>7 DEF Exited
  <2> QED BY <1>1, <1>2, <1>4, <2>1, StatusKept
<1>8. \A q \in Pids : WaitsFor(q, curProc) <=>
                       Stat[q] = "waiting" /\ waitingChild[q] = curProc
  <2>1. \A q \in Pids : procState[q] = WAITING => q <= maxProc
    BY <1>1 DEF IInv, FreeSlots
  <2> QED BY <1>1, <2>1, StatusCases DEF WaitsFor, Stat
<1>9. Stat' = [q \in Pids |->
                 CASE q = curProc -> "exited"
                   [] q = parentPid[curProc] /\ Stat[q] = "waiting" /\ waitingChild[q] = curProc
                        -> "live"
                   [] OTHER -> Stat[q]]
  BY <1>1, <1>5, <1>6, <1>7, <1>8 DEF Stat, WaitsFor
<1> QED BY <1>1, <1>2, <1>4, <1>9 DEF Abs!Exit, Stat, Ctx

(* The timer wakes the sleepers whose time is up.                          *)
LEMMA TimerRefines == ASSUME IInv, Timer PROVE Abs!Interrupt(curProc, Woken)
<1> USE StateNames, PidNumbers
<1> DEFINE st == [p \in Pids |-> IF p \in Woken THEN READY ELSE procState[p]]
<1>1. /\ maxProc \in Pids /\ procState \in [Pids -> States]
      /\ curProc \in Pids /\ Stat[curProc] = "live"
  BY CurrentIsLive DEF IInv, TypeOK
<1>2. /\ waitingChild' = waitingChild
      /\ maxProc' = maxProc /\ parentPid' = parentPid /\ mem' = mem
      /\ Schedule(st, "timer")
  BY DEF Timer
<1>3. st \in [Pids -> States] /\ st[0] \in {READY, SUSPENDED}
  BY <1>1 DEF IInv, InitStays, Woken, Asleep
<1>4. \A p \in Pids : st[p] = IF p \in Woken THEN READY ELSE procState[p]
  OBVIOUS
<1> HIDE DEF st
<1>5. /\ Ctx' = [Ctx EXCEPT ![curProc] = Abs!Kept(Ctx[curProc])]
      /\ procState' \in [Pids -> States]
      /\ \A p \in Pids : \/ procState'[p] = st[p]
                         \/ p = 0 /\ {procState'[p], st[p]} \subseteq {READY, SUSPENDED}
  BY <1>2, <1>3, SwitchUnseen
<1>6. \A p \in Woken : p \in Pids /\ p <= maxProc /\ procState[p] = SLEEPING
  BY <1>1 DEF Woken, Asleep
<1>7. \A p \in Woken : Stat[p] = "sleeping"
  BY <1>1, <1>6, StatusCases DEF Stat
<1>8. ASSUME NEW p \in Pids, p \in Woken PROVE Status(p)' = "live"
  BY <1>1, <1>2, <1>4, <1>5, <1>6, <1>8, StatusCasesNext
<1>9. ASSUME NEW p \in Pids, p \notin Woken PROVE Status(p)' = Status(p)
  BY <1>1, <1>2, <1>4, <1>5, <1>9, StatusKept
<1>10. Stat' = [p \in Pids |-> IF p \in Woken THEN "live" ELSE Stat[p]]
  BY <1>8, <1>9 DEF Stat
<1> QED BY <1>1, <1>2, <1>5, <1>7, <1>10 DEF Abs!Interrupt, Stat, Ctx

-----------------------------------------------------------------------------
(* Nothing but process 0 exists.                                           *)
LEMMA InitRefines == Init => Abs!Init
<1> SUFFICES ASSUME Init PROVE Abs!Init
  OBVIOUS
<1> USE StateNames, PidNumbers
<1>1. procState \in [Pids -> States] /\ maxProc \in Pids /\ maxProc = 0
      /\ \A p \in Pids : procState[p] = READY
  BY DEF Init
<1>2. \A p \in Pids : Status(p) = IF p = 0 THEN "live" ELSE "none"
  BY <1>1, StatusCases
<1>3. Stat = [p \in Pids |-> IF p = 0 THEN "live" ELSE "none"]
  BY <1>2 DEF Stat
<1>4. Ctx = [p \in Pids |-> FreshRegs]
  BY DEF Init, Ctx
<1>5. mem \in [Pids -> Images]
  BY DEF Init
<1> QED BY <1>3, <1>4, <1>5 DEF Init, Abs!Init, Stat, Ctx

(* That process 0 suspends itself is a stutter.                            *)
LEMMA StutterRefines ==
  ASSUME IInv, InitSuspend \/ UNCHANGED vars
  PROVE  UNCHANGED Abs!vars
<1>1. /\ procState \in [Pids -> States] /\ maxProc \in Pids /\ maxProc' = maxProc
      /\ curProc' = curProc /\ cpu' = cpu /\ regs' = regs
      /\ parentPid' = parentPid /\ waitingChild' = waitingChild /\ mem' = mem
  BY DEF IInv, TypeOK, InitSuspend, vars, table, running
<1>2. \A p \in Pids : \/ procState'[p] = procState[p]
                      \/ {procState'[p], procState[p]} \subseteq {READY, SUSPENDED}
  BY <1>1 DEF IInv, InitStays, InitSuspend, vars, table
<1>3. procState' \in [Pids -> States]
  BY <1>1, StateNames DEF InitSuspend, vars, table
<1>4. Stat' = Stat
  BY <1>1, <1>2, <1>3, StatusKept DEF Stat
<1>5. Ctx' = Ctx
  BY <1>1 DEF Ctx
<1> QED BY <1>1, <1>4, <1>5 DEF Abs!vars, Stat, Ctx

(* Every step is a step of Processes or a stutter.                        *)
LEMMA StepRefines == IInv /\ [Next]_vars => [Abs!Next]_(Abs!vars)
<1> SUFFICES ASSUME IInv, [Next]_vars PROVE Abs!Next \/ UNCHANGED Abs!vars
  OBVIOUS
<1>1. curProc \in Pids
  BY CurrentIsLive
<1>2. CASE UserWork
  <2>1. Abs!Work(curProc)
    BY <1>2, WorkRefines
  <2> QED BY <1>1, <2>1 DEF Abs!Next, Abs!Work
<1>3. CASE Exec
  <2>1. Abs!Exec(curProc)
    BY <1>3, ExecRefines
  <2> QED BY <1>1, <2>1 DEF Abs!Next, Abs!Exec
<1>4. CASE InitFork \/ UserFork
  <2>1. Fork /\ maxProc + 1 \in Pids
    BY <1>4, PidNumbers DEF InitFork, UserFork, Fork, IInv, TypeOK
  <2>2. Abs!Fork(curProc, maxProc + 1)
    BY <2>1, ForkRefines
  <2> QED BY <1>1, <2>1, <2>2 DEF Abs!Next, Abs!Fork
<1>5. CASE Exit
  <2>1. Abs!Exit(curProc)
    BY <1>5, ExitRefines
  <2> QED BY <1>1, <2>1 DEF Abs!Next, Abs!Exit
<1>6. CASE \E pid \in Pids : Waitpid(pid)
  <2>1. PICK pid \in Pids : Waitpid(pid)
    BY <1>6
  <2>2. CASE MayWaitFor(pid)
    BY <1>1, <2>1, <2>2, WaitRefines DEF Abs!Next
  <2>3. CASE ~MayWaitFor(pid)
    BY <1>1, <2>1, <2>3, EnterRefines DEF Waitpid, Abs!Next
  <2> QED BY <2>2, <2>3
<1>7. CASE \E time \in SleepArgs : Sleep(time)
  <2>1. PICK time \in SleepArgs : Sleep(time)
    BY <1>7
  <2>2. CASE time > 0
    <3>1. Abs!Sleep(curProc)
      BY <2>1, <2>2, SleepRefines
    <3> QED BY <1>1, <3>1 DEF Abs!Next, Abs!Sleep
  <2>3. CASE ~(time > 0)
    BY <1>1, <2>1, <2>3, EnterRefines DEF Sleep, Abs!Next
  <2> QED BY <2>2, <2>3
<1>8. CASE Timer
  <2>1. Woken \in SUBSET Pids
    BY PidNumbers DEF Woken, Asleep, IInv, TypeOK
  <2>2. Abs!Interrupt(curProc, Woken)
    BY <1>8, TimerRefines
  <2> QED BY <1>1, <2>1, <2>2 DEF Abs!Next, Abs!Interrupt
<1>9. CASE InitSuspend \/ UNCHANGED vars
  BY <1>9, StutterRefines
<1>10. CASE KeyPressed
  BY <1>1, <1>10, EnterRefines DEF KeyPressed, Abs!Next
<1> QED BY <1>2, <1>3, <1>4, <1>5, <1>6, <1>7, <1>8, <1>9, <1>10 DEF Next

(* Programs cannot see the scheduler: for every number of processes and    *)
(* every program, memory and every register but LO survive every interrupt *)
(* and switch, LO is 0 after each for the process that ran and kept for    *)
(* the others, and fork, exec, waitpid, sleep and exit do to each process  *)
(* what Processes says (proc.lib, interrupt.lib:85-91).                    *)
THEOREM Refinement == Spec => RefinesProcesses
<1> QED BY InitRefines, StepRefines, TableConsistent, PTL DEF Spec, RefinesProcesses, Abs!Spec
===============================================================================
