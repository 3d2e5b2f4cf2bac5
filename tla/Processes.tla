------------------------------ MODULE Processes ------------------------------
(***************************************************************************)
(* What the process manager of the system (os/proc.lib, os/interrupt.lib)  *)
(* does for its user programs, with the scheduler left out: every process  *)
(* has registers and a memory of its own that only its own steps change,   *)
(* fork makes a child that continues from the parent's state with 0 as the *)
(* returned value, a process that waits for a child goes on when that      *)
(* child exits, a sleeper goes on at some later time.  One register is not *)
(* kept: LO is 0 after every entry to the kernel while its owner runs.  No *)
(* processor, no timer, no saved context: any live process may take the    *)
(* next step.                                                              *)
(***************************************************************************)
EXTENDS Integers

CONSTANTS
  Pids,      \* the process identifiers, slots of the process table
  Regs,      \* the register contexts of a program
  FreshRegs, \* the registers a newly loaded program starts with
  Images     \* the contents of a user address space

VARIABLES
  status,    \* "none", "live", "waiting", "sleeping" or "exited"
  parent,    \* the process that forked this one
  awaited,   \* the child a waiting process waits for
  ctx,       \* the registers, as the process itself sees them
  mem        \* the address space, as the process itself sees it

vars == <<status, parent, awaited, ctx, mem>>

Init ==
  /\ status = [p \in Pids |-> IF p = 0 THEN "live" ELSE "none"]
  /\ parent = [p \in Pids |-> 0]
  /\ awaited = [p \in Pids |-> 0]
  /\ ctx = [p \in Pids |-> FreshRegs]
  /\ mem \in [Pids -> Images]

(* What the kernel gives back of registers r when it is left.              *)
Kept(r) == [r EXCEPT !.lo = 0]

(* A program computes: its own registers and its own memory change.        *)
Work(p) ==
  /\ status[p] = "live"
  /\ \E r \in Regs : ctx' = [ctx EXCEPT ![p] = r]
  /\ \E m \in Images : mem' = [mem EXCEPT ![p] = m]
  /\ UNCHANGED <<status, parent, awaited>>

(* The child c starts as a copy of p; fork returns 0 to the child and the  *)
(* child's identifier to the parent.                                       *)
Fork(p, c) ==
  /\ status[p] = "live"
  /\ status[c] = "none"
  /\ status' = [status EXCEPT ![c] = "live"]
  /\ parent' = [parent EXCEPT ![c] = p]
  /\ ctx' = [ctx EXCEPT ![c] = [Kept(ctx[p]) EXCEPT !.v0 = 0],
                        ![p] = [Kept(ctx[p]) EXCEPT !.v0 = c]]
  /\ mem' = [mem EXCEPT ![c] = mem[p]]
  /\ UNCHANGED awaited

(* A new program replaces the caller's memory and registers.               *)
Exec(p) ==
  /\ status[p] = "live"
  /\ ctx' = [ctx EXCEPT ![p] = FreshRegs]
  /\ \E m \in Images : mem' = [mem EXCEPT ![p] = m]
  /\ UNCHANGED <<status, parent, awaited>>

(* p waits for its child c, which has not exited.                          *)
Wait(p, c) ==
  /\ status[p] = "live"
  /\ parent[c] = p
  /\ status[c] \notin {"none", "exited"}
  /\ status' = [status EXCEPT ![p] = "waiting"]
  /\ awaited' = [awaited EXCEPT ![p] = c]
  /\ ctx' = [ctx EXCEPT ![p] = Kept(ctx[p])]
  /\ UNCHANGED <<parent, mem>>

Sleep(p) ==
  /\ status[p] = "live"
  /\ status' = [status EXCEPT ![p] = "sleeping"]
  /\ ctx' = [ctx EXCEPT ![p] = Kept(ctx[p])]
  /\ UNCHANGED <<parent, awaited, mem>>

(* The kernel is entered while p runs, by an interrupt or by a call that   *)
(* returns at once; a tick of the clock may wake any of the sleepers.      *)
Interrupt(p, S) ==
  /\ status[p] = "live"
  /\ \A q \in S : status[q] = "sleeping"
  /\ status' = [q \in Pids |-> IF q \in S THEN "live" ELSE status[q]]
  /\ ctx' = [ctx EXCEPT ![p] = Kept(ctx[p])]
  /\ UNCHANGED <<parent, awaited, mem>>

(* The parent goes on in the same step when it waits for p.                *)
Exit(p) ==
  /\ p # 0
  /\ status[p] = "live"
  /\ status' = [q \in Pids |->
                  CASE q = p -> "exited"
                    [] q = parent[p] /\ status[q] = "waiting" /\ awaited[q] = p -> "live"
                    [] OTHER -> status[q]]
  /\ ctx' = [ctx EXCEPT ![p] = Kept(ctx[p])]
  /\ UNCHANGED <<parent, awaited, mem>>

Next ==
  \/ \E p \in Pids : Work(p) \/ Exec(p) \/ Sleep(p) \/ Exit(p)
  \/ \E p, c \in Pids : Fork(p, c) \/ Wait(p, c)
  \/ \E p \in Pids : \E S \in SUBSET Pids : Interrupt(p, S)

Spec == Init /\ [][Next]_vars
==============================================================================
