-------------------------------- MODULE Requests -------------------------------
(***************************************************************************)
(* Where the kernel asks a port for something, as programs on Machine:     *)
(* FS_READ of os/filesystem.lib, from the return of its lookup to          *)
(* FS_READEND, and the copy of the user space in PROC_FORK of os/proc.lib. *)
(*                                                                         *)
(* The memory of a process begins at its number times PROC_USRSPACE_SIZE.  *)
(* The kernel's own addresses are physical ones here (it adds 24M to them, *)
(* and its table takes 24M away); the frame register points to the words   *)
(* of the port and not to the system information around them.              *)
(*                                                                         *)
(* The copy is complete when the store of the command is, as hdd_read and  *)
(* mem_write call memcpy (mem.c:174-187, 198-208, hdd.c:43-51), although   *)
(* spec.txt:79 has reads and writes of the disk asynchronous.              *)
(***************************************************************************)
EXTENDS Files

CONSTANTS
  PROC,                    \* the address of the number of the current process
  PROC_USRSPACE_LOG_SIZE,
  HDD_SECT_LOG_SIZE

T2 == 12
S0 == 13
FP == 14

PROC_USRSPACE_SIZE == Power2[PROC_USRSPACE_LOG_SIZE]

ASSUME RequestsAssumption ==
  /\ {T2, S0, FP} \subseteq Regs \ {Ra}
  /\ PROC_USRSPACE_LOG_SIZE \in 0..WordBits - 1
  /\ HDD_SECT_LOG_SIZE \in 0..WordBits - 1 /\ Power2[HDD_SECT_LOG_SIZE] = SectorSize
  /\ PROC \in Nat /\ PROC + 4 <= MemSize /\ Apart(PROC, 4)

(* Behind the lookup: the item is in $v0, the buffer in $s1, the count of  *)
(* bytes in $s2; 20 is FS_READERR and 21 FS_READEND.                       *)
FS_READ ==
  <<I("LW", T0, V0, 0)>> \o Branch("BEQ", T0, 0, 17)
    \o lli(FP, PROC)
    \o <<I("LW", T0, FP, 0), Shift("SLL", T0, T0, PROC_USRSPACE_LOG_SIZE), R("ADD", T0, T0, S1)>>
    \o lli(FP, HddPort)
    \o <<I("SW", T0, FP, 4), I("LW", T0, V0, 4), I("SW", T0, FP, 8)>>
    \o <<Shift("SRL", T0, S2, HDD_SECT_LOG_SIZE), I("SW", T0, FP, 12)>>
    \o <<I("ORI", T0, 0, 1), I("SW", T0, FP, 0), R("AND", V0, 0, 0)>> \o J(21)
    \o <<I("ADDI", V0, 0, -1)>>

(* The number of the current process is in $t2, that of the new in $s0.    *)
PROC_FORK ==
  <<Shift("SLL", T2, T2, PROC_USRSPACE_LOG_SIZE), Shift("SLL", T0, S0, PROC_USRSPACE_LOG_SIZE)>>
    \o lli(FP, DmaPort) \o <<I("SW", T0, FP, 4), I("SW", T2, FP, 8)>>
    \o lli(T0, PROC_USRSPACE_SIZE) \o <<I("SW", T0, FP, 12)>>
    \o <<I("ORI", T0, 0, 1), I("SW", T0, FP, 0)>>

(* An item of the file table is not in a port, and processes have memory.  *)
ASSUME NamedRequests ==
  \A s \in Starts :
    /\ s.name = "FS_READ" =>
         Begins(s, FS_READ) /\ s.gpr[V0] + 8 <= MemSize /\ Apart(s.gpr[V0], 8)
    /\ s.name = "PROC_FORK" =>
         /\ Begins(s, PROC_FORK) /\ s.gpr[T2] # s.gpr[S0]
         /\ \A r \in {T2, S0} : (s.gpr[r] + 1) * PROC_USRSPACE_SIZE <= MemSize

-----------------------------------------------------------------------------
Elsewhere(port, m) == [a \in DOMAIN m \ (port..port + 15) |-> m[a]]

UserSpace(pid) == ToWord(pid * PROC_USRSPACE_SIZE)

(* A read of a file that is there brings its first sectors, as many as are *)
(* whole in the count of bytes, from the disk to the buffer in the memory  *)
(* of the caller, and returns 0; of one that is not there it returns -1    *)
(* and changes nothing; the disk and the rest of memory stay as they are   *)
(* (filesystem.lib:170-188, mem.c:174-187, hdd.c:43-51).                   *)
ReadsFile ==
  LET item == start.gpr[V0]
      found == WordAt(start.mem, item) # 0
      buffer == ToWord(UserSpace(WordAt(start.mem, PROC)) + start.gpr[S1])
      sectors == start.gpr[S2] \div SectorSize
      read == Copy(start.mem, buffer, start.disk, WordAt(start.mem, item + 4) * SectorSize,
                   sectors * SectorSize)
  IN  Ended("FS_READ") =>
        /\ gpr[V0] = IF found THEN 0 ELSE WordSpace - 1
        /\ IF found THEN Elsewhere(HddPort, mem) = Elsewhere(HddPort, read) ELSE mem = start.mem
        /\ disk = start.disk

(* After a fork the memory of the new process is that of its parent, and   *)
(* no other has changed (proc.lib:197-205, mem.c:196-208).                 *)
SpaceCopied ==
  LET parent == start.gpr[T2] * PROC_USRSPACE_SIZE
      child == start.gpr[S0] * PROC_USRSPACE_SIZE
  IN  Ended("PROC_FORK") =>
        /\ \A k \in 0..PROC_USRSPACE_SIZE - 1 : mem[child + k] = mem[parent + k]
        /\ \A a \in DOMAIN mem \ (DmaPort..DmaPort + 15) :
             a \notin child..child + PROC_USRSPACE_SIZE - 1 => mem[a] = start.mem[a]
        /\ disk = start.disk
===============================================================================
