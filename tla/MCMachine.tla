------------------------------- MODULE MCMachine ------------------------------
(* Programs for Machine, with bytes of three bits, on operands around      *)
(* every boundary; every instruction as a process behind a descriptor      *)
(* table of three entries: 0..31 is at 128, 32..63 at 64, and the kernel's *)
(* addresses from 512 on at 160.                                           *)
EXTENDS Requests, TLC

MCRegs == 0..14
MCHome == [v \in 0..63 |-> IF v < 32 THEN 128 + v ELSE 32 + v]
MCWindow == [v \in 512..607 |-> v - 352]
Base == 176                      \* where the descriptor table is

Boundary == {0, 1, 6, 2047, 2048, 4094, 4095}

Cpr(base) == [c \in CprNumbers |-> IF c = GDTBASE THEN base ELSE 0]

(* Memory: bytes that differ, and the descriptor table.                    *)
Entry(paddr, vaddr, size) == <<paddr, vaddr, size, 1>>
Table == Entry(128, 0, 32) \o Entry(64, 32, 32) \o Entry(160, 512, 96)
Memory0 == [a \in 0..255 |->
              IF a \in Base..Base + 47 THEN ByteOf(Table[(a - Base) \div 4 + 1], a % 4)
              ELSE IF a < Base THEN (3 * a + a \div 8) % 8 ELSE 0]
Disk0 == [a \in 0..15 |-> (a + 5) % 8]

Zeros == [r \in MCRegs |-> 0]
Operands(a, b) == [Zeros EXCEPT ![A0] = a, ![A1] = b]

Start(name, code, at, regs, base) ==
  [name |-> name, code |-> code, pc |-> at, gpr |-> regs,
   mem |-> Memory0, disk |-> Disk0, cpr |-> Cpr(base)]
Program(name, instructions, regs) == Start(name, Placed(0, instructions), 0, regs, 0)

MacroPrograms ==
  {Program(name, Compared(name, A0, A1, 1), Operands(a, b)) :
      name \in DOMAIN Comparisons, a \in Boundary, b \in Boundary}
    \cup {Program("bnaln", bnaln(A0, 1), Operands(a, 0)) : a \in 0..7 \cup Boundary}
    \cup {Program("baln", baln(A0, 1), Operands(a, 0)) : a \in 0..7 \cup Boundary}
    \cup {Program("sovlp", sovlp(T1, A0, A1, A2), [Operands(a, b) EXCEPT ![A2] = n]) :
            a \in 16..20, b \in 16..20, n \in 0..3}
    \cup {Program("lli", lli(T0, w), Operands(w, 0)) : w \in Boundary \cup {63, 64, 2016}}

ArithmeticPrograms ==
  {Program(op, <<R(op, 0, A0, A1)>>, Operands(a, b)) :
      op \in {"MULT", "MULTU", "DIV", "DIVU"}, a \in Boundary, b \in Boundary}

CallPrograms ==
  {Program("call", Calling(i), [Zeros EXCEPT ![A0] = 16, ![T1] = 4095]) :
      i \in {[Reserved EXCEPT !.op = "JAL", !.im = 4], R("JALR", Ra, A0, 0), I("BGEZAL", 0, A1, 3)}}

CopyPrograms ==
  {Program("MEMWORDCPY", MEMWORDCPY, [Zeros EXCEPT ![A0] = d, ![A1] = s, ![A2] = n, ![Ra] = 140]) :
      d \in {40, 42, 44, 48, 56}, s \in {44, 45, 52}, n \in 0..3}

(* Reads of a file at item 16, or of none there, into the memory of each   *)
(* process, beyond it and over the ports; and forks.                       *)
ReadPrograms ==
  {[Program("FS_READ", FS_READ, [Zeros EXCEPT ![V0] = 16, ![S1] = buf, ![S2] = cnt])
      EXCEPT !.mem = Put(Put(Put(Memory0, PROC, 4, pid), 16, 4, name), 20, 4, sector)] :
      pid \in {1, 3, 7}, name \in {0, 9}, sector \in {0, 2, 3}, buf \in {0, 3, 30}, cnt \in {0, 3, 4, 10}}

ForkPrograms ==
  {Program("PROC_FORK", PROC_FORK, [Zeros EXCEPT ![T2] = pids[1], ![S0] = pids[2]]) :
      pids \in {p \in (0..7) \X (0..7) : p[1] # p[2]}}

(* File tables with names that collide, at the end of the table too, and a *)
(* name that is added twice; those that collide at its beginning stay in   *)
(* it, as the kernel's do.                                                 *)
FileList(names) == [k \in DOMAIN names |-> [name |-> names[k], sector |-> 10 * k]]
FileLists ==
  [1..2 -> {3, 4, 8}]
    \cup {<<3, 8, 3>>, <<8, 3, 8>>, <<3, 8, 13>>, <<4, 9, 14, 19>>, <<1, 3, 5>>}
FileQueries ==
  {<<FileList(names), name>> : names \in FileLists, name \in {3, 8, 19}}
    \cup {<<FileList(<<5, 10>>), name>> : name \in {5, 7, 10}}

(* The memory behind the items a program may look at is not free.          *)
FilePrograms ==
  {[Start("files", Placed(0, FilesCode(files, name)), FilesBegin, Zeros, 0)
      EXCEPT !.mem = [a \in 0..255 |-> IF a \in Items(Reached(files, name)) THEN 0 ELSE 5]]
        @@ [files |-> files, query |-> name] : <<files, name>> \in FileQueries}

(* Each instruction in the last word of the first segment or the first of  *)
(* the second, as a process; or at address 28 without translation.         *)
Instructions ==
  {R(op, V0, A0, A1) : op \in {"ADD", "ADDU", "AND", "NOR", "OR", "SLLV", "SLT", "SLTU", "SRLV",
                               "SUB", "SUBU", "XOR", "DIV", "DIVU", "MULT", "MULTU", "MTHI", "MTLO",
                               "MFHI", "MFLO", "JR", "JALR", "SYNC", "NONE", "SRA"}}
    \cup {Shift(op, V0, A0, n) : op \in {"SLL", "SRL"}, n \in {0, 3, 11}}
    \cup {I(op, A1, A0, n) : op \in {"ADDI", "ADDIU", "ANDI", "LUI", "ORI", "SLTI", "SLTIU", "XORI",
                                     "BEQ", "BNE", "BGEZ", "BLTZ", "BGEZAL"}, n \in {-4, 3}}
    \cup {I(op, A1, A2, n) : op \in {"LW", "SW", "LB", "SB"}, n \in {-8, -4, -1, 0, 4}}
    \cup {[Reserved EXCEPT !.op = op, !.im = n] : op \in {"J", "JAL"}, n \in {0, 15}}
    \cup {R("RDPGPR", T0, 0, A0), R("WRPGPR", A0, 0, A0), R("MFC0", PFLA, 0, V0)}

ProcessPrograms ==
  {Start("process", Placed(MCHome[at], <<i>>) @@ Placed(MCHome[at + 4], <<I("ADDIU", V0, V0, 1)>>),
         at, [Operands(a, b) EXCEPT ![A2] = 36, ![T0] = 9], Base) :
      i \in Instructions, at \in {28, 32}, a \in {0, 4095, 24}, b \in {12, 2048, 4095}}

(* A process that stores outside its addresses, to other memory, to the    *)
(* command of a port, to the table, beyond memory, and to the same by the  *)
(* addresses of the kernel.                                                *)
EscapePrograms ==
  {Start("escape", Placed(MCHome[0], <<I(op, T0, A0, 0), R("MFC0", PFLA, 0, V0), R("MTC0", MMUD, 0, T0)>>),
         0, [Zeros EXCEPT ![A0] = v, ![T0] = 2], Base) :
      op \in {"SW", "SB"}, v \in {64, 100, 160, 180, 224, 240, 254, 255, 256, 511, 512, 540, 576, 592, 604, 608, 4095}}

(* A table beyond memory, or with an entry beyond it, until the program    *)
(* takes it away; and a program that runs over the end of the addresses    *)
(* (main_loop does not look at what mem_read returns, and what it executes *)
(* there is undefined: nops).                                              *)
EdgePrograms ==
  {Start("wild", Placed(40, <<R("MTC0", GDTBASE, 0, 0)>>), 0, Zeros, 300),
   Start("wild", Placed(40, <<R("MTC0", GDTBASE, 0, 0)>>), 0, Zeros, 232),
   Start("end", Placed(4088, <<Nop, Nop>>), 4088, Zeros, 0)}

MCStarts ==
  MacroPrograms \cup ArithmeticPrograms \cup CallPrograms \cup CopyPrograms \cup ReadPrograms
    \cup ForkPrograms \cup FilePrograms \cup ProcessPrograms \cup EscapePrograms \cup EdgePrograms
===============================================================================
