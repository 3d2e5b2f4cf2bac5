------------------------------- MODULE Programs -------------------------------
(***************************************************************************)
(* Code that runs on Machine: the macros of inc/pseudo_inst.inc, expanded  *)
(* with the delay slots of inc/jmp_fix.inc, MEMWORDCPY of lib/string.lib,  *)
(* and calls; and what each of them is for.  A process runs behind a       *)
(* descriptor table that places its addresses anywhere in memory.          *)
(*                                                                         *)
(* Every table of the kernel has a second entry (os/procinfo.b:14-17): it  *)
(* places the addresses from 24M to 32M, where the kernel's code and data  *)
(* are, at the beginning of memory, for the process as well.               *)
(***************************************************************************)
EXTENDS Machine, Sequences, FiniteSets

CONSTANTS
  Space,         \* the addresses of a process are 0..Space - 1
  Home,          \* where the table places each of them
  Window         \* where it places the addresses of the kernel

ASSUME ProgramsAssumption ==
  /\ Byte >= 8 /\ 0..7 \subseteq Regs /\ Ra \notin 0..7
  /\ Space \in 4..MemSize
  /\ Home \in [0..Space - 1 -> 0..MemSize - 1]
  /\ \A u, v \in 0..Space - 1 : Home[u] = Home[v] => u = v
  /\ \A v \in 0..Space - 1 : Home[v] \notin {HddPort, DmaPort}
  /\ \A v \in DOMAIN Window : v \in Space..WordSpace - 1 /\ Window[v] \in 0..MemSize - 1

(* The kernel keeps the table where the process does not reach it, and the *)
(* process neither looks at its base nor replaces it.                      *)
ASSUME ProcessAssumption ==
  \A s \in Starts :
    s.name = "process" =>
      /\ \A v \in 0..Space - 1, i \in 0..GdtSize - 1 : Home[v] - (s.cpr[GDTBASE] + 16 * i) \notin 0..15
      /\ \A a \in DOMAIN s.code :
           s.code[a].op \in {"MFC0", "MTC0"} => s.code[a].rd \notin {GDTBASE, MMUD}

-----------------------------------------------------------------------------
(* Instructions, with names for their registers.                           *)

AT == 1
V0 == 2
A0 == 3
A1 == 4
A2 == 5
T0 == 6
T1 == 7

R(op, rd, rs, rt) == [op |-> op, rs |-> rs, rt |-> rt, rd |-> rd, sa |-> 0, im |-> 0]
Shift(op, rd, rt, sa) == [op |-> op, rs |-> 0, rt |-> rt, rd |-> rd, sa |-> sa, im |-> 0]
I(op, rt, rs, n) == [op |-> op, rs |-> rs, rt |-> rt, rd |-> 0, sa |-> 0, im |-> n % Half]

Nop == Shift("SLL", 0, 0, 0)
Branch(op, rs, rt, n) == <<I(op, rt, rs, n + 1), Nop>>     \* n behind the nop
J(index) == <<[Nop EXCEPT !.op = "J", !.im = index], Nop>>
Jr(r) == <<R("JR", 0, r, 0), Nop>>

(* Instructions from address a on.                                         *)
Placed(a, code) == [p \in {a + 4 * (k - 1) : k \in DOMAIN code} |-> code[(p - a) \div 4 + 1]]

-----------------------------------------------------------------------------
(* inc/pseudo_inst.inc                                                     *)

(* blt ... bgeu: a comparison, perhaps of the second operand with the      *)
(* first, into $at, and a branch on what it finds.                         *)
Comparisons ==
  LET M(cmp, swapped, branch) == [cmp |-> cmp, swapped |-> swapped, branch |-> branch]
  IN  [blt |-> M("SLT", FALSE, "BNE"), bltu |-> M("SLTU", FALSE, "BNE"),
       ble |-> M("SLT", TRUE, "BEQ"),  bleu |-> M("SLTU", TRUE, "BEQ"),
       bgt |-> M("SLT", TRUE, "BNE"),  bgtu |-> M("SLTU", TRUE, "BNE"),
       bge |-> M("SLT", FALSE, "BEQ"), bgeu |-> M("SLTU", FALSE, "BEQ")]

Compared(name, r1, r2, n) ==
  LET m == Comparisons[name]
  IN  <<IF m.swapped THEN R(m.cmp, AT, r2, r1) ELSE R(m.cmp, AT, r1, r2)>>
        \o Branch(m.branch, AT, 0, n)

bnaln(rs, n) ==
  <<Shift("SRL", AT, rs, 2), Shift("SLL", AT, AT, 2)>> \o Branch("BNE", AT, rs, n)
baln(rs, n) ==
  <<Shift("SRL", AT, rs, 2), Shift("SLL", AT, AT, 2)>> \o Branch("BEQ", AT, rs, n)

lli(r1, w) == <<I("LUI", r1, 0, w \div Half), I("ORI", r1, r1, w % Half)>>

(* Variant: only one end is compared. *)
OneEnd(r1, raddr1, raddr2, rsize) ==
  <<R("ADD", r1, raddr1, rsize), R("SLTU", r1, raddr2, r1)>>

sovlp(r1, raddr1, raddr2, rsize) ==
  <<R("ADD", r1, raddr1, rsize), R("SLTU", r1, raddr2, r1),
    R("ADD", AT, raddr2, rsize), R("SLTU", AT, raddr1, AT),
    R("AND", r1, r1, AT)>>

-----------------------------------------------------------------------------
(* Programs.                                                               *)

(* MEMWORDCPY of lib/string.lib, at address 0: 16 is MWCP1, 25 MWCPSUCC,   *)
(* 28 MWCPERR and 29 MWCPEND.                                              *)
MEMWORDCPY ==
  bnaln(A0, 24) \o bnaln(A1, 20)
    \o <<Shift("SLL", T0, A2, 2)>> \o sovlp(T1, A0, A1, T0) \o Branch("BNE", T1, 0, 12)
    \o Branch("BEQ", A2, 0, 7)
    \o <<I("LW", T0, A1, 0), I("SW", T0, A0, 0)>>
    \o <<I("ADDI", A0, A0, 4), I("ADDI", A1, A1, 4), I("ADDI", A2, A2, -1)>> \o J(16)
    \o <<R("AND", V0, 0, 0)>> \o J(29)
    \o <<I("ADDI", V0, 0, -1)>>
    \o Jr(Ra)

(* A call of the subroutine at index 4, with something in its delay slot.  *)
Calling(instruction) ==
  <<instruction, I("ADDI", T0, T0, 1), I("ADDI", T1, T1, 1), Reserved, I("ADDI", V0, V0, 1)>>
    \o Jr(Ra)

(* The n addresses from a on are not those of a port.                      *)
Apart(a, n) ==
  \A x \in a..a + n - 1 : x \notin HddPort..HddPort + 15 /\ x \notin DmaPort..DmaPort + 15

(* The programs the properties are about, by name.                         *)
Begins(s, code) ==
  s.code = Placed(0, code) /\ s.pc = 0 /\ s.cpr[GDTBASE] = 0 /\ s.gpr[0] = 0

Arithmetic == {"MULT", "MULTU", "DIV", "DIVU"}

(* The instructions that call the subroutine of Calling.                   *)
Calls(i, regs) ==
  \/ i.op = "JAL" /\ i.im = 4
  \/ i.op = "JALR" /\ i.rs # Ra /\ regs[i.rs] = 16
  \/ i.op = "BGEZAL" /\ i.rs # Ra /\ Signed(regs[i.rs]) >= 0 /\ i.im = 3

ASSUME NamedPrograms ==
  \A s \in Starts :
    /\ s.name \in Arithmetic => Begins(s, <<R(s.name, 0, A0, A1)>>)
    /\ s.name \in DOMAIN Comparisons => Begins(s, Compared(s.name, A0, A1, 1))
    /\ s.name = "bnaln" => Begins(s, bnaln(A0, 1))
    /\ s.name = "baln" => Begins(s, baln(A0, 1))
    /\ s.name = "sovlp" => Begins(s, sovlp(T1, A0, A1, A2))
    /\ s.name = "lli" => Begins(s, lli(T0, s.gpr[A0]))
    /\ s.name = "MEMWORDCPY" =>
         /\ Begins(s, MEMWORDCPY) /\ s.gpr[Ra] \notin DOMAIN s.code
         /\ Apart(s.gpr[A0], 4 * s.gpr[A2])
         /\ \A r \in {A0, A1} : s.gpr[r] + 4 * s.gpr[A2] <= MemSize /\ s.gpr[r] + 4 * s.gpr[A2] < WordSpace
    /\ s.name = "call" => Begins(s, Calling(s.code[0])) /\ Calls(s.code[0], s.gpr)

-----------------------------------------------------------------------------
(* Properties.                                                             *)

MachineTypeOK ==
  /\ pc \in Word /\ adv1 \in Word /\ adv2 \in Word /\ hi \in Word /\ lo \in Word
  /\ gpr \in [Regs -> Word] /\ shadow \in [Regs -> Word] /\ cpr \in [CprNumbers -> Word]
  /\ mem \in [0..MemSize - 1 -> 0..Byte - 1] /\ disk \in [0..DiskSize - 1 -> 0..Byte - 1]
  /\ stop \in {"no", "exception", "crash"}

Ended(name) == stop = "exception" /\ start.name = name

(* What the names of the macros promise of their operands.                 *)
Meant(name, a, b) ==
  CASE name = "blt"  -> Signed(a) < Signed(b)  [] name = "bltu" -> a < b
    [] name = "ble"  -> Signed(a) <= Signed(b) [] name = "bleu" -> a <= b
    [] name = "bgt"  -> Signed(a) > Signed(b)  [] name = "bgtu" -> a > b
    [] name = "bge"  -> Signed(a) >= Signed(b) [] name = "bgeu" -> a >= b
    [] name = "baln" -> a % 4 = 0              [] name = "bnaln" -> a % 4 # 0

Common(a, b, n) == (a..a + n - 1) \cap (b..b + n - 1)

(* The branch macros branch when their names say, for operands on either   *)
(* side of every boundary (pseudo_inst.inc:1-48, 97-110), sovlp finds     *)
(* whether two ranges of memory have an address in common (111-120), lli   *)
(* loads any word (49-53); nothing but $at and the result changes.         *)
MacrosMeet ==
  /\ \A name \in DOMAIN Comparisons \cup {"baln", "bnaln"} :
       Ended(name) =>
         /\ pc = 4 * Cardinality(DOMAIN start.code)
                   + IF Meant(name, start.gpr[A0], start.gpr[A1]) THEN 4 ELSE 0
         /\ gpr = [start.gpr EXCEPT ![AT] = gpr[AT]]
  /\ Ended("sovlp") /\ start.gpr[A0] + start.gpr[A2] < WordSpace
       /\ start.gpr[A1] + start.gpr[A2] < WordSpace =>
         gpr = [start.gpr EXCEPT
                  ![AT] = gpr[AT],
                  ![T1] = Truth(Common(start.gpr[A0], start.gpr[A1], start.gpr[A2]) # {})]
  /\ Ended("lli") => gpr = [start.gpr EXCEPT ![T0] = start.gpr[A0]]

(* mult, multu, div and divu give the product in two words, and quotient   *)
(* and remainder that recombine to the dividend, the remainder smaller     *)
(* than the divisor and with the sign of the dividend (inst.c:742-790,     *)
(* 1066-1098).                                                             *)
ProductsAndQuotients ==
  LET a == start.gpr[A0]
      b == start.gpr[A1]
      q == Signed(lo)
      r == Signed(hi)
  IN  /\ Ended("MULT") => Signed(hi) * WordSpace + lo = Signed(a) * Signed(b)
      /\ Ended("MULTU") => hi * WordSpace + lo = a * b
      /\ Ended("DIVU") /\ b # 0 => a = lo * b + hi /\ hi < b
      /\ Ended("DIV") /\ b # 0 =>
           /\ Signed(a) = q * Signed(b) + r
           /\ Abs(r) < Abs(Signed(b))
           /\ r = 0 \/ (r < 0) = (Signed(a) < 0)

(* A call continues behind its delay slot, which has run once, whichever   *)
(* instruction made it (inst.c:488-498, 646-659, 836-877).                 *)
CallsReturn ==
  Ended("call") =>
    /\ pc = 12
    /\ \A r \in {T0, T1, V0} : gpr[r] = ToWord(start.gpr[r] + 1)

(* MEMWORDCPY copies the words, or returns -1 and copies none, the latter  *)
(* exactly if an address is not aligned or the ranges overlap              *)
(* (string.lib:5-6: "-1 on failed", "dst and src must be aligned and       *)
(* should not overlap").  What it returns after a copy is not -1 (it is 0, *)
(* string.lib:25, though the comment has "dst mem address").               *)
CopiesWords ==
  LET dst == start.gpr[A0]
      src == start.gpr[A1]
      n == 4 * start.gpr[A2]
      bad == dst % 4 # 0 \/ src % 4 # 0 \/ Common(dst, src, n) # {}
  IN  Ended("MEMWORDCPY") =>
        /\ pc = start.gpr[Ra]
        /\ gpr[V0] = WordSpace - 1 <=> bad
        /\ mem = IF bad THEN start.mem ELSE Copy(start.mem, dst, start.mem, src, n)

-----------------------------------------------------------------------------
(* Processes.                                                              *)

(* The len addresses from v on are the process's, and next to each other   *)
(* in memory too: only the first one of a word is translated.              *)
Whole(v, len) ==
  \A k \in 0..len - 1 : v + k \in 0..Space - 1 /\ Home[v + k] = Home[v] + k

Addressed(op) == {Vaddr(i) : i \in Fetched(op)}

StaysInside ==
  /\ Whole(adv1, 4)
  /\ \A v \in Addressed("LW") \cup Addressed("SW") : Whole(v, 4)
  /\ \A v \in Addressed("LB") \cup Addressed("SB") : Whole(v, 1)

(* The process as it would run alone in a memory of its own, at address 0. *)
Alone ==
  INSTANCE Machine WITH
    MemSize <- Space, HddPort <- WordSpace, DmaPort <- WordSpace,
    mem <- [v \in 0..Space - 1 |-> mem[Home[v]]],
    cpr <- [cpr EXCEPT ![GDTBASE] = 0],
    start <- [start EXCEPT !.code =
                [v \in {w \in 0..Space - 1 : Home[w] \in DOMAIN start.code} |-> start.code[Home[v]]]]

(* A process behind a descriptor table that stays within its addresses     *)
(* runs as it would alone, and changes nothing of the others: every fetch, *)
(* load, store, branch and call goes where the table places it (mmu.c:46,  *)
(* memu.c:127-133).                                                        *)
Relocated ==
  [][start.name = "process" /\ StaysInside =>
       /\ Alone!Next
       /\ \A a \in DOMAIN mem : (\A v \in 0..Space - 1 : Home[v] # a) => mem'[a] = mem[a]]_vars

(* A process that stores outside its addresses is not stopped, and may     *)
(* reach any memory and the ports.  Either the address it used is in PFLA  *)
(* after the step (mmu.c:79-87), or it is one of the kernel's, which the   *)
(* table lets pass without a trace (procinfo.b:14-17).                     *)
EscapesRecorded ==
  [][start.name \in {"process", "escape"}
       /\ (\A v \in Addressed("SW") : v >= Space \/ Whole(v, 4))
       /\ (\E a \in DOMAIN mem : mem'[a] # mem[a] /\ \A v \in 0..Space - 1 : Home[v] # a)
     => \A v \in Addressed("SB") \cup Addressed("SW") :
          v >= Space /\ (v \in DOMAIN Window \/ cpr'[PFLA] = v)]_vars
===============================================================================
