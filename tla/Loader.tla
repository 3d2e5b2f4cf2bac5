-------------------------------- MODULE Loader --------------------------------
(***************************************************************************)
(* The assembler and the processor together: what the emulator makes of    *)
(* the words the assembler writes (the decoder of memu/decode.c and the    *)
(* fields each instruction of memu/inst.c reads), compared with what the   *)
(* source says.                                                            *)
(***************************************************************************)
EXTENDS Mass

D == INSTANCE Decode

-----------------------------------------------------------------------------
(* The processor's reading of a word.                                      *)

(* The emulator's names of the single precision instructions.              *)
MemuName(op) ==
  CASE op = "ADD_S" -> "ADD_FMT" [] op = "SUB_S" -> "SUB_FMT" [] op = "MUL_S" -> "MUL_FMT"
    [] op = "DIV_S" -> "DIV_FMT" [] op = "MOV_S" -> "MOV_FMT" [] op = "CVT_S_W" -> "CVT_S_FMT"
    [] op = "CVT_W_S" -> "CVT_W_FMT" [] op = "MOVE" -> "OR" [] op = "NOP" -> "SLL"
    [] OTHER -> op

SignExtend16(n) == IF n < 32768 THEN n ELSE n - 65536

branch_target(w, pc) == pc + 4 + 4 * SignExtend16(D!Imm(w))

(* The program is below 2^28, so that the upper bits of PC are zero.       *)
jump_target(w) == 4 * D!Target(w)

(* The instructions the processor has a function for; the others stop it.  *)
Implemented ==
  {"ADD", "ADDI", "ADDIU", "ADDU", "AND", "ANDI", "BEQ", "BGEZ", "BGEZAL", "BLTZ", "BNE",
   "DIV", "DIVU", "ERET", "J", "JAL", "JALR", "JR", "LB", "LUI", "LW", "MFC0", "MFHI",
   "MFLO", "MTC0", "MTHI", "MTLO", "MULT", "MULTU", "NOR", "OR", "ORI", "RDPGPR", "SB",
   "SLL", "SLLV", "SLT", "SLTI", "SLTIU", "SLTU", "SRL", "SRLV", "SUB", "SUBU", "SW",
   "SYNC", "SYSCALL", "WAIT", "WRPGPR", "XOR", "XORI"}

(* The register jalr links, whatever its rd field says.                    *)
RA == 31

(* The operands an instruction reads from its word, in the order of the    *)
(* source; the last is where it goes if it is a branch or a jump.          *)
OperandsRead(op, w, pc) ==
  CASE op \in rd_rs_rt -> <<w.rd, w.rs, w.rt>>
    [] op \in rs_rt -> <<w.rs, w.rt>>
    [] op \in rd_rs -> <<RA, w.rs>>
    [] op \in rs_only -> <<w.rs>>
    [] op \in rd_only -> <<w.rd>>
    [] op \in rd_rt_sa -> <<w.rd, w.rt, w.sa>>
    [] op \in rd_rt_rs -> <<w.rd, w.rt, w.rs>>
    [] op \in rt_rs_im -> <<w.rt, w.rs, D!Imm(w)>>
    [] op \in rs_rt_label -> <<w.rs, w.rt, branch_target(w, pc)>>
    [] op \in rs_label -> <<w.rs, branch_target(w, pc)>>
    [] op \in rt_im_rs -> <<w.rt, D!Imm(w), w.rs>>
    [] op \in rt_im -> <<w.rt, D!Imm(w)>>
    [] op \in j_label -> <<jump_target(w)>>
    [] op \in cp0_rt_rd -> <<w.rt, w.rd>>
    [] op \in cp0_rd_rt -> <<w.rd, w.rt>>
    [] op \in fd_fs_ft -> <<w.sa, w.rd, w.rt>>
    [] op \in ft_fs -> <<w.rt, w.rd>>
    [] op \in fd_fs -> <<w.sa, w.rd>>
    [] op = "MOVE" -> <<w.rd, w.rs>>
    [] OTHER -> <<>>

(* The value that lui and ori, or addiu from $zero, leave in a register,   *)
(* as a pair of 16 bits; "garbage" if the words are not these.             *)
Loads(r, ws) ==
  CASE Len(ws) = 2 /\ D!decode(ws[1]) = "LUI" /\ D!decode(ws[2]) = "ORI"
         /\ ws[1].rt = r /\ ws[2].rs = r /\ ws[2].rt = r -> <<D!Imm(ws[1]), D!Imm(ws[2])>>
    [] Len(ws) = 1 /\ D!decode(ws[1]) = "ADDIU" /\ ws[1].rs = 0 /\ ws[1].rt = r ->
         <<IF D!Imm(ws[1]) < 32768 THEN 0 ELSE 65535, D!Imm(ws[1])>>
    [] OTHER -> <<"garbage">>

-----------------------------------------------------------------------------
(* What the source says.                                                   *)

Size(l) ==
  CASE l.op \in {"BLT", "LLA"} -> 8
    [] l.op = "LI" -> IF l.args[2][1] # 0 THEN 8 ELSE 4
    [] l.op \in {".dup"} -> 4 * l.args[1]
    [] l.op = ".offset" -> l.args[1]
    [] l.op = "label" -> 0
    [] OTHER -> 4

(* Where each line is, and what its label stands for.                      *)
LineAddrs(s) == LET f[i \in 1..Len(s) + 1] ==
                      IF i = 1 THEN 0 ELSE f[i - 1] + Size(s[i - 1])
                IN  f
LineAddr == LineAddrs(source)

(* A program is below 2^28, as jump_target says.                           *)
ASSUME SmallSources ==
  \A s \in Sources : \A i \in 1..Len(s) + 1 : LineAddrs(s)[i] < 268435456

(* The lines before the one that stops the parser, if there is one.        *)
Readable == {i \in DOMAIN source : \A j \in 1..i : source[j].op \in Statements}

LabelAddr(l) ==
  LineAddr[CHOOSE i \in Readable : source[i].op = "label" /\ source[i].label = l.label]

(* The operands of a line: a label stands for its address, a negative      *)
(* immediate for its 16 bits.                                              *)
FitsLow16(n) == -32768 <= n /\ n < 65536
Low16(n) == IF FitsLow16(n) /\ n < 0 THEN n + 65536 ELSE n

Operands(l) ==
  CASE l.op \in rs_rt_label -> <<l.args[1], l.args[2], LabelAddr(l)>>
    [] l.op \in rs_label -> <<l.args[1], LabelAddr(l)>>
    [] l.op \in j_label -> <<LabelAddr(l)>>
    [] l.op \in rt_rs_im -> <<l.args[1], l.args[2], Low16(l.args[3])>>
    [] l.op \in rt_im_rs -> <<l.args[1], Low16(l.args[2]), l.args[3]>>
    [] l.op \in rt_im -> <<l.args[1], Low16(l.args[2])>>
    [] OTHER -> l.args

(* The immediate of an instruction that has one fits its 16 bits, a shift  *)
(* amount its 5.                                                           *)
ImmediateFits(l) ==
  CASE l.op \in rt_rs_im -> FitsLow16(l.args[3])
    [] l.op \in rt_im_rs \cup rt_im -> FitsLow16(l.args[2])
    [] l.op \in rd_rt_sa -> 0 <= l.args[3] /\ l.args[3] < 32
    [] OTHER -> TRUE

(* A branch reaches 2^15 instructions back and 2^15 - 1 ahead.             *)
InRange(l, at) ==
  LET distance == (LabelAddr(l) - at - 4) \div 4
  IN  -32768 <= distance /\ distance < 32768

(* What a line means, if the words at its address are ws.                  *)
Means(l, at, ws) ==
  CASE l.op = "LI" -> Loads(l.args[1], ws) = l.args[2]
    [] l.op = "LLA" -> Loads(l.args[1], ws) = <<LabelAddr(l) \div 65536, LabelAddr(l) % 65536>>
    [] OTHER -> /\ D!decode(ws[1]) = MemuName(l.op)
                /\ D!decode(ws[1]) \in Implemented
                /\ OperandsRead(l.op, ws[1], at) = Operands(l)

Loaded(i) ==
  LET at == LineAddr[i]
      n == Size(source[i]) \div 4
  IN  Means(source[i], at, [k \in 1..n |-> Output[at + 4 * (k - 1)]])

-----------------------------------------------------------------------------
(* Properties.                                                             *)

(* The lines whose words do not say what the source does: the rt field of  *)
(* bgez is that of bltz (bingen.c:69 with mass.y:332), in blt too (409),   *)
(* li of 0x8000 to 0xffff is sign-extended (423), and the distance of a    *)
(* branch is cut to 16 bits (symbol.c:163), as an immediate is, and a      *)
(* shift amount to 5 (bingen.c:296, bingen.c:312); and the instructions    *)
(* that the processor has no function for (inst.c:242-463), or that links  *)
(* another register than it is told to (inst.c:854).                       *)
Miscoded(i) ==
  LET l == source[i]
  IN  \/ l.op \in {"BGEZ", "BLT"}
      \/ l.op = "LI" /\ l.args[2][1] = 0 /\ l.args[2][2] >= 32768
      \/ l.op \in rs_rt_label \cup rs_label /\ ~InRange(l, LineAddr[i])
      \/ ~ImmediateFits(l)
      \/ l.op \in Instructions \ pseudo /\ MemuName(l.op) \notin Implemented
      \/ l.op = "JALR" /\ l.args[1] # RA

(* The processor runs the program the source describes, as far as the      *)
(* parser came, except for exactly these lines: every other one in the     *)
(* output decodes, at the address it is loaded at, to the instruction and  *)
(* the operands it was written with, and a branch, a jump or an address    *)
(* goes to the label, wherever the label is declared (bingen.c:285-381,    *)
(* symbol.c:142-178, decode.c:804-850).                                    *)
RunsSource ==
  status = "written" =>
    \A i \in Readable :
      source[i].op \in Instructions /\ LineAddr[i] >= buf_offset =>
        (Loaded(i) <=> ~Miscoded(i))

(* A source has a meaning if all of it is in the grammar and no label is   *)
(* declared twice or referenced and not declared, and no offset unaligned. *)
Declared(name) == {i \in Readable : source[i].op = "label" /\ source[i].label = name}
Referenced(name) ==
  {i \in Readable : /\ source[i].op \in rs_rt_label \cup rs_label \cup j_label \cup {"BLT", "LLA"}
                    /\ source[i].label = name}
Consistent ==
  /\ \A name \in Labels : \A i, j \in Declared(name) : i = j
  /\ \A name \in Labels : Referenced(name) # {} => Declared(name) # {}
  /\ \A i \in Readable : source[i].op = ".offset" => source[i].args[1] % 4 = 0
HasMeaning == Consistent /\ Readable = DOMAIN source

(* The parser stops at a token that is none.                               *)
StopsAtToken ==
  \E i \in DOMAIN source : /\ source[i].op = "bad token"
                           /\ \A j \in 1..(i - 1) : source[j].op \in Statements

(* An error message comes for exactly the sources that have no meaning     *)
(* (symbol.c:119, symbol.c:149, mass.y:173, mass.c:54, mass.lex:204).  But *)
(* it keeps the output from being written only if it is about a label, an  *)
(* offset or a token: at a syntax error the lines before it are written.   *)
Diagnoses ==
  /\ status \in {"written", "failed"} => (message <=> ~HasMeaning)
  /\ status = "failed" => ~Consistent \/ StopsAtToken
  /\ status = "written" => Consistent /\ ~StopsAtToken
===============================================================================
