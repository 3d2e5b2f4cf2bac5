--------------------------------- MODULE Mass ---------------------------------
(***************************************************************************)
(* The assembler: the grammar actions of mass/mass.y, the encodings of     *)
(* mass/bingen.c and the label table of mass/symbol.c, for one source      *)
(* file.  The parser calls an action per line; references to labels are    *)
(* patched after it has returned, and then the output is written.  The     *)
(* parser returns after the last line or at the first one that is not in   *)
(* the grammar, and main does not ask which.                               *)
(*                                                                         *)
(* A line is [op, args, label]: an instruction with its operands in source *)
(* order, registers by number, or a directive or the declaration of a      *)
(* label, or what stops the parser.  What precedes that on its line, if it *)
(* is a whole statement, is a line of its own, as the parser reduces a     *)
(* statement before it sees that no end of line follows.  An immediate is  *)
(* a number, that of li its two halves.  A word of code is the record of   *)
(* its bit fields, as in module Decode.                                    *)
(***************************************************************************)
EXTENDS Integers, Sequences

CONSTANTS
  Sources,     \* the source files
  Labels       \* the names used in them

NULL_ADDR == -1

VARIABLES
  source,      \* the file being assembled
  line,        \* the line the parser is at
  buf,         \* the instructions assembled, by address (raw data is left out)
  pcount,      \* the address of the next word
  buf_offset,  \* the address the output starts from
  addr,        \* where each label is declared
  refs,        \* the references: [label, addr, mode]
  message,     \* whether there has been an error message
  status       \* "parsing", "stopped" at a syntax error, "written", or
               \* "failed": exit without output

vars == <<source, line, buf, pcount, buf_offset, addr, refs, message, status>>

-----------------------------------------------------------------------------
(* The grammar: which instructions take which operands.                    *)

rd_rs_rt == {"ADD", "ADDU", "AND", "NOR", "OR", "SLT", "SLTU", "SUB", "SUBU", "XOR"}
none == {"BREAK", "SYSCALL"}
rs_rt == {"DIV", "DIVU", "MULT", "MULTU"}
rd_rs == {"JALR"}
rs_only == {"JR", "MTHI", "MTLO"}
rd_only == {"MFHI", "MFLO"}
rd_rt_sa == {"SLL", "SRA", "SRL"}
rd_rt_rs == {"SLLV", "SRAV", "SRLV"}
rt_rs_im == {"ADDI", "ADDIU", "ANDI", "ORI", "SLTI", "SLTIU", "XORI"}
rs_rt_label == {"BEQ", "BNE"}
rs_label == {"BGEZ", "BGTZ", "BLEZ", "BLTZ"}
rt_im_rs == {"LB", "LBU", "LH", "LHU", "LW", "LWC1", "SB", "SH", "SW", "SWC1"}
rt_im == {"LUI"}
j_label == {"J", "JAL"}
cp0_none == {"ERET", "WAIT"}
cp0_rt_rd == {"MFC0", "MTC0"}
cp0_rd_rt == {"RDPGPR", "WRPGPR"}
fd_fs_ft == {"ADD_S", "CVT_S_W", "CVT_W_S", "DIV_S", "MUL_S", "SUB_S"}
ft_fs == {"MFC1", "MTC1"}
fd_fs == {"MOV_S"}
pseudo == {"MOVE", "NOP", "BLT", "LI", "LLA"}

Instructions ==
  UNION {rd_rs_rt, none, rs_rt, rd_rs, rs_only, rd_only, rd_rt_sa, rd_rt_rs, rt_rs_im,
         rs_rt_label, rs_label, rt_im_rs, rt_im, j_label, cp0_none, cp0_rt_rd, cp0_rd_rt,
         fd_fs_ft, ft_fs, fd_fs, pseudo}

(* What the parser takes: the statements, labels among them.               *)
Statements == Instructions \cup {"label", ".dup", ".offset"}

Registers == 0..31
Halves == {n \in Nat : n < 65536}

(* A line the grammar accepts, or one that stops the parser.  Counts of    *)
(* .dup and .offset are not negative: a program has no use for another one *)
(* (mass.y:137, mass.y:171).                                               *)
WellFormed(l) ==
  /\ l.label \in Labels
  /\ CASE l.op \in rd_rs_rt \cup rd_rt_rs \cup fd_fs_ft ->
              l.args \in Registers \X Registers \X Registers
       [] l.op \in rs_rt \cup rd_rs \cup rs_rt_label \cup cp0_rt_rd \cup cp0_rd_rt \cup ft_fs
                 \cup fd_fs \cup {"MOVE", "BLT"} -> l.args \in Registers \X Registers
       [] l.op \in rs_only \cup rd_only \cup rs_label \cup {"LLA"} ->
              \E r \in Registers : l.args = <<r>>
       [] l.op \in rd_rt_sa \cup rt_rs_im -> l.args \in Registers \X Registers \X Int
       [] l.op \in rt_im_rs -> l.args \in Registers \X Int \X Registers
       [] l.op \in rt_im -> l.args \in Registers \X Int
       [] l.op = "LI" -> l.args \in Registers \X (Halves \X Halves)
       [] l.op \in {".dup", ".offset"} -> l.args[1] \in Nat
       [] OTHER -> l.args = <<>>

(* A file is a sequence of lines.                                          *)
ASSUME SourcesAssumption ==
  \A s \in Sources :
    /\ s \in Seq({s[i] : i \in DOMAIN s})
    /\ \A i \in DOMAIN s : WellFormed(s[i])

-----------------------------------------------------------------------------
(* The encodings.                                                          *)

opcode == [
  ADDI |-> 8, ADDIU |-> 9, ANDI |-> 12, BEQ |-> 4, BGEZ |-> 1, BGTZ |-> 7, BLEZ |-> 6,
  BLTZ |-> 1, BNE |-> 5, LB |-> 32, LBU |-> 36, LH |-> 33, LHU |-> 37, LUI |-> 15,
  LW |-> 35, LWC1 |-> 49, ORI |-> 13, SB |-> 40, SLTI |-> 10, SLTIU |-> 11, SH |-> 41,
  SW |-> 43, SWC1 |-> 57, XORI |-> 14, J |-> 2, JAL |-> 3]

function == [
  ADD |-> 32, ADDU |-> 33, AND |-> 36, BREAK |-> 13, DIV |-> 26, DIVU |-> 27, JALR |-> 9,
  JR |-> 8, MFHI |-> 16, MFLO |-> 18, MTHI |-> 17, MTLO |-> 19, MULT |-> 24, MULTU |-> 25,
  NOR |-> 39, OR |-> 37, SLL |-> 0, SLLV |-> 4, SLT |-> 42, SLTU |-> 43, SRA |-> 3,
  SRAV |-> 7, SRL |-> 2, SRLV |-> 6, SUB |-> 34, SUBU |-> 35, SYSCALL |-> 12, XOR |-> 38,
  MFC0 |-> 0, MTC0 |-> 0, ERET |-> 24, WAIT |-> 32, RDPGPR |-> 0, WRPGPR |-> 0,
  ADD_S |-> 0, CVT_S_W |-> 32, CVT_W_S |-> 36, DIV_S |-> 3, MFC1 |-> 0, MOV_S |-> 6,
  MTC1 |-> 0, MUL_S |-> 2, SUB_S |-> 1]

format == [
  ERET |-> 16, WAIT |-> 16, MFC0 |-> 0, MTC0 |-> 4, RDPGPR |-> 10, WRPGPR |-> 14,
  ADD_S |-> 16, CVT_S_W |-> 20, CVT_W_S |-> 16, DIV_S |-> 16, MFC1 |-> 0, MOV_S |-> 16,
  MTC1 |-> 4, MUL_S |-> 16, SUB_S |-> 16]

(* code & ~MASK_LOW16 | v, and code & ~MASK_LOW26 | v.                     *)
PutLow16(w, v) ==
  [op |-> w.op, rs |-> w.rs, rt |-> w.rt,
   rd |-> v \div 2048, sa |-> (v \div 64) % 32, fn |-> v % 64]
PutLow26(w, v) ==
  [op |-> w.op, rs |-> v \div 2097152, rt |-> (v \div 65536) % 32,
   rd |-> (v \div 2048) % 32, sa |-> (v \div 64) % 32, fn |-> v % 64]

REG_NULL == 0
REG_AT == 1

RType(inst, rs, rt, rd, sa) ==
  [op |-> 0, rs |-> rs, rt |-> rt, rd |-> rd, sa |-> sa % 32, fn |-> function[inst]]

IType(inst, rs, rt, im) ==
  PutLow16([op |-> opcode[inst], rs |-> rs, rt |-> rt, rd |-> 0, sa |-> 0, fn |-> 0], im % 65536)

JType(inst) == [op |-> opcode[inst], rs |-> 0, rt |-> 0, rd |-> 0, sa |-> 0, fn |-> 0]

Cp0(inst, rt, rd) ==
  [op |-> 16, rs |-> format[inst], rt |-> rt, rd |-> rd, sa |-> 0, fn |-> function[inst]]

Cp1(inst, ft, fs, fd) ==
  [op |-> 17, rs |-> format[inst], rt |-> ft, rd |-> fs, sa |-> fd, fn |-> function[inst]]

(* Constants of 16 bits fit one instruction, others take two.              *)
LoadImmediate(r, v) ==
  IF v[1] # 0 THEN <<IType("LUI", 0, r, v[1]), IType("ORI", r, r, v[2])>>
              ELSE <<IType("ADDIU", 0, r, v[2])>>

(* The words an instruction statement writes.                              *)
Words(l) ==
  LET op == l.op
      a == l.args
  IN  CASE op \in rd_rs_rt -> <<RType(op, a[2], a[3], a[1], 0)>>
        [] op \in none -> <<RType(op, REG_NULL, REG_NULL, REG_NULL, 0)>>
        [] op \in rs_rt -> <<RType(op, a[1], a[2], REG_NULL, 0)>>
        [] op \in rd_rs -> <<RType(op, a[2], REG_NULL, a[1], 0)>>
        [] op \in rs_only -> <<RType(op, a[1], REG_NULL, REG_NULL, 0)>>
        [] op \in rd_only -> <<RType(op, REG_NULL, REG_NULL, a[1], 0)>>
        [] op \in rd_rt_sa -> <<RType(op, REG_NULL, a[2], a[1], a[3])>>
        [] op \in rd_rt_rs -> <<RType(op, a[3], a[2], a[1], 0)>>
        [] op \in rt_rs_im -> <<IType(op, a[2], a[1], a[3])>>
        [] op \in rs_rt_label -> <<IType(op, a[1], a[2], 0)>>
        [] op \in rs_label -> <<IType(op, a[1], REG_NULL, 0)>>
        [] op \in rt_im_rs -> <<IType(op, a[3], a[1], a[2])>>
        [] op \in rt_im -> <<IType(op, REG_NULL, a[1], a[2])>>
        [] op \in j_label -> <<JType(op)>>
        [] op \in cp0_none -> <<Cp0(op, REG_NULL, REG_NULL)>>
        [] op \in cp0_rt_rd -> <<Cp0(op, a[1], a[2])>>
        [] op \in cp0_rd_rt -> <<Cp0(op, a[2], a[1])>>
        [] op \in fd_fs_ft -> <<Cp1(op, a[3], a[2], a[1])>>
        [] op \in ft_fs -> <<Cp1(op, a[1], a[2], REG_NULL)>>
        [] op \in fd_fs -> <<Cp1(op, REG_NULL, a[2], a[1])>>
        [] op = "MOVE" -> <<RType("OR", a[2], 0, a[1], 0)>>
        [] op = "NOP" -> <<RType("SLL", REG_NULL, 0, 0, 0)>>
        [] op = "BLT" -> <<RType("SLTU", a[1], a[2], REG_AT, 0),
                           IType("BGEZ", REG_AT, REG_NULL, 0)>>
        [] op = "LI" -> LoadImmediate(a[1], a[2])
        [] op = "LLA" -> <<IType("LUI", 0, a[1], 0), IType("ORI", a[1], a[1], 0)>>

(* The references it registers; a mode is the set of its bits.  The bit    *)
(* that says that it is a reference is that of RELATIVE, too.              *)
Ref(l, at, mode) == [label |-> l.label, addr |-> at, mode |-> mode \cup {"RELATIVE"}]

References(l, pc) ==
  CASE l.op \in rs_rt_label \cup rs_label -> {Ref(l, pc, {"RELATIVE", "16_BIT"})}
    [] l.op \in j_label -> {Ref(l, pc, {"ABSOLUTE", "26_BIT"})}
    [] l.op = "BLT" -> {Ref(l, pc + 4, {"RELATIVE", "16_BIT"})}
    [] l.op = "LLA" -> {Ref(l, pc, {"ABSOLUTE", "H16_BIT"}), Ref(l, pc + 4, {"ABSOLUTE", "L16_BIT"})}
    [] OTHER -> {}

-----------------------------------------------------------------------------
Init ==
  /\ source \in Sources /\ line = 1
  /\ buf = [a \in {} |-> 0] /\ pcount = 0 /\ buf_offset = 0
  /\ addr = [l \in Labels |-> NULL_ADDR] /\ refs = {}
  /\ message = FALSE /\ status = "parsing"

At(op) == status = "parsing" /\ line <= Len(source) /\ source[line].op = op
This == source[line]

Fail ==
  /\ message' = TRUE /\ status' = "failed"
  /\ UNCHANGED <<source, line, buf, pcount, buf_offset, addr, refs>>

Instruction ==
  /\ \E op \in Instructions : At(op)
  /\ LET words == Words(This)
         last == pcount + 4 * Len(words)
     IN  /\ buf' = [a \in DOMAIN buf \cup {pcount + 4 * (i - 1) : i \in DOMAIN words} |->
                      IF a < pcount THEN buf[a] ELSE words[(a - pcount) \div 4 + 1]]
         /\ pcount' = last
  /\ refs' = refs \cup References(This, pcount)
  /\ line' = line + 1
  /\ UNCHANGED <<source, buf_offset, addr, message, status>>

(* label:  The second declaration of a label ends the assembler.           *)
Declare ==
  /\ At("label") /\ addr[This.label] = NULL_ADDR
  /\ addr' = [addr EXCEPT ![This.label] = pcount]
  /\ line' = line + 1
  /\ UNCHANGED <<source, buf, pcount, buf_offset, refs, message, status>>

DeclareTwice == At("label") /\ addr[This.label] # NULL_ADDR /\ Fail

(* .dup n .word: data                                                      *)
RawCode ==
  /\ At(".dup")
  /\ pcount' = pcount + 4 * This.args[1]
  /\ line' = line + 1
  /\ UNCHANGED <<source, buf, buf_offset, addr, refs, message, status>>

(* .offset n writes n bytes of zeros, wherever it stands.                  *)
Offset ==
  /\ At(".offset") /\ This.args[1] % 4 = 0
  /\ buf_offset' = This.args[1]
  /\ pcount' = pcount + This.args[1]
  /\ line' = line + 1
  /\ UNCHANGED <<source, buf, addr, refs, message, status>>

OffsetUnaligned == At(".offset") /\ This.args[1] % 4 # 0 /\ Fail

(* yyerror prints, and yyparse returns: the lines left are not read.       *)
SyntaxError ==
  /\ status = "parsing" /\ line <= Len(source)
  /\ This.op \notin Statements \cup {"bad token"}
  /\ message' = TRUE /\ status' = "stopped"
  /\ UNCHANGED <<source, line, buf, pcount, buf_offset, addr, refs>>

(* A token that no rule of the lexer takes but the last, which exits.      *)
BadToken == At("bad token") /\ Fail

(* yyparse has returned, and main calls mass_fini whatever it returned.    *)
ParserReturned == status = "stopped" \/ (status = "parsing" /\ line > Len(source))

(* Variant: the distance is counted from the branch itself. *)
TargetAddrFromBranch(ref) ==
  IF "ABSOLUTE" \in ref.mode THEN addr[ref.label] ELSE addr[ref.label] - ref.addr

(* Arithmetic modulo 2^32 and then 2^16 or 2^26 is arithmetic modulo the   *)
(* latter.                                                                 *)
TargetAddr(ref) ==
  IF "ABSOLUTE" \in ref.mode THEN addr[ref.label] ELSE addr[ref.label] - ref.addr - 4

Patch(w, mode, target) ==
  CASE "16_BIT" \in mode -> PutLow16(w, (target \div 4) % 65536)
    [] "H16_BIT" \in mode -> PutLow16(w, (target \div 65536) % 65536)
    [] "L16_BIT" \in mode -> PutLow16(w, target % 65536)
    [] "26_BIT" \in mode -> PutLow26(w, (target \div 4) % 67108864)

WriteBack(w, ref) == Patch(w, ref.mode, TargetAddr(ref))

(* Variant: what is not declared is left as it is. *)
UndeclaredNever(ref) == FALSE

Undeclared(ref) == addr[ref.label] = NULL_ADDR

(* mass_fini: the references are patched and the output is written.        *)
Finish ==
  /\ ParserReturned
  /\ \A ref \in refs : ~Undeclared(ref)
  /\ buf' = [a \in DOMAIN buf |->
               IF \E ref \in refs : ref.addr = a
               THEN WriteBack(buf[a], CHOOSE ref \in refs : ref.addr = a) ELSE buf[a]]
  /\ status' = "written"
  /\ UNCHANGED <<source, line, pcount, buf_offset, addr, refs, message>>

FinishUndeclared ==
  /\ ParserReturned
  /\ \E ref \in refs : Undeclared(ref)
  /\ Fail

Next ==
  \/ Instruction \/ Declare \/ DeclareTwice \/ RawCode \/ Offset \/ OffsetUnaligned
  \/ SyntaxError \/ BadToken \/ Finish \/ FinishUndeclared

Spec == Init /\ [][Next]_vars

(* The output: the words from buf_offset on, which is where it is loaded.  *)
Output == [a \in {a \in DOMAIN buf : a >= buf_offset} |-> buf[a]]
===============================================================================
