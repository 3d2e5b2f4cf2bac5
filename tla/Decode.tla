-------------------------------- MODULE Decode --------------------------------
(***************************************************************************)
(* The instruction decoder of the emulator, memu/decode.c: the tables of   *)
(* the MIPS32 manual and the functions that look a code word up in them.   *)
(*                                                                         *)
(* A word is the record [op, rs, rt, rd, sa, fn] of its bit fields 31..26, *)
(* 25..21, 20..16, 15..11, 10..6 and 5..0.  The symbols the manual marks   *)
(* entries with are left out: decode clears them.                          *)
(***************************************************************************)
EXTENDS Naturals, Sequences

Word == [op : 0..63, rs : 0..31, rt : 0..31, rd : 0..31, sa : 0..31, fn : 0..63]

(* Bits 15..0 and bits 25..0.                                              *)
Imm(w) == (w.rd * 32 + w.sa) * 64 + w.fn
Target(w) == (w.rs * 32 + w.rt) * 65536 + Imm(w)

(* Tables: a full one is a sequence, one with few entries lists the        *)
(* indices that have one.                                                  *)
Entry(table, i) == table[i + 1]

opcode2inst == <<
  "OP_SPECIAL", "OP_REGIMM", "J", "JAL", "BEQ", "BNE", "BLEZ", "BGTZ",
  "ADDI", "ADDIU", "SLTI", "SLTIU", "ANDI", "ORI", "XORI", "LUI",
  "OP_COP0", "OP_COP1", "OP_COP2", "OP_COP1X", "BEQL", "BNEL", "BLEZL", "BGTZL",
  "NONE", "NONE", "NONE", "NONE", "OP_SPECIAL2", "JALX", "NONE", "OP_SPECIAL3",
  "LB", "LH", "LWL", "LW", "LBU", "LHU", "LWR", "NONE",
  "SB", "SH", "SWL", "SW", "NONE", "NONE", "SWR", "CACHE",
  "LL", "LWC1", "LWC2", "PREF", "NONE", "LDC1", "LDC2", "NONE",
  "SC", "SWC1", "SWC2", "NONE", "NONE", "SDC1", "SDC2", "NONE" >>

special2inst == <<
  "SLL", "SPECIAL_MOVCI", "SPECIAL_SRL", "SRA", "SLLV", "NONE", "SPECIAL_SRLV", "SRAV",
  "JR", "JALR", "MOVZ", "MOVN", "SYSCALL", "BREAK", "NONE", "SYNC",
  "MFHI", "MTHI", "MFLO", "MTLO", "NONE", "NONE", "NONE", "NONE",
  "MULT", "MULTU", "DIV", "DIVU", "NONE", "NONE", "NONE", "NONE",
  "ADD", "ADDU", "SUB", "SUBU", "AND", "OR", "XOR", "NOR",
  "NONE", "NONE", "SLT", "SLTU", "NONE", "NONE", "NONE", "NONE",
  "TGE", "TGEU", "TLT", "TLTU", "TEQ", "NONE", "TNE", "NONE",
  "NONE", "NONE", "NONE", "NONE", "NONE", "NONE", "NONE", "NONE" >>

regimm2inst == <<
  "BLTZ", "BGEZ", "BLTZL", "BGEZL", "NONE", "NONE", "NONE", "NONE",
  "TGEI", "TGEIU", "TLTI", "TLTIU", "TEQI", "NONE", "TNEI", "NONE",
  "BLTZAL", "BGEZAL", "BLTZALL", "BGEZALL", "NONE", "NONE", "NONE", "NONE",
  "NONE", "NONE", "NONE", "NONE", "NONE", "NONE", "NONE", "SYNCI" >>

special22inst(i) ==
  CASE i = 0 -> "MADD" [] i = 1 -> "MADDU" [] i = 2 -> "MUL" [] i = 4 -> "MSUB"
    [] i = 5 -> "MSUBU" [] i = 32 -> "CLZ" [] i = 33 -> "CLO"
    [] i = 63 -> "SDBBP" [] OTHER -> "NONE"

special32inst(i) ==
  CASE i = 0 -> "EXT" [] i = 4 -> "INS" [] i = 32 -> "SPECIAL3_BSHFL"
    [] i = 59 -> "RDHWR" [] OTHER -> "NONE"

bshfl2inst(i) ==
  CASE i = 2 -> "WSBH" [] i = 16 -> "SEB" [] i = 24 -> "SEH" [] OTHER -> "NONE"

cop02inst(i) ==
  CASE i = 0 -> "MFC0" [] i = 4 -> "MTC0" [] i = 10 -> "RDPGPR"
    [] i = 11 -> "MFMC0" [] i = 14 -> "WRPGPR" [] i \in 16..31 -> "COP0_CO"
    [] OTHER -> "NONE"

cop0_co2inst(i) ==
  CASE i = 1 -> "TLBR" [] i = 2 -> "TLBWI" [] i = 6 -> "TLBWR"
    [] i = 8 -> "TLBP" [] i = 24 -> "ERET" [] i = 31 -> "DERET"
    [] i = 32 -> "WAIT" [] OTHER -> "NONE"

cop12inst(i) ==
  CASE i = 0 -> "MFC1" [] i = 2 -> "CFC1" [] i = 3 -> "MFHC1" [] i = 4 -> "MTC1"
    [] i = 6 -> "CTC1" [] i = 7 -> "MTHC1" [] i = 8 -> "BC1"
    [] i = 9 -> "BC1ANY2" [] i = 10 -> "BC1ANY4" [] i = 16 -> "COP1_S"
    [] i = 17 -> "COP1_D" [] i = 20 -> "COP1_W" [] i = 21 -> "COP1_L"
    [] i = 22 -> "COP1_PS" [] OTHER -> "NONE"

cop1_s2inst == <<
  "ADD_FMT", "SUB_FMT", "MUL_FMT", "DIV_FMT", "SQRT_FMT", "ABS_FMT", "MOV_FMT", "NEG_FMT",
  "ROUND_L_FMT", "TRUNC_L_FMT", "CEIL_L_FMT", "FLOOR_L_FMT",
  "ROUND_W_FMT", "TRUNC_W_FMT", "CEIL_W_FMT", "FLOOR_W_FMT",
  "NONE", "COP1_MOVCF", "MOVZ_FMT", "MOVN_FMT", "NONE", "RECIP_FMT", "RSQRT_FMT", "NONE",
  "NONE", "NONE", "NONE", "NONE", "RECIP2", "RECIP1", "RSQRT1", "RSQRT2",
  "NONE", "CVT_D_FMT", "NONE", "NONE", "CVT_W_FMT", "CVT_L_FMT", "CVT_PS_S", "NONE",
  "NONE", "NONE", "NONE", "NONE", "NONE", "NONE", "NONE", "NONE",
  "C_F_FMT", "C_UN_FMT", "C_EQ_FMT", "C_UEQ_FMT", "C_OLT_FMT", "C_ULT_FMT", "C_OLE_FMT",
  "C_ULE_FMT", "C_SF_FMT", "C_NGLE_FMT", "C_SEQ_FMT", "C_NGL_FMT", "C_LT_FMT", "C_NGE_FMT",
  "C_LE_FMT", "C_NGT_FMT" >>

(* The table for doubles has other conversions.                            *)
cop1_d2inst ==
  [cop1_s2inst EXCEPT ![33] = "CVT_S_FMT", ![34] = "NONE", ![39] = "NONE"]

cop1_w_l2inst(i) ==
  CASE i = 32 -> "CVT_S_FMT" [] i = 33 -> "CVT_D_FMT" [] i = 38 -> "CVT_PS_PW"
    [] OTHER -> "NONE"

(* The one for paired singles has fewer operations and others of its own;  *)
(* its comparisons are the same.                                           *)
cop1_ps2inst == <<
  "ADD_FMT", "SUB_FMT", "MUL_FMT", "NONE", "NONE", "ABS_FMT", "MOV_FMT", "NEG_FMT",
  "NONE", "NONE", "NONE", "NONE", "NONE", "NONE", "NONE", "NONE",
  "NONE", "COP1_MOVCF", "MOVZ_FMT", "MOVN_FMT", "NONE", "NONE", "NONE", "NONE",
  "ADDR_PS", "NONE", "MULR_PS", "NONE", "RECIP2", "RECIP1", "RSQRT1", "RSQRT2",
  "CVT_S_PU", "NONE", "NONE", "NONE", "CVT_PW_PS", "NONE", "NONE", "NONE",
  "CVT_S_PL", "NONE", "NONE", "NONE", "PLL_PS", "PLU_PS", "PUL_PS", "PUU_PS"
  >> \o SubSeq(cop1_s2inst, 49, 64)

cop22inst(i) ==
  CASE i = 0 -> "MFC2" [] i = 2 -> "CFC2" [] i = 3 -> "MFHC2" [] i = 4 -> "MTC2"
    [] i = 6 -> "CTC2" [] i = 7 -> "MTHC2" [] i = 8 -> "BC2"
    [] i \in 16..31 -> "COP2_C2" [] OTHER -> "NONE"

cop1x2inst(i) ==
  CASE i = 0 -> "LWXC1" [] i = 1 -> "LDXC1" [] i = 5 -> "LUXC1"
    [] i = 8 -> "SWXC1" [] i = 9 -> "SDXC1" [] i = 13 -> "SUXC1"
    [] i = 15 -> "PREFX" [] i = 30 -> "ALNV_PS" [] i = 32 -> "MADD_S"
    [] i = 33 -> "MADD_D" [] i = 38 -> "MADD_PS" [] i = 40 -> "MSUB_S"
    [] i = 41 -> "MSUB_D" [] i = 46 -> "MSUB_PS" [] i = 48 -> "NMADD_S"
    [] i = 49 -> "NMADD_D" [] i = 54 -> "NMADD_PS" [] i = 56 -> "NMSUB_S"
    [] i = 57 -> "NMSUB_D" [] i = 62 -> "NMSUB_PS" [] OTHER -> "NONE"

-----------------------------------------------------------------------------
(* Looking a word up.  A one-bit field selects between two instructions.   *)

decode_cop1_movcf(w) == IF w.rt % 2 = 0 THEN "MOVF_FMT" ELSE "MOVT_FMT"
decode_special_movci(w) == IF w.rt % 2 = 0 THEN "MOVF" ELSE "MOVT"
decode_special_srl(w) == IF w.rs % 2 = 0 THEN "SRL" ELSE "ROTR"
decode_special_srlv(w) == IF w.sa % 2 = 0 THEN "SRLV" ELSE "ROTRV"

(* The table has a row for each value of bits 10..6, but bit 6 alone is    *)
(* looked up, so that none of its instructions is ever found.              *)
decode_special3_bshfl(w) == bshfl2inst(w.sa % 2)

decode_cop0_co(w) == cop0_co2inst(w.fn)
decode_cop1_w_l(w) == cop1_w_l2inst(w.fn)

decode_cop1_fmt(table, w) ==
  LET inst == Entry(table, w.fn)
  IN  IF inst = "COP1_MOVCF" THEN decode_cop1_movcf(w) ELSE inst

decode_op_special(w) ==
  LET inst == Entry(special2inst, w.fn)
  IN  CASE inst = "SPECIAL_MOVCI" -> decode_special_movci(w)
        [] inst = "SPECIAL_SRL" -> decode_special_srl(w)
        [] inst = "SPECIAL_SRLV" -> decode_special_srlv(w)
        [] OTHER -> inst

decode_op_regimm(w) == Entry(regimm2inst, w.rt)
decode_op_special2(w) == special22inst(w.fn)

decode_op_special3(w) ==
  LET inst == special32inst(w.fn)
  IN  IF inst = "SPECIAL3_BSHFL" THEN decode_special3_bshfl(w) ELSE inst

decode_op_cop0(w) ==
  LET inst == cop02inst(w.rs)
  IN  IF inst = "COP0_CO" THEN decode_cop0_co(w) ELSE inst

decode_op_cop1(w) ==
  LET inst == cop12inst(w.rs)
  IN  CASE inst = "COP1_S" -> decode_cop1_fmt(cop1_s2inst, w)
        [] inst = "COP1_D" -> decode_cop1_fmt(cop1_d2inst, w)
        [] inst \in {"COP1_W", "COP1_L"} -> decode_cop1_w_l(w)
        [] inst = "COP1_PS" -> decode_cop1_fmt(cop1_ps2inst, w)
        [] OTHER -> inst

decode_op_cop2(w) ==
  LET inst == cop22inst(w.rs)
  IN  IF inst = "COP2_C2" THEN "NONE" ELSE inst

decode_op_cop1x(w) == cop1x2inst(w.fn)

decode(w) ==
  LET inst == Entry(opcode2inst, w.op)
  IN  CASE inst = "OP_SPECIAL" -> decode_op_special(w)
        [] inst = "OP_REGIMM" -> decode_op_regimm(w)
        [] inst = "OP_COP0" -> decode_op_cop0(w)
        [] inst = "OP_COP1" -> decode_op_cop1(w)
        [] inst = "OP_COP2" -> decode_op_cop2(w)
        [] inst = "OP_COP1X" -> decode_op_cop1x(w)
        [] inst = "OP_SPECIAL2" -> decode_op_special2(w)
        [] inst = "OP_SPECIAL3" -> decode_op_special3(w)
        [] OTHER -> inst
===============================================================================
