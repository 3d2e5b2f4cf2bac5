-------------------------------- MODULE Machine -------------------------------
(***************************************************************************)
(* The instructions of the emulator: memu/inst.c with the registers of     *)
(* memu/reg.c, on the memory of module Memory, for one program run without *)
(* interrupts (which are module Cpu's).                                    *)
(*                                                                         *)
(* An instruction is [op, rs, rt, rd, sa, im]: its name as decoded and the *)
(* fields of its word.  Code is kept apart from data: code[a] is the       *)
(* instruction at physical address a, wherever no program is loaded it is  *)
(* a reserved one.                                                         *)
(***************************************************************************)
EXTENDS Memory

CONSTANTS
  WordBits,      \* the bits of a word
  Regs,          \* the numbers of the registers used; 0 is $zero
  Ra,            \* the number of $ra
  Starts         \* the programs: [name, code, pc, gpr, mem, disk, cpr]

Power2 == LET power[k \in 0..WordBits] == IF k = 0 THEN 1 ELSE 2 * power[k - 1] IN power

ASSUME MachineAssumption ==
  /\ WordBits \in Nat \ {0} /\ Power2[WordBits] = WordSpace
  /\ 0 \in Regs /\ Ra \in Regs /\ Regs \subseteq Nat

(* The fields of a word; the coprocessor register is one of the model's.   *)
Instruction(i) ==
  /\ i.rs \in Regs /\ i.rt \in Regs /\ i.rd \in Regs
  /\ i.sa \in 0..WordBits - 1 /\ i.im \in Nat
  /\ i.op \in {"MFC0", "MTC0"} => i.rd \in CprNumbers

ASSUME StartsAssumption ==
  \A s \in Starts :
    /\ s.pc \in Word /\ s.pc + 4 \in Word /\ s.gpr \in [Regs -> Word]
    /\ s.mem \in [0..MemSize - 1 -> 0..Byte - 1] /\ s.disk \in [0..DiskSize - 1 -> 0..Byte - 1]
    /\ s.cpr \in [CprNumbers -> Word]
    /\ "code" \in DOMAIN s /\ \A a \in DOMAIN s.code : Instruction(s.code[a])

VARIABLES
  start,         \* the program that runs
  pc, adv1, adv2,   \* PC, PC_ADVANCE1, PC_ADVANCE2
  gpr, shadow,   \* the general registers and their shadows
  hi, lo,
  stop           \* "no"; "exception" ended main_loop; "crash" ended the emulator

pipeline == <<pc, adv1, adv2>>
storage == <<mem, disk>>
vars == <<start, pipeline, gpr, shadow, hi, lo, stop, storage, cpr>>

-----------------------------------------------------------------------------
(* Numbers.                                                                *)

ToWord(n) == n % WordSpace
Signed(w) == IF 2 * w < WordSpace THEN w ELSE w - WordSpace
SignedImm(im) == IF 2 * im < Half THEN im ELSE im - Half

Bit(w, k) == (w \div Power2[k]) % 2
FromBits(b) ==
  LET sum[k \in 0..WordBits] == IF k = 0 THEN 0 ELSE sum[k - 1] + b[k - 1] * Power2[k - 1]
  IN  sum[WordBits]
Bits == 0..WordBits - 1
And(v, w) == FromBits([k \in Bits |-> Bit(v, k) * Bit(w, k)])
Or(v, w) == FromBits([k \in Bits |-> IF Bit(v, k) + Bit(w, k) > 0 THEN 1 ELSE 0])
Xor(v, w) == FromBits([k \in Bits |-> (Bit(v, k) + Bit(w, k)) % 2])
Not(w) == WordSpace - 1 - w

(* Division of C rounds towards zero.                                      *)
Abs(n) == IF n < 0 THEN -n ELSE n
Quot(n, d) == IF (n < 0) = (d < 0) THEN Abs(n) \div Abs(d) ELSE -(Abs(n) \div Abs(d))
Rem(n, d) == n - d * Quot(n, d)

Truth(b) == IF b THEN 1 ELSE 0

-----------------------------------------------------------------------------
Init ==
  /\ start \in Starts
  /\ pc = 0 /\ adv1 = start.pc /\ adv2 = start.pc + 4
  /\ gpr = start.gpr /\ shadow = [r \in Regs |-> 0] /\ hi = 0 /\ lo = 0
  /\ mem = start.mem /\ disk = start.disk /\ cpr = start.cpr
  /\ stop = "no"

Reserved == [op |-> "NONE", rs |-> 0, rt |-> 0, rd |-> 0, sa |-> 0, im |-> 0]
CodeAt(paddr) == IF paddr \in DOMAIN start.code THEN start.code[paddr] ELSE Reserved

(* The instruction at the address that becomes PC, if it is an op.         *)
Fetched(op) == {i \in {CodeAt(paddr) : paddr \in Paddrs(adv1)} : stop = "no" /\ i.op = op}

(* Variant: the program counter is wider than a word. *)
AdvanceWide == pc' = adv1 /\ adv1' = adv2 /\ adv2' = adv2 + 4

(* reg_advance_pc, no branch, and a page fault the fetch may record.       *)
Advance == pc' = adv1 /\ adv1' = adv2 /\ adv2' = ToWord(adv2 + 4)
Recording == cpr' \in Recorded(cpr, adv1)

(* reg_gpr_write *)
Write(r, n) == gpr' = [gpr EXCEPT ![r] = ToWord(n), ![0] = 0]

-----------------------------------------------------------------------------
(* Instructions that compute a register.                                   *)

Sets(r, n) ==
  /\ Write(r, n) /\ Advance /\ Recording
  /\ UNCHANGED <<start, shadow, hi, lo, stop, storage>>

inst_exec_add == \E i \in Fetched("ADD") : Sets(i.rd, gpr[i.rs] + gpr[i.rt])
inst_exec_addi == \E i \in Fetched("ADDI") : Sets(i.rt, gpr[i.rs] + SignedImm(i.im))
inst_exec_addiu == \E i \in Fetched("ADDIU") : Sets(i.rt, gpr[i.rs] + SignedImm(i.im))
inst_exec_addu == \E i \in Fetched("ADDU") : Sets(i.rd, gpr[i.rs] + gpr[i.rt])
inst_exec_and == \E i \in Fetched("AND") : Sets(i.rd, And(gpr[i.rs], gpr[i.rt]))
inst_exec_andi == \E i \in Fetched("ANDI") : Sets(i.rt, And(gpr[i.rs], i.im))
inst_exec_lui == \E i \in Fetched("LUI") : Sets(i.rt, i.im * Half)
inst_exec_mfc0 ==
  \E i \in Fetched("MFC0"), c \in Recorded(cpr, adv1) : cpr' = c /\ Sets(i.rt, c[i.rd])
inst_exec_mfhi == \E i \in Fetched("MFHI") : Sets(i.rd, hi)
inst_exec_mflo == \E i \in Fetched("MFLO") : Sets(i.rd, lo)
inst_exec_nor == \E i \in Fetched("NOR") : Sets(i.rd, Not(Or(gpr[i.rs], gpr[i.rt])))
inst_exec_or == \E i \in Fetched("OR") : Sets(i.rd, Or(gpr[i.rs], gpr[i.rt]))
inst_exec_ori == \E i \in Fetched("ORI") : Sets(i.rt, Or(gpr[i.rs], i.im))
inst_exec_sll == \E i \in Fetched("SLL") : Sets(i.rd, gpr[i.rt] * Power2[i.sa])

(* A shift by the width of a word or more is undefined: the processor the  *)
(* emulator runs on may take the amount modulo the width, or the compiler  *)
(* may have it otherwise.                                                  *)
inst_exec_sllv ==
  \E i \in Fetched("SLLV") :
    \E n \in IF gpr[i.rs] < WordBits THEN {gpr[i.rt] * Power2[gpr[i.rs]]}
              ELSE {gpr[i.rt] * Power2[gpr[i.rs] % WordBits], 0} : Sets(i.rd, n)

inst_exec_slt == \E i \in Fetched("SLT") : Sets(i.rd, Truth(Signed(gpr[i.rs]) < Signed(gpr[i.rt])))

(* slti extends the sign and then compares without it; sltiu does not      *)
(* extend it.                                                              *)
inst_exec_slti ==
  \E i \in Fetched("SLTI") : Sets(i.rt, Truth(gpr[i.rs] < ToWord(SignedImm(i.im))))
inst_exec_sltiu == \E i \in Fetched("SLTIU") : Sets(i.rt, Truth(gpr[i.rs] < i.im))

(* Variant: the comparison of sltu has a sign. *)
SltuSigned == \E i \in Fetched("SLTU") : Sets(i.rd, Truth(Signed(gpr[i.rs]) < Signed(gpr[i.rt])))

inst_exec_sltu == \E i \in Fetched("SLTU") : Sets(i.rd, Truth(gpr[i.rs] < gpr[i.rt]))
inst_exec_srl == \E i \in Fetched("SRL") : Sets(i.rd, gpr[i.rt] \div Power2[i.sa])
inst_exec_srlv ==
  \E i \in Fetched("SRLV") :
    \E n \in IF gpr[i.rs] < WordBits THEN {gpr[i.rt] \div Power2[gpr[i.rs]]}
              ELSE {gpr[i.rt] \div Power2[gpr[i.rs] % WordBits], 0} : Sets(i.rd, n)
inst_exec_sub == \E i \in Fetched("SUB") : Sets(i.rd, gpr[i.rs] - gpr[i.rt])
inst_exec_subu == \E i \in Fetched("SUBU") : Sets(i.rd, gpr[i.rs] - gpr[i.rt])
inst_exec_xor == \E i \in Fetched("XOR") : Sets(i.rd, Xor(gpr[i.rs], gpr[i.rt]))
inst_exec_xori == \E i \in Fetched("XORI") : Sets(i.rt, Xor(gpr[i.rs], i.im))

Compute ==
  \/ inst_exec_add \/ inst_exec_addi \/ inst_exec_addiu \/ inst_exec_addu \/ inst_exec_and
  \/ inst_exec_andi \/ inst_exec_lui \/ inst_exec_mfc0 \/ inst_exec_mfhi \/ inst_exec_mflo
  \/ inst_exec_nor \/ inst_exec_or \/ inst_exec_ori \/ inst_exec_sll \/ inst_exec_sllv
  \/ inst_exec_slt \/ inst_exec_slti \/ inst_exec_sltiu \/ inst_exec_sltu \/ inst_exec_srl
  \/ inst_exec_srlv \/ inst_exec_sub \/ inst_exec_subu \/ inst_exec_xor \/ inst_exec_xori

-----------------------------------------------------------------------------
(* Products and quotients.                                                 *)

SetsHiLo(h, l) ==
  /\ hi' = h /\ lo' = l
  /\ Advance /\ Recording
  /\ UNCHANGED <<start, gpr, shadow, stop, storage>>

inst_exec_mthi == \E i \in Fetched("MTHI") : SetsHiLo(gpr[i.rs], lo)
inst_exec_mtlo == \E i \in Fetched("MTLO") : SetsHiLo(hi, gpr[i.rs])

(* The operands are extended to twice the width; the product keeps that    *)
(* width.                                                                  *)
Product(n) == SetsHiLo(ToWord(n \div WordSpace), ToWord(n))

(* Variant: the operands of mult are not sign-extended. *)
MultUnsigned == \E i \in Fetched("MULT") : Product(gpr[i.rs] * gpr[i.rt])

inst_exec_mult == \E i \in Fetched("MULT") : Product(Signed(gpr[i.rs]) * Signed(gpr[i.rt]))
inst_exec_multu == \E i \in Fetched("MULTU") : Product(gpr[i.rs] * gpr[i.rt])

Divide(n, d) ==
  IF d = 0 THEN SetsHiLo(hi, lo) ELSE SetsHiLo(ToWord(Rem(n, d)), ToWord(Quot(n, d)))

(* The least number divided by -1 has no representation.                   *)
Overflows(i) == Signed(gpr[i.rs]) = -(WordSpace \div 2) /\ Signed(gpr[i.rt]) = -1

inst_exec_div ==
  \E i \in Fetched("DIV") : ~Overflows(i) /\ Divide(Signed(gpr[i.rs]), Signed(gpr[i.rt]))
inst_exec_divu == \E i \in Fetched("DIVU") : Divide(gpr[i.rs], gpr[i.rt])

MultiplyDivide ==
  \/ inst_exec_mthi \/ inst_exec_mtlo \/ inst_exec_mult \/ inst_exec_multu
  \/ inst_exec_div \/ inst_exec_divu

-----------------------------------------------------------------------------
(* Branches and jumps: the instruction after it, in the delay slot, runs   *)
(* before it takes effect.                                                 *)

BranchTo(target) == pc' = adv1 /\ adv1' = adv2 /\ adv2' = target
BranchIf(i, taken) ==
  BranchTo(IF taken THEN ToWord(adv1 + 4 + 4 * SignedImm(i.im)) ELSE ToWord(adv2 + 4))

Unlinked == Recording /\ UNCHANGED <<start, gpr, shadow, hi, lo, stop, storage>>

(* Variant: the link is to the delay slot. *)
LinkedSlot == Write(Ra, adv1 + 4) /\ Recording /\ UNCHANGED <<start, shadow, hi, lo, stop, storage>>

(* link_pc_ra *)
Linked == Write(Ra, adv1 + 8) /\ Recording /\ UNCHANGED <<start, shadow, hi, lo, stop, storage>>

inst_exec_beq == \E i \in Fetched("BEQ") : BranchIf(i, gpr[i.rs] = gpr[i.rt]) /\ Unlinked
inst_exec_bne == \E i \in Fetched("BNE") : BranchIf(i, gpr[i.rs] # gpr[i.rt]) /\ Unlinked
inst_exec_bgez == \E i \in Fetched("BGEZ") : BranchIf(i, Signed(gpr[i.rs]) >= 0) /\ Unlinked
inst_exec_bltz == \E i \in Fetched("BLTZ") : BranchIf(i, Signed(gpr[i.rs]) < 0) /\ Unlinked

(* The register is read after $ra is written.                              *)
inst_exec_bgezal ==
  \E i \in Fetched("BGEZAL") : Linked /\ BranchIf(i, Signed(gpr'[i.rs]) >= 0)

(* The bits of PC above those of the index stay; the model's programs are  *)
(* small enough for all of them to be in the index.                        *)
inst_exec_j == \E i \in Fetched("J") : BranchTo(ToWord(4 * i.im)) /\ Unlinked
inst_exec_jal == \E i \in Fetched("JAL") : BranchTo(ToWord(4 * i.im)) /\ Linked
inst_exec_jr == \E i \in Fetched("JR") : BranchTo(gpr[i.rs]) /\ Unlinked

(* rd is not looked at.                                                    *)
inst_exec_jalr == \E i \in Fetched("JALR") : Linked /\ BranchTo(gpr'[i.rs])

Transfer ==
  \/ inst_exec_beq \/ inst_exec_bne \/ inst_exec_bgez \/ inst_exec_bltz \/ inst_exec_bgezal
  \/ inst_exec_j \/ inst_exec_jal \/ inst_exec_jr \/ inst_exec_jalr

-----------------------------------------------------------------------------
(* Loads and stores.                                                       *)

Vaddr(i) == ToWord(gpr[i.rs] + SignedImm(i.im))

(* Variant: a fault of the data address is not recorded. *)
AfterFetch(i) == Recorded(cpr, adv1)

(* The coprocessor registers when the data address is translated, and the  *)
(* addresses it may be translated to.                                      *)
AfterAccess(i) == UNION {Recorded(c, Vaddr(i)) : c \in Recorded(cpr, adv1)}

Load(i, len) ==
  /\ \E paddr \in Paddrs(Vaddr(i)) :
       \/ ~AddressError(paddr, len) /\ Write(i.rt, Read(mem, paddr, len)) /\ UNCHANGED stop
       \/ AddressError(paddr, len) /\ stop' = "exception" /\ UNCHANGED gpr
  /\ cpr' \in AfterAccess(i) /\ Advance
  /\ UNCHANGED <<start, shadow, hi, lo, storage>>

inst_exec_lb == \E i \in Fetched("LB") : Load(i, 1)
inst_exec_lw == \E i \in Fetched("LW") : Load(i, 4)

StoreIn(i, len) ==
  /\ \E paddr \in Paddrs(Vaddr(i)) :
       \/ ~AddressError(paddr, len) /\ Store(paddr, len, gpr[i.rt]) /\ UNCHANGED stop
       \/ AddressError(paddr, len) /\ stop' = "exception" /\ UNCHANGED storage
       \/ /\ ~AddressError(paddr, len) /\ StoreUndefined(paddr, len, gpr[i.rt])
          /\ stop' = "crash" /\ UNCHANGED storage
  /\ cpr' \in AfterAccess(i) /\ Advance
  /\ UNCHANGED <<start, gpr, shadow, hi, lo>>

inst_exec_sb == \E i \in Fetched("SB") : StoreIn(i, 1)
inst_exec_sw == \E i \in Fetched("SW") : StoreIn(i, 4)

Access == inst_exec_lb \/ inst_exec_lw \/ inst_exec_sb \/ inst_exec_sw

-----------------------------------------------------------------------------
(* Coprocessor and shadow registers.                                       *)

(* reg_cpr_write; the registers are those with selection 0.                *)
inst_exec_mtc0 ==
  \E i \in Fetched("MTC0"), c \in Recorded(cpr, adv1) :
    /\ cpr' = [c EXCEPT ![i.rd] = gpr[i.rt]]
    /\ Advance
    /\ UNCHANGED <<start, gpr, shadow, hi, lo, stop, storage>>

(* rdpgpr writes the register as it is, $zero too.                         *)
inst_exec_rdpgpr ==
  \E i \in Fetched("RDPGPR") :
    /\ gpr' = [gpr EXCEPT ![i.rd] = shadow[i.rt]]
    /\ Advance /\ Recording
    /\ UNCHANGED <<start, shadow, hi, lo, stop, storage>>

inst_exec_wrpgpr ==
  \E i \in Fetched("WRPGPR") :
    /\ shadow' = [shadow EXCEPT ![i.rd] = gpr[i.rt]]
    /\ Advance /\ Recording
    /\ UNCHANGED <<start, gpr, hi, lo, stop, storage>>

inst_exec_sync ==
  /\ Fetched("SYNC") # {} /\ Advance /\ Recording
  /\ UNCHANGED <<start, gpr, shadow, hi, lo, stop, storage>>

Move == inst_exec_mtc0 \/ inst_exec_rdpgpr \/ inst_exec_wrpgpr \/ inst_exec_sync

-----------------------------------------------------------------------------
(* What ends the loop: an instruction that is not implemented, sra among   *)
(* them although there is code for it, or a division that traps.           *)

Stop(how) ==
  /\ stop' = how /\ Advance /\ Recording
  /\ UNCHANGED <<start, gpr, shadow, hi, lo, storage>>

inst_not_implemented ==
  \E op \in {"NONE", "SRA"} : Fetched(op) # {} /\ Stop("exception")

DivisionTraps == \E i \in Fetched("DIV") : Overflows(i) /\ Stop("crash")

(* A translation in this step reads a table that is not all in memory.     *)
TableCrashes ==
  LET accesses == UNION {Fetched(op) : op \in {"LB", "LW", "SB", "SW"}}
  IN  /\ stop = "no" /\ \E vaddr \in {adv1} \cup {Vaddr(i) : i \in accesses} : Beyond(vaddr)
      /\ Stop("crash")

Next ==
  \/ Compute \/ MultiplyDivide \/ Transfer \/ Access \/ Move
  \/ inst_not_implemented \/ DivisionTraps \/ TableCrashes

Spec == Init /\ [][Next]_vars
===============================================================================
