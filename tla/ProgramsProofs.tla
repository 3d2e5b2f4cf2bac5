---------------------------- MODULE ProgramsProofs ----------------------------
(***************************************************************************)
(* What memory is after the code that writes it: the words MEMWORDCPY      *)
(* copies, the table of files, and what the ports of the disk and of       *)
(* copies bring; for words, memories and tables of any size.               *)
(***************************************************************************)
EXTENDS MachineProofs, Requests, SequenceTheorems

-----------------------------------------------------------------------------
(* Words in memory.                                                        *)

(* Four bytes make a word that has those bytes.                            *)
LEMMA WordOfBytes ==
  ASSUME NEW m, NEW a, NEW b0 \in 0..Byte - 1, NEW b1 \in 0..Byte - 1, NEW b2 \in 0..Byte - 1,
         NEW b3 \in 0..Byte - 1, m[a] = b0, m[a + 1] = b1, m[a + 2] = b2, m[a + 3] = b3
  PROVE  LET w == WordAt(m, a)
         IN  /\ w \in Word
             /\ ByteOf(w, 0) = b0 /\ ByteOf(w, 1) = b1 /\ ByteOf(w, 2) = b2 /\ ByteOf(w, 3) = b3
<1>1. PICK b \in Nat : b = Byte /\ b >= 2
  BY Widths
<1>2. PICK h \in Nat, c \in Nat : h = b * b /\ h = Half /\ c = h * b /\ c = Half * Byte
  BY <1>1 DEF Half
<1>3. b0 \in Nat /\ b0 < b /\ b1 \in Nat /\ b1 < b /\ b2 \in Nat /\ b2 < b /\ b3 \in Nat /\ b3 < b
  BY <1>1
<1>4. PICK w \in Nat : w = b0 + b * b1 + h * b2 + c * b3 /\ w = WordAt(m, a)
  <2>1. PICK w \in Nat : w = b0 + b * b1 + h * b2 + c * b3
    BY <1>3
  <2>2. WordAt(m, a) = b0 + b * b1 + h * b2 + c * b3
    BY <1>1, <1>2, Zenon DEF WordAt
  <2> QED
    BY <2>1, <2>2, Zenon
<1>5. PICK q1 \in Nat : q1 = (b3 * b + b2) * b + b1
  BY <1>3
<1>6. PICK q2 \in Nat : q2 = b3 * b + b2
  BY <1>3
<1>a. q1 \in Int /\ q2 \in Int /\ b3 \in Int
  BY <1>3
<1>7. w = q1 * b + b0
  <2>1. ((b3 * b + b2) * b + b1) * b + b0 = b0 + b * b1 + (b * b) * b2 + ((b * b) * b) * b3
    OBVIOUS
  <2> QED
    BY <1>2, <1>4, <1>5, <2>1, Zenon
<1>8. w % b = b0 /\ w \div b = q1
  <2>1. (q1 * b + b0) \div b = q1 /\ (q1 * b + b0) % b = b0
    BY <1>3, <1>a, DivisionUnique, Zenon
  <2> QED
    BY <1>7, <2>1, Zenon
<1>9. q1 = q2 * b + b1 /\ q1 % b = b1 /\ q1 \div b = q2
  <2>1. q1 = q2 * b + b1
    BY <1>5, <1>6
  <2>2. (q2 * b + b1) \div b = q2 /\ (q2 * b + b1) % b = b1
    BY <1>3, <1>a, DivisionUnique, Zenon
  <2> QED
    BY <2>1, <2>2, Zenon
<1>10. q2 % b = b2 /\ q2 \div b = b3
  <2>1. (b3 * b + b2) \div b = b3 /\ (b3 * b + b2) % b = b2
    BY <1>3, <1>a, DivisionUnique, Zenon
  <2> QED
    BY <1>6, <2>1, Zenon
<1>11. b1 * b + b0 < h /\ b1 * b + b0 \in Nat
  <2>1. PICK d \in Nat : b = b1 + 1 + d
    <3>1. b - b1 - 1 \in Nat
      BY <1>3
    <3> QED
      BY <3>1
  <2>2. b * b = b1 * b + b + d * b /\ d * b \in Nat /\ b1 * b \in Nat
    BY <2>1
  <2> QED
    BY <1>2, <1>3, <2>2
<1>12. w \div h = q2
  <2>1. w = q2 * h + (b1 * b + b0)
    <3>1. (b3 * b + b2) * (b * b) + (b1 * b + b0) = b0 + b * b1 + (b * b) * b2 + ((b * b) * b) * b3
      OBVIOUS
    <3> QED
      BY <1>2, <1>4, <1>6, <3>1, Zenon
  <2>2. PICK r \in Nat : r = b1 * b + b0 /\ r < h
    BY <1>11
  <2>3. (q2 * h + r) \div h = q2
    BY <1>a, <2>2, DivisionUnique, Zenon
  <2> QED
    BY <2>1, <2>2, <2>3, Zenon
<1>13. PICK s \in Nat : s = b2 * h + (b1 * b + b0) /\ s < c
  <2>1. PICK d \in Nat : b = b2 + 1 + d
    <3>1. b - b2 - 1 \in Nat
      BY <1>3
    <3> QED
      BY <3>1
  <2>2. h * b = b2 * h + h + d * h /\ d * h \in Nat /\ b2 * h \in Nat
    BY <2>1
  <2> QED
    BY <1>2, <1>11, <2>2
<1>14. w = b3 * c + s
  <2>1. b3 * ((b * b) * b) + (b2 * (b * b) + (b1 * b + b0)) = b0 + b * b1 + (b * b) * b2 + ((b * b) * b) * b3
    OBVIOUS
  <2> QED
    BY <1>2, <1>4, <1>13, <2>1, Zenon
<1>15. w \div c = b3
  <2>1. (b3 * c + s) \div c = b3
    BY <1>a, <1>13, DivisionUnique, Zenon
  <2> QED
    BY <1>14, <2>1, Zenon
<1>16. w \in Word
  <2>1. PICK d \in Nat : b = b3 + 1 + d
    <3>1. b - b3 - 1 \in Nat
      BY <1>3
    <3> QED
      BY <3>1
  <2>2. c * b = b3 * c + c + d * c /\ d * c \in Nat /\ b3 * c \in Nat
    BY <2>1
  <2>3. WordSpace = c * b
    BY <1>1, <1>2, Widths, Zenon
  <2>4. w < WordSpace /\ WordSpace \in Nat
    BY <1>13, <1>14, <2>2, <2>3
  <2> QED
    BY <2>4 DEF Word
<1>17. ByteOf(w, 0) = b0
  BY <1>1, <1>8 DEF ByteOf
<1>18. ByteOf(w, 1) = b1
  <2>1. ByteOf(w, 1) = (w \div Byte) % Byte
    BY DEF ByteOf
  <2> QED
    BY <1>1, <1>8, <1>9, <2>1, Zenon
<1>19. ByteOf(w, 2) = b2
  BY <1>1, <1>2, <1>10, <1>12 DEF ByteOf
<1>20. ByteOf(w, 3) = b3
  BY <1>2, <1>15 DEF ByteOf
<1> QED
  BY <1>4, <1>16, <1>17, <1>18, <1>19, <1>20, Zenon

(* A word in memory is a word, and storing it copies its bytes.            *)
LEMMA WordRead ==
  ASSUME NEW n \in Nat, NEW m \in Bytes(n), NEW a \in Nat, a + 4 <= n
  PROVE  WordAt(m, a) \in Word /\ \A k \in 0..3 : ByteOf(WordAt(m, a), k) = m[a + k]
<1>1. /\ a \in 0..n - 1 /\ a + 1 \in 0..n - 1 /\ a + 2 \in 0..n - 1 /\ a + 3 \in 0..n - 1
  OBVIOUS
<1>2. PICK b0 \in 0..Byte - 1, b1 \in 0..Byte - 1, b2 \in 0..Byte - 1, b3 \in 0..Byte - 1 :
        m[a] = b0 /\ m[a + 1] = b1 /\ m[a + 2] = b2 /\ m[a + 3] = b3
  BY <1>1 DEF Bytes
<1>3. PICK w : w = WordAt(m, a)
  OBVIOUS
<1>4. w \in Word /\ ByteOf(w, 0) = b0 /\ ByteOf(w, 1) = b1 /\ ByteOf(w, 2) = b2 /\ ByteOf(w, 3) = b3
  BY <1>2, <1>3, WordOfBytes
<1>5. a + 0 = a
  OBVIOUS
<1>6. ASSUME NEW k \in 0..3 PROVE ByteOf(w, k) = m[a + k]
  <2>1. k = 0 \/ k = 1 \/ k = 2 \/ k = 3
    OBVIOUS
  <2> QED
    BY <1>2, <1>4, <1>5, <2>1
<1> QED
  BY <1>3, <1>4, <1>6

-----------------------------------------------------------------------------
(* Copying words.                                                          *)

(* A branch over n - 1 instructions behind its delay slot.                 *)
LEMMA Branches ==
  ASSUME Untranslated, Next, NEW n \in 1..31, NEW a \in 0..128,
         adv1 = a, adv2 = a + 4, NEW r \in Regs, NEW q \in Regs, NEW op \in {"BEQ", "BNE"},
         Current = I(op, r, q, n)
  PROVE  /\ adv1' = a + 4 /\ gpr' = gpr /\ cpr' = cpr /\ stop' = stop
         /\ mem' = mem /\ disk' = disk
         /\ op = "BEQ" => adv2' = IF gpr[q] = gpr[r] THEN a + 4 + 4 * n ELSE a + 8
         /\ op = "BNE" => adv2' = IF gpr[q] # gpr[r] THEN a + 4 + 4 * n ELSE a + 8
<1>1. SignedImm(Current.im) = n /\ Current.rt = r /\ Current.rs = q /\ Current.op = op
  BY SmallImmediates DEF I
<1>2. ToWord(a + 4 + 4 * n) = a + 4 + 4 * n /\ ToWord(a + 8) = a + 8
  BY ProgramWidths
<1>3. (a + 4) + 4 = a + 8
  OBVIOUS
<1>4. Executes(Current)
  BY ExecutesCurrent
<1>5. \A taken \in BOOLEAN :
        BranchIf(Current, taken) /\ Unlinked =>
          /\ adv1' = a + 4 /\ gpr' = gpr /\ cpr' = cpr /\ stop' = stop
          /\ mem' = mem /\ disk' = disk
          /\ adv2' = IF taken THEN a + 4 + 4 * n ELSE a + 8
  BY <1>1, <1>2, <1>3, Fetches DEF BranchIf, BranchTo, Unlinked, Recording, storage
<1>6. CASE op = "BEQ"
  <2>1. BranchIf(Current, gpr[q] = gpr[r]) /\ Unlinked
    BY <1>1, <1>4, <1>6 DEF Executes
  <2> QED
    BY <1>5, <1>6, <2>1
<1>7. CASE op = "BNE"
  <2>1. BranchIf(Current, gpr[q] # gpr[r]) /\ Unlinked
    BY <1>1, <1>4, <1>7 DEF Executes
  <2> QED
    BY <1>5, <1>7, <2>1
<1> QED
  BY <1>6, <1>7

(* A jump.                                                                 *)
LEMMA Jumps ==
  ASSUME Untranslated, Next
  PROVE  /\ \A n \in 0..31 : Current = [Nop EXCEPT !.op = "J", !.im = n] =>
              /\ adv1' = adv2 /\ adv2' = 4 * n /\ gpr' = gpr /\ cpr' = cpr /\ stop' = stop
              /\ mem' = mem /\ disk' = disk
         /\ \A r \in Regs : Current = R("JR", 0, r, 0) =>
              /\ adv1' = adv2 /\ adv2' = gpr[r] /\ gpr' = gpr /\ cpr' = cpr /\ stop' = stop
              /\ mem' = mem /\ disk' = disk
<1>1. Executes(Current)
  BY ExecutesCurrent
<1>2. ASSUME NEW t, BranchTo(t), Unlinked
      PROVE  /\ adv1' = adv2 /\ adv2' = t /\ gpr' = gpr /\ cpr' = cpr /\ stop' = stop
             /\ mem' = mem /\ disk' = disk
  BY <1>2, Fetches DEF BranchTo, Unlinked, Recording, storage
<1>3. ASSUME NEW n \in 0..31, Current = [Nop EXCEPT !.op = "J", !.im = n]
      PROVE  /\ adv1' = adv2 /\ adv2' = 4 * n /\ gpr' = gpr /\ cpr' = cpr /\ stop' = stop
             /\ mem' = mem /\ disk' = disk
  <2>1. Current.op = "J" /\ Current.im = n
    BY <1>3 DEF Nop, Shift
  <2>2. BranchTo(ToWord(4 * n)) /\ Unlinked
    BY <1>1, <2>1 DEF Executes
  <2>3. ToWord(4 * n) = 4 * n
    BY ProgramWidths
  <2> QED
    BY <1>2, <2>2, <2>3
<1>4. ASSUME NEW r \in Regs, Current = R("JR", 0, r, 0)
      PROVE  /\ adv1' = adv2 /\ adv2' = gpr[r] /\ gpr' = gpr /\ cpr' = cpr /\ stop' = stop
             /\ mem' = mem /\ disk' = disk
  <2>1. Current.op = "JR" /\ Current.rs = r
    BY <1>4 DEF R
  <2>2. BranchTo(gpr[r]) /\ Unlinked
    BY <1>1, <2>1 DEF Executes
  <2> QED
    BY <1>2, <2>2
<1> QED
  BY <1>3, <1>4

(* Shifts by two into any register, and the addition of a small number.    *)
LEMMA ShiftsAndAdds ==
  ASSUME Untranslated, Next, gpr[0] = 0, NEW d \in Regs, d # 0, NEW r \in Regs
  PROVE  /\ Current = Shift("SRL", d, r, 2) =>
              Follows /\ gpr' = [gpr EXCEPT ![d] = ToWord(gpr[r] \div 4)]
         /\ Current = Shift("SLL", d, r, 2) =>
              Follows /\ gpr' = [gpr EXCEPT ![d] = ToWord(gpr[r] * 4)]
         /\ Current = I("ADDI", d, r, 4) =>
              Follows /\ gpr' = [gpr EXCEPT ![d] = ToWord(gpr[r] + 4)]
         /\ Current = I("ADDI", d, r, -1) =>
              Follows /\ gpr' = [gpr EXCEPT ![d] = ToWord(gpr[r] - 1)]
<1>1. Executes(Current)
  BY ExecutesCurrent
<1>3. ASSUME Current = Shift("SRL", d, r, 2)
      PROVE  Follows /\ gpr' = [gpr EXCEPT ![d] = ToWord(gpr[r] \div 4)]
  <2>1. Current.op = "SRL" /\ Current.rd = d /\ Current.rt = r /\ Current.sa = 2
    BY <1>3 DEF Shift
  <2>2. Sets(d, gpr[r] \div 4)
    BY <1>1, <2>1, TwoBits DEF Executes
  <2> QED
    BY <2>2, SettingOne
<1>4. ASSUME Current = Shift("SLL", d, r, 2)
      PROVE  Follows /\ gpr' = [gpr EXCEPT ![d] = ToWord(gpr[r] * 4)]
  <2>1. Current.op = "SLL" /\ Current.rd = d /\ Current.rt = r /\ Current.sa = 2
    BY <1>4 DEF Shift
  <2>2. Sets(d, gpr[r] * 4)
    BY <1>1, <2>1, TwoBits DEF Executes
  <2> QED
    BY <2>2, SettingOne
<1>5. ASSUME Current = I("ADDI", d, r, 4)
      PROVE  Follows /\ gpr' = [gpr EXCEPT ![d] = ToWord(gpr[r] + 4)]
  <2>1. Current.op = "ADDI" /\ Current.rt = d /\ Current.rs = r /\ SignedImm(Current.im) = 4
    BY <1>5, SmallImmediates DEF I
  <2>2. Sets(d, gpr[r] + 4)
    BY <1>1, <2>1 DEF Executes
  <2> QED
    BY <2>2, SettingOne
<1>6. ASSUME Current = I("ADDI", d, r, -1)
      PROVE  Follows /\ gpr' = [gpr EXCEPT ![d] = ToWord(gpr[r] - 1)]
  <2>1. Current.op = "ADDI" /\ Current.rt = d /\ Current.rs = r /\ SignedImm(Current.im) = -1
    BY <1>6, SmallImmediates DEF I
  <2>2. Sets(d, gpr[r] + (-1))
    BY <1>1, <2>1 DEF Executes
  <2>3. gpr[r] + (-1) = gpr[r] - 1
    <3>1. \A w \in Word : w \in Int
      BY Widths DEF Word
    <3>2. gpr[r] \in Int
      BY <3>1 DEF Untranslated, MInv, MachineTypeOK
    <3> QED
      BY <3>2
  <2> QED
    BY <2>2, <2>3, SettingOne
<1> QED
  BY <1>3, <1>4, <1>5, <1>6

(* A word is loaded from the address in a register or behind it.           *)
LEMMA LoadsWord ==
  ASSUME Untranslated, Next, gpr[0] = 0, NEW t \in Regs, t # 0, NEW b \in Regs,
         NEW n \in 0..31, NEW p \in Nat, p = gpr[b] + n, p + 4 <= MemSize, Current = I("LW", t, b, n)
  PROVE  Follows /\ gpr' = [gpr EXCEPT ![t] = WordAt(mem, p)]
<1>1. Current.op = "LW" /\ Current.rt = t /\ Current.rs = b /\ SignedImm(Current.im) = n
  BY SmallImmediates DEF I
<1>2. stop = "no" /\ Load(Current, 4)
  BY <1>1, ExecutesCurrent DEF Executes
<1>3. MemSize \in Nat /\ p \in Word
  BY Storage, Widths, MemoryAssumption DEF Untranslated, Word
<1>4. Vaddr(Current) = p
  <2>1. p % WordSpace = p
    BY <1>3, Widths DEF Word
  <2> QED
    BY <1>1, <1>3, <2>1 DEF Vaddr, ToWord
<1>5. Paddrs(p) = {p} /\ AfterAccess(Current) = {cpr}
  <2>1. Paddrs(p) = {p}
    BY Fetches
  <2>2. Recorded(cpr, adv1) = {cpr} /\ Recorded(cpr, p) = {cpr}
    BY Fetches
  <2>3. AfterAccess(Current) = UNION {Recorded(c, p) : c \in {cpr}}
    BY <1>4, <2>2 DEF AfterAccess
  <2> QED
    BY <2>1, <2>2, <2>3
<1>6. ~AddressError(p, 4)
  BY <1>3 DEF AddressError
<1>7. /\ Write(t, Read(mem, p, 4)) /\ stop' = stop /\ cpr' = cpr /\ Advance
      /\ UNCHANGED <<start, shadow, hi, lo, storage>>
  <2>1. /\ cpr' \in AfterAccess(Current) /\ Advance
        /\ UNCHANGED <<start, shadow, hi, lo, storage>>
    BY <1>2, Zenon DEF Load
  <2>2. PICK x \in Paddrs(Vaddr(Current)) :
          \/ ~AddressError(x, 4) /\ Write(Current.rt, Read(mem, x, 4)) /\ UNCHANGED stop
          \/ AddressError(x, 4) /\ stop' = "exception" /\ UNCHANGED gpr
    BY <1>2, Zenon DEF Load
  <2>3. x = p
    BY <1>4, <1>5, <2>2
  <2>4. Write(t, Read(mem, p, 4)) /\ stop' = stop
    BY <1>1, <1>6, <2>2, <2>3, Zenon
  <2> QED
    BY <1>5, <2>1, <2>4
<1>8. ToWord(Read(mem, p, 4)) = WordAt(mem, p)
  <2>1. WordAt(mem, p) \in Word
    BY <1>3, Storage, WordRead DEF Untranslated
  <2> QED
    BY <2>1, Widths DEF Read, ToWord, Word
<1>9. gpr \in [Regs -> Word] /\ 0 \in Regs
  BY MachineAssumption DEF Untranslated, MInv, MachineTypeOK
<1> QED
  BY <1>7, <1>8, <1>9 DEF Write, Follows, Advance, storage

(* Where MEMWORDCPY is.                                                    *)
Here(p, q) == stop = "no" /\ adv1 = p /\ adv2 = q

(* Its ranges have an address in common, and what it is called with is     *)
(* refused.                                                                *)
Overlap == Common(start.gpr[A0], start.gpr[A1], 4 * start.gpr[A2]) # {}
Refused == start.gpr[A0] % 4 # 0 \/ start.gpr[A1] % 4 # 0 \/ Overlap

(* Nothing is copied as long as it is testing, and the parameters stay.    *)
Untouched == mem = start.mem /\ \A r \in {0, A0, A1, A2, Ra} : gpr[r] = start.gpr[r]

(* The test of an address, at index a \div 4.                              *)
Aligning(a, r) ==
  \/ Here(a, a + 4)
  \/ Here(a + 4, a + 8) /\ gpr[AT] = start.gpr[r] \div 4
  \/ Here(a + 8, a + 12) /\ gpr[AT] = (start.gpr[r] \div 4) * 4
  \/ Here(a + 12, a + 16) /\ start.gpr[r] % 4 = 0

(* The test of the ranges.                                                 *)
Overlapping ==
  LET n == 4 * start.gpr[A2]
      before == Truth(start.gpr[A1] < start.gpr[A0] + n)
  IN  \/ Here(32, 36)
      \/ Here(36, 40) /\ gpr[T0] = n
      \/ Here(40, 44) /\ gpr[T0] = n /\ gpr[T1] = start.gpr[A0] + n
      \/ Here(44, 48) /\ gpr[T0] = n /\ gpr[T1] = before
      \/ Here(48, 52) /\ gpr[T1] = before /\ gpr[AT] = start.gpr[A1] + n
      \/ Here(52, 56) /\ gpr[T1] = before /\ gpr[AT] = Truth(start.gpr[A0] < start.gpr[A1] + n)
      \/ Here(56, 60) /\ gpr[T1] = Truth(Overlap)
      \/ Here(60, 64) /\ ~Overlap

Testing ==
  /\ Untouched
  /\ \/ Aligning(0, A0)
     \/ start.gpr[A0] % 4 = 0 /\ Aligning(16, A1)
     \/ start.gpr[A0] % 4 = 0 /\ start.gpr[A1] % 4 = 0 /\ Overlapping
     \/ Refused /\ (Here(12, 112) \/ Here(28, 112) \/ Here(60, 112) \/ Here(112, 116))

(* The first k words have been copied, the pointers have moved i and j     *)
(* words, and the count has been decremented l times.                      *)
Moved(k) == Copy(start.mem, start.gpr[A0], start.mem, start.gpr[A1], 4 * k)

Progress(i, j, l, k) ==
  /\ ~Refused
  /\ gpr[A0] = start.gpr[A0] + 4 * i /\ gpr[A1] = start.gpr[A1] + 4 * j
  /\ gpr[A2] = start.gpr[A2] - l /\ mem = Moved(k)
  /\ gpr[0] = 0 /\ gpr[Ra] = start.gpr[Ra]

Looping(k) ==
  \/ k <= start.gpr[A2] /\ Progress(k, k, k, k) /\
       \/ Here(64, 68) \/ Here(92, 96) \/ Here(96, 64)
       \/ k = start.gpr[A2] /\ Here(68, 100)
  \/ k < start.gpr[A2] /\ Progress(k, k, k, k) /\
       \/ Here(68, 72) \/ Here(72, 76)
       \/ Here(76, 80) /\ gpr[T0] = WordAt(mem, gpr[A1])
  \/ k < start.gpr[A2] /\ Progress(k, k, k, k + 1) /\ Here(80, 84)
  \/ k < start.gpr[A2] /\ Progress(k + 1, k, k, k + 1) /\ Here(84, 88)
  \/ k < start.gpr[A2] /\ Progress(k + 1, k + 1, k, k + 1) /\ Here(88, 92)

(* What it gives back.                                                     *)
Result ==
  /\ gpr[V0] = IF Refused THEN WordSpace - 1 ELSE 0
  /\ mem = IF Refused THEN start.mem ELSE Moved(start.gpr[A2])

Returning ==
  /\ gpr[0] = 0 /\ gpr[Ra] = start.gpr[Ra]
  /\ \/ ~Refused /\ mem = Moved(start.gpr[A2]) /\ Here(100, 104)
     \/ ~Refused /\ Result /\ (Here(104, 108) \/ Here(108, 116))
     \/ Result /\ (Here(116, 120) \/ Here(120, start.gpr[Ra]))
     \/ Result /\ stop = "no" /\ adv1 = start.gpr[Ra]

CopyInv ==
  start.name = "MEMWORDCPY" =>
    /\ Untranslated
    /\ \/ Testing
       \/ \E k \in Nat : Looping(k)
       \/ Returning
       \/ Result /\ stop = "exception" /\ pc = start.gpr[Ra]

(* The code of MEMWORDCPY.                                                 *)
LEMMA CopyCode ==
  ASSUME MInv, start.name = "MEMWORDCPY"
  PROVE  /\ CodeAt(0) = Shift("SRL", AT, A0, 2) /\ CodeAt(4) = Shift("SLL", AT, AT, 2)
         /\ CodeAt(8) = I("BNE", A0, AT, 24 + 1) /\ CodeAt(12) = Nop
         /\ CodeAt(16) = Shift("SRL", AT, A1, 2) /\ CodeAt(20) = Shift("SLL", AT, AT, 2)
         /\ CodeAt(24) = I("BNE", A1, AT, 20 + 1) /\ CodeAt(28) = Nop
         /\ CodeAt(32) = Shift("SLL", T0, A2, 2)
         /\ CodeAt(36) = R("ADD", T1, A0, T0) /\ CodeAt(40) = R("SLTU", T1, A1, T1)
         /\ CodeAt(44) = R("ADD", AT, A1, T0) /\ CodeAt(48) = R("SLTU", AT, A0, AT)
         /\ CodeAt(52) = R("AND", T1, T1, AT)
         /\ CodeAt(56) = I("BNE", 0, T1, 12 + 1) /\ CodeAt(60) = Nop
         /\ CodeAt(64) = I("BEQ", 0, A2, 7 + 1) /\ CodeAt(68) = Nop
         /\ CodeAt(72) = I("LW", T0, A1, 0) /\ CodeAt(76) = I("SW", T0, A0, 0)
         /\ CodeAt(80) = I("ADDI", A0, A0, 4) /\ CodeAt(84) = I("ADDI", A1, A1, 4)
         /\ CodeAt(88) = I("ADDI", A2, A2, -1)
         /\ CodeAt(92) = [Nop EXCEPT !.op = "J", !.im = 16] /\ CodeAt(96) = Nop
         /\ CodeAt(100) = R("AND", V0, 0, 0)
         /\ CodeAt(104) = [Nop EXCEPT !.op = "J", !.im = 29] /\ CodeAt(108) = Nop
         /\ CodeAt(112) = I("ADDI", V0, 0, -1)
         /\ CodeAt(116) = R("JR", 0, Ra, 0) /\ CodeAt(120) = Nop
         /\ CodeAt(start.gpr[Ra]) = Reserved
<1> DEFINE code == MEMWORDCPY
<1>1. start.code = Placed(0, code) /\ start.gpr[Ra] \notin DOMAIN start.code
  BY NamedPrograms DEF MInv, Begins
<1>4. /\ DOMAIN code = 1..31
      /\ code[1] = Shift("SRL", AT, A0, 2) /\ code[2] = Shift("SLL", AT, AT, 2)
      /\ code[3] = I("BNE", A0, AT, 24 + 1) /\ code[4] = Nop
      /\ code[5] = Shift("SRL", AT, A1, 2) /\ code[6] = Shift("SLL", AT, AT, 2)
      /\ code[7] = I("BNE", A1, AT, 20 + 1) /\ code[8] = Nop
      /\ code[9] = Shift("SLL", T0, A2, 2)
      /\ code[10] = R("ADD", T1, A0, T0) /\ code[11] = R("SLTU", T1, A1, T1)
      /\ code[12] = R("ADD", AT, A1, T0) /\ code[13] = R("SLTU", AT, A0, AT)
      /\ code[14] = R("AND", T1, T1, AT)
      /\ code[15] = I("BNE", 0, T1, 12 + 1) /\ code[16] = Nop
      /\ code[17] = I("BEQ", 0, A2, 7 + 1) /\ code[18] = Nop
      /\ code[19] = I("LW", T0, A1, 0) /\ code[20] = I("SW", T0, A0, 0)
      /\ code[21] = I("ADDI", A0, A0, 4) /\ code[22] = I("ADDI", A1, A1, 4)
      /\ code[23] = I("ADDI", A2, A2, -1)
      /\ code[24] = [Nop EXCEPT !.op = "J", !.im = 16] /\ code[25] = Nop
      /\ code[26] = R("AND", V0, 0, 0) /\ code[27] = [Nop EXCEPT !.op = "J", !.im = 29]
      /\ code[28] = Nop /\ code[29] = I("ADDI", V0, 0, -1) /\ code[30] = R("JR", 0, Ra, 0)
      /\ code[31] = Nop
  BY DEF MEMWORDCPY, bnaln, sovlp, Branch, J, Jr
<1> HIDE DEF code
<1>5. \A k \in 1..31 : CodeAt(4 * k - 4) = code[k]
  <2>1. PICK n \in Nat : n = 31 /\ DOMAIN code = 1..n
    BY <1>4
  <2>2. \A k \in 1..n : CodeAt(4 * k - 4) = code[k]
    BY <1>1, <2>1, PlacedCode
  <2> QED
    BY <2>1, <2>2
<1>6. /\ CodeAt(0) = code[1] /\ CodeAt(4) = code[2] /\ CodeAt(8) = code[3] /\ CodeAt(12) = code[4]
      /\ CodeAt(16) = code[5] /\ CodeAt(20) = code[6] /\ CodeAt(24) = code[7] /\ CodeAt(28) = code[8]
      /\ CodeAt(32) = code[9] /\ CodeAt(36) = code[10] /\ CodeAt(40) = code[11]
      /\ CodeAt(44) = code[12] /\ CodeAt(48) = code[13] /\ CodeAt(52) = code[14]
      /\ CodeAt(56) = code[15] /\ CodeAt(60) = code[16] /\ CodeAt(64) = code[17]
      /\ CodeAt(68) = code[18] /\ CodeAt(72) = code[19] /\ CodeAt(76) = code[20]
      /\ CodeAt(80) = code[21] /\ CodeAt(84) = code[22] /\ CodeAt(88) = code[23]
      /\ CodeAt(92) = code[24] /\ CodeAt(96) = code[25] /\ CodeAt(100) = code[26]
      /\ CodeAt(104) = code[27] /\ CodeAt(108) = code[28] /\ CodeAt(112) = code[29]
      /\ CodeAt(116) = code[30] /\ CodeAt(120) = code[31]
  BY <1>5
<1>7. CodeAt(start.gpr[Ra]) = Reserved
  BY <1>1 DEF CodeAt
<1> QED
  BY <1>4, <1>6, <1>7

(* A step of a test sets one of the registers it uses.                     *)
LEMMA TestSets ==
  ASSUME Untranslated, start' = start, Untouched, stop = "no", NEW p \in 0..128, adv1 = p, adv2 = p + 4,
         Follows, NEW r \in {AT, T0, T1}, NEW x, gpr' = [gpr EXCEPT ![r] = x]
  PROVE  /\ Untouched' /\ Here(p + 4, p + 8)' /\ cpr' = cpr
         /\ gpr'[r] = x /\ \A q \in Regs : q # r => gpr'[q] = gpr[q]
<1>1. ToWord(p + 4 + 4) = p + 8
  <2>1. PICK n \in Nat : n = p + 4 + 4 /\ n < 4096 /\ n = p + 8
    OBVIOUS
  <2> QED
    BY <2>1, ProgramWidths
<1>2. gpr'[r] = x /\ \A q \in Regs : q # r => gpr'[q] = gpr[q]
  BY RegisterNumbers DEF Untranslated, MInv, MachineTypeOK
<1>3. Untouched'
  BY <1>2, RegisterNumbers DEF Untouched, Follows
<1> QED
  BY <1>1, <1>2, <1>3 DEF Here, Follows

(* The branch of the test of an address goes to MWCPERR.                   *)
BranchesToError(a, n) == a + 12 + 4 * n = 112

(* The test of an address goes on, or refuses it.                          *)
LEMMA AligningSteps ==
  ASSUME Untranslated, Next, start' = start, start.gpr[0] = 0, Untouched,
         NEW a \in {0, 16}, NEW r \in {A0, A1}, NEW n \in 1..31, BranchesToError(a, n),
         CodeAt(a) = Shift("SRL", AT, r, 2), CodeAt(a + 4) = Shift("SLL", AT, AT, 2),
         CodeAt(a + 8) = I("BNE", r, AT, n), CodeAt(a + 12) = Nop, Aligning(a, r)
  PROVE  /\ Untouched' /\ cpr' = cpr
         /\ \/ Aligning(a, r)'
            \/ start.gpr[r] % 4 = 0 /\ Here(a + 16, a + 20)'
            \/ start.gpr[r] % 4 # 0 /\ Here(a + 12, 112)'
<1>1. AT \in Regs /\ AT # 0 /\ r \in Regs /\ r # AT /\ 0 \in Regs /\ r # 0
  BY RegisterNumbers
<1>2. PICK w \in Word : w = start.gpr[r] /\ w = gpr[r]
  <2>1. start.gpr[r] = gpr[r]
    BY DEF Untouched
  <2>2. start.gpr[r] \in Word
    BY <1>1, StartsAssumption DEF Untranslated, MInv
  <2> QED
    BY <2>1, <2>2
<1>3. gpr[0] = 0
  BY DEF Untouched
<1>4. /\ ToWord(w \div 4) = w \div 4 /\ ToWord((w \div 4) * 4) = (w \div 4) * 4
      /\ (w \div 4) * 4 = w <=> w % 4 = 0
  BY AlignedWord
<1>9. PICK quarter, cut : quarter = w \div 4 /\ cut = (w \div 4) * 4
  OBVIOUS
<1>5. CASE Here(a, a + 4)
  <2>1. PICK p \in 0..128 : p = a /\ adv1 = p /\ adv2 = p + 4 /\ stop = "no"
    BY <1>5 DEF Here
  <2>2. Current = Shift("SRL", AT, r, 2)
    BY <2>1 DEF Current
  <2>3. Follows /\ gpr' = [gpr EXCEPT ![AT] = quarter]
    BY <1>1, <1>2, <1>3, <1>4, <1>9, <2>2, ShiftsAndAdds, SMTT(30)
  <2>4. Untouched' /\ Here(p + 4, p + 8)' /\ cpr' = cpr /\ gpr'[AT] = quarter
    BY <2>1, <2>3, TestSets
  <2> QED
    BY <1>2, <1>9, <2>1, <2>4 DEF Aligning
<1>6. CASE Here(a + 4, a + 8) /\ gpr[AT] = start.gpr[r] \div 4
  <2>1. PICK p \in 0..128 : p = a + 4 /\ adv1 = p /\ adv2 = p + 4 /\ stop = "no"
    BY <1>6 DEF Here
  <2>2. Current = Shift("SLL", AT, AT, 2)
    BY <2>1 DEF Current
  <2>3. Follows /\ gpr' = [gpr EXCEPT ![AT] = cut]
    BY <1>1, <1>2, <1>3, <1>4, <1>6, <1>9, <2>2, ShiftsAndAdds, SMTT(30)
  <2>4. Untouched' /\ Here(p + 4, p + 8)' /\ cpr' = cpr /\ gpr'[AT] = cut
    BY <2>1, <2>3, TestSets
  <2>5. p + 4 = a + 8 /\ p + 8 = a + 12
    BY <2>1
  <2> QED
    BY <1>2, <1>9, <2>4, <2>5 DEF Aligning
<1>7. CASE Here(a + 8, a + 12) /\ gpr[AT] = (start.gpr[r] \div 4) * 4
  <2>0. PICK op \in {"BEQ", "BNE"} : op = "BNE"
    OBVIOUS
  <2>1. PICK p \in 0..128 : p = a + 8 /\ adv1 = p /\ adv2 = p + 4 /\ stop = "no"
    BY <1>7 DEF Here
  <2>a. adv1 = p /\ adv2 = p + 4 /\ AT \in Regs /\ r \in Regs
    BY <1>1, <2>1
  <2>2. Current = I(op, r, AT, n)
    BY <2>0, <2>1 DEF Current
  <2>3. /\ adv1' = p + 4 /\ gpr' = gpr /\ cpr' = cpr /\ stop' = stop /\ mem' = mem
        /\ adv2' = IF gpr[AT] # gpr[r] THEN p + 4 + 4 * n ELSE p + 8
    <3>1. /\ adv1' = p + 4 /\ gpr' = gpr /\ cpr' = cpr /\ stop' = stop /\ mem' = mem
          /\ op = "BNE" => adv2' = IF gpr[AT] # gpr[r] THEN p + 4 + 4 * n ELSE p + 8
      BY <2>a, <2>2, Branches
    <3> QED
      BY <2>0, <3>1, SMTT(30)
  <2>4. Untouched'
    BY <2>3 DEF Untouched
  <2>5. gpr[AT] = gpr[r] <=> start.gpr[r] % 4 = 0
    BY <1>2, <1>4, <1>7
  <2>6. p + 4 = a + 12 /\ p + 8 = a + 16 /\ p + 4 + 4 * n = 112
    BY <2>1 DEF BranchesToError
  <2>7. CASE start.gpr[r] % 4 = 0
    <3>1. Here(a + 12, a + 16)'
      BY <2>1, <2>3, <2>5, <2>6, <2>7 DEF Here
    <3> QED
      BY <2>3, <2>4, <2>7, <3>1 DEF Aligning
  <2>8. CASE start.gpr[r] % 4 # 0
    <3>1. Here(a + 12, 112)'
      BY <2>1, <2>3, <2>5, <2>6, <2>8 DEF Here
    <3> QED
      BY <2>3, <2>4, <2>8, <3>1
  <2> QED
    BY <2>7, <2>8
<1>8. CASE Here(a + 12, a + 16) /\ start.gpr[r] % 4 = 0
  <2>1. PICK n2 \in Nat : n2 = a + 16 + 4 /\ n2 < 4096 /\ n2 = a + 20
    OBVIOUS
  <2>2. Current = Nop
    BY <1>8 DEF Current, Here
  <2>3. Follows /\ gpr' = gpr
    BY <1>3, <2>2, SettingNone
  <2>4. Untouched' /\ cpr' = cpr
    BY <2>3 DEF Untouched, Follows
  <2>5. ToWord(a + 16 + 4) = a + 20
    BY <2>1, ProgramWidths
  <2>6. Here(a + 16, a + 20)'
    BY <1>8, <2>3, <2>5 DEF Here, Follows
  <2> QED
    BY <1>8, <2>4, <2>6
<1> QED
  BY <1>5, <1>6, <1>7, <1>8 DEF Aligning

(* What the copy is called with.                                           *)
LEMMA CopyOperands ==
  ASSUME MInv, start.name = "MEMWORDCPY"
  PROVE  \E d \in Nat, s \in Nat, c \in Nat :
           /\ d = start.gpr[A0] /\ s = start.gpr[A1] /\ c = start.gpr[A2] /\ start.gpr[0] = 0
           /\ d + 4 * c <= MemSize /\ d + 4 * c < WordSpace /\ s + 4 * c <= MemSize
           /\ s + 4 * c < WordSpace /\ Apart(d, 4 * c)
<1>1. start.gpr \in [Regs -> Word]
  BY StartsAssumption DEF MInv
<1>2. \A w \in Word : w \in Nat
  BY Widths DEF Word
<1>3. start.gpr[A0] \in Nat /\ start.gpr[A1] \in Nat /\ start.gpr[A2] \in Nat
  BY <1>1, <1>2, RegisterNumbers
<1>4. /\ start.gpr[0] = 0 /\ Apart(start.gpr[A0], 4 * start.gpr[A2])
      /\ \A r \in {A0, A1} : /\ start.gpr[r] + 4 * start.gpr[A2] <= MemSize
                             /\ start.gpr[r] + 4 * start.gpr[A2] < WordSpace
  BY NamedPrograms DEF MInv, Begins
<1> QED
  BY <1>3, <1>4

(* The test of the ranges goes on, or refuses them.                        *)
LEMMA OverlappingSteps ==
  ASSUME Untranslated, Next, start' = start, start.name = "MEMWORDCPY", Untouched, Overlapping
  PROVE  /\ Untouched' /\ cpr' = cpr
         /\ \/ Overlapping'
            \/ ~Overlap /\ Here(64, 68)'
            \/ Overlap /\ Here(60, 112)'
<1>1. /\ AT \in Regs /\ AT # 0 /\ T0 \in Regs /\ T0 # 0 /\ T1 \in Regs /\ T1 # 0 /\ A0 \in Regs
      /\ A1 \in Regs /\ A2 \in Regs /\ AT # T0 /\ AT # T1 /\ T0 # T1 /\ 0 \in Regs
  BY RegisterNumbers
<1>2. /\ CodeAt(32) = Shift("SLL", T0, A2, 2)
      /\ CodeAt(36) = R("ADD", T1, A0, T0) /\ CodeAt(40) = R("SLTU", T1, A1, T1)
      /\ CodeAt(44) = R("ADD", AT, A1, T0) /\ CodeAt(48) = R("SLTU", AT, A0, AT)
      /\ CodeAt(52) = R("AND", T1, T1, AT)
      /\ CodeAt(56) = I("BNE", 0, T1, 12 + 1) /\ CodeAt(60) = Nop
  BY CopyCode DEF Untranslated
<1>b. PICK d \in Nat, s \in Nat, c \in Nat :
        /\ d = start.gpr[A0] /\ s = start.gpr[A1] /\ c = start.gpr[A2] /\ start.gpr[0] = 0
        /\ d + 4 * c < WordSpace /\ s + 4 * c < WordSpace
  BY CopyOperands DEF Untranslated
<1>c. PICK n \in Nat : n = 4 * c /\ n = 4 * start.gpr[A2]
  BY <1>b
<1>d. PICK before \in {0, 1}, after \in {0, 1} :
        /\ before = Truth(s < d + n) /\ (before = 1 <=> s < d + n)
        /\ after = Truth(d < s + n) /\ (after = 1 <=> d < s + n)
  BY DEF Truth
<1>e. PICK both \in {0, 1} : both = And(before, after) /\ both = Truth(Overlap) /\ (both = 0 <=> ~Overlap)
  <2>1. And(before, after) = before * after /\ before * after \in {0, 1}
    BY AndOfTruths
  <2>2. before * after = 1 <=> before = 1 /\ after = 1
    OBVIOUS
  <2>3. Overlap <=> s < d + n /\ d < s + n
    <3>1. Common(d, s, n) # {} <=> s < d + n /\ d < s + n
      BY CommonAddress
    <3> QED
      BY <1>b, <1>c, <3>1 DEF Overlap
  <2>4. Overlap <=> before * after = 1
    BY <1>d, <2>2, <2>3
  <2>5. Truth(Overlap) = before * after
    BY <2>1, <2>4 DEF Truth
  <2> QED
    BY <2>1, <2>4, <2>5
<1>3. /\ gpr[0] = 0 /\ gpr[A0] = d /\ gpr[A1] = s /\ gpr[A2] = c
      /\ start'.gpr[A0] = d /\ start'.gpr[A1] = s /\ start'.gpr[A2] = c
      /\ n = 4 * c
      /\ n = 4 * start.gpr[A2] /\ start.gpr[A0] = d /\ start.gpr[A1] = s
      /\ before = Truth(start.gpr[A1] < start.gpr[A0] + n)
      /\ after = Truth(start.gpr[A0] < start.gpr[A1] + n)
      /\ both = Truth(Overlap) /\ Overlap' = Overlap
  BY <1>b, <1>c, <1>d, <1>e DEF Untouched, Overlap
<1>a. /\ ToWord(c * 4) = n /\ ToWord(d + n) = d + n /\ ToWord(s + n) = s + n
      /\ ToWord(And(before, after)) = both
      /\ before = Truth(s < d + n) /\ after = Truth(d < s + n)
  <2>1. \A m, w \in Nat : m < w => m % w = m
    OBVIOUS
  <2>2. WordSpace \in Nat /\ WordSpace >= 16
    BY Widths
  <2>3. c * 4 = n /\ n < WordSpace /\ d + n < WordSpace /\ s + n < WordSpace /\ both < WordSpace
    BY <1>b, <1>c, <2>2
  <2> QED
    BY <1>d, <1>e, <2>1, <2>2, <2>3 DEF ToWord
<1>4. CASE Here(32, 36)
  <2>0. PICK x : x = n
    OBVIOUS
  <2>1. PICK p \in 0..128 : p = 32 /\ adv1 = p /\ adv2 = p + 4 /\ stop = "no"
    BY <1>4 DEF Here
  <2>2. Current = Shift("SLL", T0, A2, 2)
    BY <1>2, <2>1 DEF Current
  <2>3. Follows /\ gpr' = [gpr EXCEPT ![T0] = x]
    BY <1>1, <1>3, <1>a, <1>4, <2>0, <2>1, <2>2, ShiftsAndAdds
  <2>4. /\ Untouched' /\ Here(p + 4, p + 8)' /\ cpr' = cpr
        /\ gpr'[T0] = x /\ \A q \in Regs : q # T0 => gpr'[q] = gpr[q]
    BY <2>1, <2>3, TestSets
  <2>5. p + 4 = 36 /\ p + 8 = 40
    BY <2>1
  <2> QED
    BY <1>1, <1>3, <1>4, <2>0, <2>1, <2>4, <2>5 DEF Overlapping
<1>5. CASE Here(36, 40) /\ gpr[T0] = n
  <2>0. PICK x : x = d + n
    OBVIOUS
  <2>1. PICK p \in 0..128 : p = 36 /\ adv1 = p /\ adv2 = p + 4 /\ stop = "no"
    BY <1>5 DEF Here
  <2>2. Current = R("ADD", T1, A0, T0)
    BY <1>2, <2>1 DEF Current
  <2>3. Follows /\ gpr' = [gpr EXCEPT ![T1] = x]
    BY <1>1, <1>3, <1>a, <1>5, <2>0, <2>1, <2>2, Registers
  <2>4. /\ Untouched' /\ Here(p + 4, p + 8)' /\ cpr' = cpr
        /\ gpr'[T1] = x /\ \A q \in Regs : q # T1 => gpr'[q] = gpr[q]
    BY <2>1, <2>3, TestSets
  <2>5. p + 4 = 40 /\ p + 8 = 44
    BY <2>1
  <2> QED
    BY <1>1, <1>3, <1>5, <2>0, <2>1, <2>4, <2>5 DEF Overlapping
<1>6. CASE Here(40, 44) /\ gpr[T0] = n /\ gpr[T1] = d + n
  <2>0. PICK x : x = before
    OBVIOUS
  <2>1. PICK p \in 0..128 : p = 40 /\ adv1 = p /\ adv2 = p + 4 /\ stop = "no"
    BY <1>6 DEF Here
  <2>2. Current = R("SLTU", T1, A1, T1)
    BY <1>2, <2>1 DEF Current
  <2>3. Follows /\ gpr' = [gpr EXCEPT ![T1] = x]
    BY <1>1, <1>3, <1>a, <1>6, <2>0, <2>1, <2>2, Registers
  <2>4. /\ Untouched' /\ Here(p + 4, p + 8)' /\ cpr' = cpr
        /\ gpr'[T1] = x /\ \A q \in Regs : q # T1 => gpr'[q] = gpr[q]
    BY <2>1, <2>3, TestSets
  <2>5. p + 4 = 44 /\ p + 8 = 48
    BY <2>1
  <2> QED
    BY <1>1, <1>3, <1>6, <2>0, <2>1, <2>4, <2>5 DEF Overlapping
<1>7. CASE Here(44, 48) /\ gpr[T0] = n /\ gpr[T1] = before
  <2>0. PICK x : x = s + n
    OBVIOUS
  <2>1. PICK p \in 0..128 : p = 44 /\ adv1 = p /\ adv2 = p + 4 /\ stop = "no"
    BY <1>7 DEF Here
  <2>2. Current = R("ADD", AT, A1, T0)
    BY <1>2, <2>1 DEF Current
  <2>3. Follows /\ gpr' = [gpr EXCEPT ![AT] = x]
    BY <1>1, <1>3, <1>a, <1>7, <2>0, <2>1, <2>2, Registers
  <2>4. /\ Untouched' /\ Here(p + 4, p + 8)' /\ cpr' = cpr
        /\ gpr'[AT] = x /\ \A q \in Regs : q # AT => gpr'[q] = gpr[q]
    BY <2>1, <2>3, TestSets
  <2>5. p + 4 = 48 /\ p + 8 = 52
    BY <2>1
  <2> QED
    BY <1>1, <1>3, <1>7, <2>0, <2>1, <2>4, <2>5 DEF Overlapping
<1>8. CASE Here(48, 52) /\ gpr[T1] = before /\ gpr[AT] = s + n
  <2>0. PICK x : x = after
    OBVIOUS
  <2>1. PICK p \in 0..128 : p = 48 /\ adv1 = p /\ adv2 = p + 4 /\ stop = "no"
    BY <1>8 DEF Here
  <2>2. Current = R("SLTU", AT, A0, AT)
    BY <1>2, <2>1 DEF Current
  <2>3. Follows /\ gpr' = [gpr EXCEPT ![AT] = x]
    BY <1>1, <1>3, <1>a, <1>8, <2>0, <2>1, <2>2, Registers
  <2>4. /\ Untouched' /\ Here(p + 4, p + 8)' /\ cpr' = cpr
        /\ gpr'[AT] = x /\ \A q \in Regs : q # AT => gpr'[q] = gpr[q]
    BY <2>1, <2>3, TestSets
  <2>5. p + 4 = 52 /\ p + 8 = 56
    BY <2>1
  <2> QED
    BY <1>1, <1>3, <1>8, <2>0, <2>1, <2>4, <2>5 DEF Overlapping
<1>9. CASE Here(52, 56) /\ gpr[T1] = before /\ gpr[AT] = after
  <2>0. PICK x : x = both
    OBVIOUS
  <2>1. PICK p \in 0..128 : p = 52 /\ adv1 = p /\ adv2 = p + 4 /\ stop = "no"
    BY <1>9 DEF Here
  <2>2. Current = R("AND", T1, T1, AT)
    BY <1>2, <2>1 DEF Current
  <2>3. Follows /\ gpr' = [gpr EXCEPT ![T1] = x]
    BY <1>1, <1>3, <1>a, <1>9, <2>0, <2>1, <2>2, Registers
  <2>4. /\ Untouched' /\ Here(p + 4, p + 8)' /\ cpr' = cpr
        /\ gpr'[T1] = x /\ \A q \in Regs : q # T1 => gpr'[q] = gpr[q]
    BY <2>1, <2>3, TestSets
  <2>5. p + 4 = 56 /\ p + 8 = 60
    BY <2>1
  <2> QED
    BY <1>1, <1>3, <1>9, <2>0, <2>1, <2>4, <2>5 DEF Overlapping
<1>10. CASE Here(56, 60) /\ gpr[T1] = both
  <2>0. PICK op \in {"BEQ", "BNE"}, k \in 1..31 : op = "BNE" /\ k = 13
    OBVIOUS
  <2>1. PICK p \in 0..128, z \in Regs :
          p = 56 /\ z = 0 /\ adv1 = p /\ adv2 = p + 4 /\ stop = "no"
    BY <1>1, <1>10 DEF Here
  <2>2. Current = I(op, z, T1, k)
    BY <1>2, <2>0, <2>1 DEF Current
  <2>3. adv1 = p /\ adv2 = p + 4 /\ T1 \in Regs
    BY <1>1, <2>1, SMTT(30)
  <2>4. /\ adv1' = p + 4 /\ gpr' = gpr /\ cpr' = cpr /\ stop' = stop /\ mem' = mem
        /\ op = "BNE" => adv2' = IF gpr[T1] # gpr[z] THEN p + 4 + 4 * k ELSE p + 8
    BY <2>2, <2>3, Branches
  <2>5. Untouched'
    BY <2>4 DEF Untouched
  <2>6. gpr[T1] # gpr[z] <=> Overlap
    BY <1>3, <1>e, <1>10, <2>1
  <2>7. p + 4 = 60 /\ p + 4 + 4 * k = 112 /\ p + 8 = 64
    BY <2>0, <2>1
  <2>8. Here(60, IF Overlap THEN 112 ELSE 64)'
    BY <1>3, <2>0, <2>1, <2>4, <2>6, <2>7 DEF Here
  <2> QED
    BY <1>3, <2>4, <2>5, <2>8 DEF Overlapping
<1>11. CASE Here(60, 64) /\ ~Overlap
  <2>1. Current = Nop
    BY <1>2, <1>11 DEF Current, Here
  <2>2. Follows /\ gpr' = gpr
    BY <1>3, <2>1, SettingNone
  <2>3. Untouched' /\ cpr' = cpr
    BY <2>2 DEF Untouched, Follows
  <2>4. ToWord(64 + 4) = 68
    BY ProgramWidths
  <2>5. Here(64, 68)'
    BY <1>11, <2>2, <2>4 DEF Here, Follows
  <2> QED
    BY <1>11, <2>3, <2>5
<1> QED
  BY <1>3, <1>4, <1>5, <1>6, <1>7, <1>8, <1>9, <1>10, <1>11 DEF Overlapping

(* What is refused depends on what the copy is called with alone.          *)
LEMMA StartDecides ==
  ASSUME start' = start
  PROVE  /\ Refused' = Refused /\ Overlap' = Overlap /\ (\A k \in Nat : Moved(k)' = Moved(k))
         /\ start'.gpr = start.gpr /\ start'.mem = start.mem
BY DEF Refused, Overlap, Moved

(* Nothing has been copied before the first word.                          *)
LEMMA NothingMoved == ASSUME MInv, start.name = "MEMWORDCPY" PROVE Moved(0) = start.mem
<1>1. start.mem \in [0..MemSize - 1 -> 0..Byte - 1]
  BY StartsAssumption DEF MInv
<1>2. PICK d \in Nat : d = start.gpr[A0]
  BY CopyOperands
<1>3. \A a \in DOMAIN start.mem : ~(a \in d..d + 4 * 0 - 1)
  BY <1>2
<1> QED
  BY <1>1, <1>2, <1>3 DEF Moved, Copy

(* A step sets a register and goes on to the next instruction.             *)
LEMMA SetsAt ==
  ASSUME Untranslated, Follows, stop = "no", NEW q \in 0..128, adv2 = q, NEW r \in Regs, NEW x,
         gpr' = [gpr EXCEPT ![r] = x]
  PROVE  /\ Here(q, q + 4)' /\ cpr' = cpr /\ mem' = mem
         /\ gpr'[r] = x /\ \A s \in Regs : s # r => gpr'[s] = gpr[s]
<1>1. q + 4 \in Nat /\ q + 4 < 4096
  OBVIOUS
<1>2. ToWord(q + 4) = q + 4
  BY <1>1, ProgramWidths
<1>3. gpr'[r] = x /\ \A s \in Regs : s # r => gpr'[s] = gpr[s]
  BY DEF Untranslated, MInv, MachineTypeOK
<1> QED
  BY <1>2, <1>3 DEF Here, Follows

(* A step does nothing but go on to the next instruction.                  *)
LEMMA NopAt ==
  ASSUME Untranslated, Next, gpr[0] = 0, stop = "no", NEW q \in 0..128, adv2 = q, Current = Nop
  PROVE  Here(q, q + 4)' /\ cpr' = cpr /\ mem' = mem /\ gpr' = gpr
<1>1. Follows /\ gpr' = gpr
  BY SettingNone
<1>2. q + 4 \in Nat /\ q + 4 < 4096
  OBVIOUS
<1>3. ToWord(q + 4) = q + 4
  BY <1>2, ProgramWidths
<1> QED
  BY <1>1, <1>3 DEF Here, Follows

(* The tests go on, refuse the call, or let it copy.                       *)
LEMMA TestingSteps ==
  ASSUME Untranslated, Next, start' = start, start.name = "MEMWORDCPY", Testing
  PROVE  cpr' = cpr /\ (Testing' \/ Looping(0)' \/ Returning')
<1> USE DEF Untranslated
<1>1. start.gpr[0] = 0 /\ Untouched /\ gpr[0] = 0
  BY CopyOperands DEF Testing, Untouched
<1>2. Refused' = Refused /\ start'.gpr = start.gpr
  BY StartDecides
<1>3. /\ V0 \in Regs /\ V0 # 0 /\ V0 # Ra /\ A0 \in Regs /\ A1 \in Regs /\ A2 \in Regs /\ Ra \in Regs
      /\ 0 \in Regs
  BY RegisterNumbers, MachineAssumption, ProgramsAssumption DEF V0
<1>4. CASE Aligning(0, A0)
  <2>1. PICK a \in {0, 16}, r \in {A0, A1}, n \in 1..31 : a = 0 /\ r = A0 /\ n = 24 + 1
    OBVIOUS
  <2>2. BranchesToError(a, n) /\ Aligning(a, r)
    BY <1>4, <2>1 DEF BranchesToError
  <2>3. /\ CodeAt(a) = Shift("SRL", AT, r, 2) /\ CodeAt(a + 4) = Shift("SLL", AT, AT, 2)
        /\ CodeAt(a + 8) = I("BNE", r, AT, n) /\ CodeAt(a + 12) = Nop
    BY <2>1, CopyCode
  <2>4. /\ Untouched' /\ cpr' = cpr
        /\ \/ Aligning(a, r)'
           \/ start.gpr[r] % 4 = 0 /\ Here(a + 16, a + 20)'
           \/ start.gpr[r] % 4 # 0 /\ Here(a + 12, 112)'
    BY <1>1, <2>2, <2>3, AligningSteps
  <2>5. CASE Aligning(a, r)'
    BY <1>2, <2>1, <2>4, <2>5 DEF Testing, Aligning
  <2>6. CASE start.gpr[r] % 4 = 0 /\ Here(a + 16, a + 20)'
    BY <1>2, <2>1, <2>4, <2>6 DEF Testing, Aligning
  <2>7. CASE start.gpr[r] % 4 # 0 /\ Here(a + 12, 112)'
    <3>1. Refused
      BY <2>1, <2>7 DEF Refused
    <3> QED
      BY <1>2, <2>1, <2>4, <2>7, <3>1 DEF Testing
  <2> QED
    BY <2>4, <2>5, <2>6, <2>7
<1>5. CASE start.gpr[A0] % 4 = 0 /\ Aligning(16, A1)
  <2>1. PICK a \in {0, 16}, r \in {A0, A1}, n \in 1..31 : a = 16 /\ r = A1 /\ n = 20 + 1
    OBVIOUS
  <2>2. BranchesToError(a, n) /\ Aligning(a, r)
    BY <1>5, <2>1 DEF BranchesToError
  <2>3. /\ CodeAt(a) = Shift("SRL", AT, r, 2) /\ CodeAt(a + 4) = Shift("SLL", AT, AT, 2)
        /\ CodeAt(a + 8) = I("BNE", r, AT, n) /\ CodeAt(a + 12) = Nop
    BY <2>1, CopyCode
  <2>4. /\ Untouched' /\ cpr' = cpr
        /\ \/ Aligning(a, r)'
           \/ start.gpr[r] % 4 = 0 /\ Here(a + 16, a + 20)'
           \/ start.gpr[r] % 4 # 0 /\ Here(a + 12, 112)'
    BY <1>1, <2>2, <2>3, AligningSteps
  <2>5. CASE Aligning(a, r)'
    BY <1>2, <1>5, <2>1, <2>4, <2>5 DEF Testing, Aligning
  <2>6. CASE start.gpr[r] % 4 = 0 /\ Here(a + 16, a + 20)'
    BY <1>2, <1>5, <2>1, <2>4, <2>6 DEF Testing, Overlapping
  <2>7. CASE start.gpr[r] % 4 # 0 /\ Here(a + 12, 112)'
    <3>1. Refused
      BY <2>1, <2>7 DEF Refused
    <3> QED
      BY <1>2, <2>1, <2>4, <2>7, <3>1 DEF Testing
  <2> QED
    BY <2>4, <2>5, <2>6, <2>7
<1>6. CASE start.gpr[A0] % 4 = 0 /\ start.gpr[A1] % 4 = 0 /\ Overlapping
  <2>1. /\ Untouched' /\ cpr' = cpr
        /\ \/ Overlapping'
           \/ ~Overlap /\ Here(64, 68)'
           \/ Overlap /\ Here(60, 112)'
    BY <1>1, <1>6, OverlappingSteps
  <2>2. CASE Overlapping'
    BY <1>2, <1>6, <2>1, <2>2 DEF Testing
  <2>3. CASE ~Overlap /\ Here(64, 68)'
    <3>1. mem' = Moved(0)'
      BY <2>1, NothingMoved, StartDecides DEF Untouched
    <3>2. ~Refused'
      BY <1>2, <1>6, <2>3 DEF Refused
    <3>3. /\ start.gpr[A0] \in Nat /\ start.gpr[A1] \in Nat /\ start.gpr[A2] \in Nat
      BY CopyOperands
    <3>4. /\ gpr'[A0] = start'.gpr[A0] /\ gpr'[A1] = start'.gpr[A1] /\ gpr'[A2] = start'.gpr[A2]
          /\ gpr'[0] = 0 /\ gpr'[Ra] = start'.gpr[Ra]
      BY <1>1, <1>2, <2>1 DEF Untouched
    <3>5. Progress(0, 0, 0, 0)'
      BY <1>2, <3>1, <3>2, <3>3, <3>4 DEF Progress
    <3>6. 0 <= start'.gpr[A2]
      BY <1>2, <3>3
    <3> QED
      BY <2>1, <2>3, <3>5, <3>6 DEF Looping
  <2>4. CASE Overlap /\ Here(60, 112)'
    <3>1. Refused
      BY <2>4 DEF Refused
    <3> QED
      BY <1>2, <2>1, <2>4, <3>1 DEF Testing
  <2> QED
    BY <2>1, <2>2, <2>3, <2>4
<1>7. CASE Refused /\ (Here(12, 112) \/ Here(28, 112) \/ Here(60, 112))
  <2>1. PICK p \in 0..128, q \in 0..128 :
          adv1 = p /\ adv2 = q /\ q = 112 /\ stop = "no" /\ p \in {12, 28, 60}
    BY <1>7 DEF Here
  <2>2. Current = Nop
    BY <2>1, CopyCode DEF Current
  <2>3. Here(q, q + 4)' /\ cpr' = cpr /\ mem' = mem /\ gpr' = gpr
    BY <1>1, <2>1, <2>2, NopAt
  <2>4. q + 4 = 116
    BY <2>1
  <2>5. Here(112, 116)'
    BY <2>1, <2>3, <2>4
  <2>6. Untouched'
    BY <1>1, <2>3 DEF Untouched
  <2> QED
    BY <1>2, <1>7, <2>3, <2>5, <2>6 DEF Testing
<1>8. CASE Refused /\ Here(112, 116)
  <2>0. PICK x \in Nat : x = WordSpace - 1
    BY ProgramWidths
  <2>1. PICK p \in 0..128, q \in 0..128, z \in Regs, d \in Regs :
          adv1 = p /\ p = 112 /\ adv2 = q /\ q = 116 /\ z = 0 /\ d = V0 /\ stop = "no"
    BY <1>3, <1>8 DEF Here
  <2>2. Current = I("ADDI", d, z, -1)
    BY <2>1, CopyCode DEF Current
  <2>3. ToWord(gpr[z] - 1) = x
    <3>1. \A w \in Nat : w >= 4096 => (0 - 1) % w = w - 1
      OBVIOUS
    <3> QED
      BY <1>1, <2>0, <2>1, <3>1, ProgramWidths DEF ToWord
  <2>4. Follows /\ gpr' = [gpr EXCEPT ![d] = x]
    BY <1>1, <1>3, <2>1, <2>2, <2>3, ShiftsAndAdds, SMTT(30)
  <2>5. /\ Here(q, q + 4)' /\ cpr' = cpr /\ mem' = mem
        /\ gpr'[d] = x /\ \A s \in Regs : s # d => gpr'[s] = gpr[s]
    <3>1. stop = "no" /\ adv2 = q /\ Follows /\ gpr' = [gpr EXCEPT ![d] = x]
      BY <2>1, <2>4
    <3> HIDE DEF Untranslated
    <3> QED
      BY <3>1, SetsAt
  <2>6. q + 4 = 120
    BY <2>1
  <2>7. Here(116, 120)'
    BY <2>1, <2>5, <2>6
  <2>8. Result'
    BY <1>1, <1>2, <1>8, <2>0, <2>1, <2>5, StartDecides DEF Result, Untouched
  <2>9. gpr'[0] = 0 /\ gpr'[Ra] = start'.gpr[Ra]
    BY <1>1, <1>2, <1>3, <2>1, <2>5 DEF Untouched
  <2> QED
    BY <2>5, <2>7, <2>8, <2>9 DEF Returning
<1> QED
  BY <1>4, <1>5, <1>6, <1>7, <1>8 DEF Testing

(* One more word is copied from a range that does not overlap the other.   *)
LEMMA MovesWord ==
  ASSUME MInv, start.name = "MEMWORDCPY", ~Refused, NEW k \in Nat, k < start.gpr[A2],
         NEW p \in Nat, p = start.gpr[A0] + 4 * k, NEW q \in Nat, q = start.gpr[A1] + 4 * k
  PROVE  /\ p + 4 <= MemSize /\ p # HddPort /\ p # DmaPort /\ q + 4 <= MemSize
         /\ Put(Moved(k), p, 4, WordAt(Moved(k), q)) = Moved(k + 1)
<1>1. PICK d \in Nat, s \in Nat, c \in Nat :
        /\ d = start.gpr[A0] /\ s = start.gpr[A1] /\ c = start.gpr[A2]
        /\ d + 4 * c <= MemSize /\ s + 4 * c <= MemSize /\ Apart(d, 4 * c)
  BY CopyOperands
<1>2. start.mem \in Bytes(MemSize) /\ MemSize \in Nat
  BY StartsAssumption, Ports DEF MInv, Bytes
<1>3. k < c /\ p = d + 4 * k /\ q = s + 4 * k /\ p + 4 <= d + 4 * c /\ q + 4 <= s + 4 * c
  BY <1>1
<1>4. p # HddPort /\ p # DmaPort
  <2>1. p \in d..d + 4 * c - 1
    BY <1>3
  <2>2. p \notin HddPort..HddPort + 15 /\ p \notin DmaPort..DmaPort + 15
    BY <1>1, <2>1 DEF Apart
  <2> QED
    BY <2>2, Ports
<1>5. ASSUME NEW x \in s..s + 4 * c - 1 PROVE x \notin d..d + 4 * c - 1
  <2>1. (d..d + 4 * c - 1) \cap (s..s + 4 * c - 1) = {}
    BY <1>1 DEF Refused, Overlap, Common
  <2> QED
    BY <2>1
<1>6. ASSUME NEW i \in Nat, i <= c
      PROVE  /\ Moved(i) = [a \in 0..MemSize - 1 |->
                              IF a \in d..d + 4 * i - 1 THEN start.mem[s + a - d] ELSE start.mem[a]]
             /\ Moved(i) \in Bytes(MemSize)
  <2>1. DOMAIN start.mem = 0..MemSize - 1
    BY <1>2 DEF Bytes
  <2>2. PICK len \in Int : len = 4 * i /\ s + len <= MemSize
    BY <1>1, <1>2, <1>6
  <2>3. Copy(start.mem, d, start.mem, s, len) \in Bytes(MemSize)
    BY <1>2, <2>2, CopyTyped
  <2>4. Moved(i) = Copy(start.mem, d, start.mem, s, len)
    BY <1>1, <2>2 DEF Moved
  <2> QED
    BY <2>1, <2>2, <2>3, <2>4 DEF Copy
<1>7. PICK m \in Bytes(MemSize) : m = Moved(k)
  BY <1>3, <1>6
<1>a. \A a \in 0..MemSize - 1 :
        m[a] = IF a \in d..d + 4 * k - 1 THEN start.mem[s + a - d] ELSE start.mem[a]
  <2>1. m = [a \in 0..MemSize - 1 |-> IF a \in d..d + 4 * k - 1 THEN start.mem[s + a - d] ELSE start.mem[a]]
    <3>1. k <= c
      BY <1>3
    <3> QED
      BY <1>6, <1>7, <3>1, Zenon
  <2> QED
    BY <2>1, Zenon
<1>8. PICK w \in Word : w = WordAt(m, q) /\ \A j \in 0..3 : ByteOf(w, j) = m[q + j]
  <2>1. q + 4 <= MemSize
    BY <1>1, <1>2, <1>3
  <2> QED
    BY <1>2, <2>1, WordRead
<1>9. ASSUME NEW j \in 0..3 PROVE ByteOf(w, j) = start.mem[q + j]
  <2>1. q + j \in s..s + 4 * c - 1
    BY <1>3
  <2>2. q + j \notin d..d + 4 * k - 1
    BY <1>3, <1>5, <2>1
  <2>3. q + j \in 0..MemSize - 1
    BY <1>1, <1>2, <1>3
  <2>4. m[q + j] = start.mem[q + j]
    BY <1>a, <2>2, <2>3
  <2> QED
    BY <1>8, <2>4
<1>10. ASSUME NEW a \in 0..MemSize - 1
       PROVE  (IF a \in p..p + 4 - 1 THEN ByteOf(w, a - p) ELSE m[a])
                = IF a \in d..d + 4 * (k + 1) - 1 THEN start.mem[s + a - d] ELSE start.mem[a]
  <2>1. CASE a \in p..p + 4 - 1
    <3>1. a - p \in 0..3 /\ q + (a - p) = s + a - d /\ a \in d..d + 4 * (k + 1) - 1
      BY <1>3, <2>1
    <3>2. ByteOf(w, a - p) = start.mem[q + (a - p)]
      BY <1>9, <3>1
    <3> QED
      BY <2>1, <3>1, <3>2
  <2>2. CASE a \notin p..p + 4 - 1
    <3>1. a \in d..d + 4 * (k + 1) - 1 <=> a \in d..d + 4 * k - 1
      BY <1>3, <2>2
    <3>2. m[a] = IF a \in d..d + 4 * k - 1 THEN start.mem[s + a - d] ELSE start.mem[a]
      BY <1>a
    <3> QED
      BY <2>2, <3>1, <3>2
  <2> QED
    BY <2>1, <2>2
<1>11. Put(m, p, 4, w) = Moved(k + 1)
  <2>1. DOMAIN m = 0..MemSize - 1
    BY DEF Bytes
  <2>2. k + 1 \in Nat /\ k + 1 <= c
    BY <1>1, <1>3
  <2>3. Moved(k + 1) = [a \in 0..MemSize - 1 |->
                          IF a \in d..d + 4 * (k + 1) - 1 THEN start.mem[s + a - d] ELSE start.mem[a]]
    BY <1>6, <2>2
  <2>4. Put(m, p, 4, w) = [a \in 0..MemSize - 1 |-> IF a \in p..p + 4 - 1 THEN ByteOf(w, a - p) ELSE m[a]]
    BY <2>1 DEF Put
  <2>5. [a \in 0..MemSize - 1 |-> IF a \in p..p + 4 - 1 THEN ByteOf(w, a - p) ELSE m[a]]
          = [a \in 0..MemSize - 1 |->
               IF a \in d..d + 4 * (k + 1) - 1 THEN start.mem[s + a - d] ELSE start.mem[a]]
    BY <1>10, Zenon
  <2> QED
    BY <2>3, <2>4, <2>5, Zenon
<1> QED
  BY <1>1, <1>2, <1>3, <1>4, <1>7, <1>8, <1>11

(* A word is stored into plain memory at the address in a register.        *)
LEMMA StoresWord ==
  ASSUME Untranslated, Next, NEW t \in Regs, NEW b \in Regs, NEW p \in Nat, p = gpr[b],
         p + 4 <= MemSize, p # HddPort, p # DmaPort, Current = I("SW", t, b, 0)
  PROVE  Advances /\ stop' = "no" /\ mem' = Put(mem, p, 4, gpr[t])
<1>1. PICK n \in 0..31, len \in {1, 4} : n = 0 /\ len = 4
  OBVIOUS
<1>2. p = gpr[b] + n
  BY <1>1
<1>3. Current = I(IF len = 4 THEN "SW" ELSE "SB", t, b, n)
  BY <1>1
<1>4. p + len <= MemSize
  BY <1>1
<1>5. Advances /\ (\/ Store(p, len, gpr[t]) /\ stop' = "no"
                   \/ StoreUndefined(p, len, gpr[t]) /\ stop' = "crash")
  BY <1>2, <1>3, <1>4, Storing, SMTT(30)
<1> QED
  BY <1>1, <1>5, PlainStores

(* The loop goes through its instructions, and begins again or ends.       *)
LEMMA LoopingSteps ==
  ASSUME Untranslated, Next, start' = start, start.name = "MEMWORDCPY", NEW k \in Nat, Looping(k)
  PROVE  cpr' = cpr /\ (Looping(k)' \/ Looping(k + 1)' \/ Returning')
<1>1. PICK d \in Nat, s \in Nat, c \in Nat :
        /\ d = start.gpr[A0] /\ s = start.gpr[A1] /\ c = start.gpr[A2]
        /\ d + 4 * c <= MemSize /\ d + 4 * c < WordSpace /\ s + 4 * c <= MemSize
        /\ s + 4 * c < WordSpace
  BY CopyOperands DEF Untranslated
<1>2. /\ Refused' = Refused /\ Moved(k)' = Moved(k) /\ Moved(k + 1)' = Moved(k + 1)
      /\ start'.gpr = start.gpr
  <2>1. k + 1 \in Nat
    OBVIOUS
  <2> QED
    BY <2>1, StartDecides
<1>3. /\ A0 \in Regs /\ A1 \in Regs /\ A2 \in Regs /\ T0 \in Regs /\ Ra \in Regs /\ 0 \in Regs
      /\ A0 # 0 /\ A1 # 0 /\ A2 # 0 /\ T0 # 0 /\ A0 # A1 /\ A0 # A2 /\ A1 # A2
      /\ T0 # A0 /\ T0 # A1 /\ T0 # A2 /\ Ra \notin {0, A0, A1, A2, T0}
  BY RegisterNumbers, MachineAssumption, ProgramsAssumption DEF A0, A1, A2, T0
<1>4. gpr[0] = 0 /\ stop = "no" /\ ~Refused /\ k <= c /\ gpr[Ra] = start.gpr[Ra]
  BY <1>1 DEF Looping, Progress, Here
<1>5. \A n \in Nat : n < WordSpace => ToWord(n) = n
  BY Widths DEF ToWord
<1>6. WordSpace \in Nat
  BY Widths
<1>7. CASE Progress(k, k, k, k) /\ Here(64, 68)
  <2>0. PICK op \in {"BEQ", "BNE"}, n \in 1..31 : op = "BEQ" /\ n = 8
    OBVIOUS
  <2>1. PICK p \in 0..128, z \in Regs : p = 64 /\ z = 0 /\ adv1 = p /\ adv2 = p + 4
    BY <1>3, <1>7 DEF Here
  <2>2. Current = I(op, z, A2, n)
    BY <2>0, <2>1, CopyCode DEF Current, Untranslated
  <2>3. adv1 = p /\ adv2 = p + 4 /\ A2 \in Regs
    BY <1>3, <2>1, SMTT(30)
  <2>4. /\ adv1' = p + 4 /\ gpr' = gpr /\ cpr' = cpr /\ stop' = stop /\ mem' = mem
        /\ op = "BEQ" => adv2' = IF gpr[A2] = gpr[z] THEN p + 4 + 4 * n ELSE p + 8
    BY <2>2, <2>3, Branches
  <2>5. Progress(k, k, k, k)'
    BY <1>2, <1>7, <2>4 DEF Progress
  <2>6. gpr[A2] = gpr[z] <=> k = c
    BY <1>1, <1>4, <1>7, <2>1 DEF Progress
  <2>7. Here(68, IF k = c THEN 100 ELSE 72)'
    BY <1>4, <2>0, <2>1, <2>4, <2>6 DEF Here
  <2> QED
    BY <1>1, <1>2, <1>4, <2>4, <2>5, <2>7 DEF Looping
<1>8. CASE k = c /\ Progress(k, k, k, k) /\ Here(68, 100)
  <2>1. PICK q \in 0..128 : q = 100 /\ adv2 = q
    BY <1>8 DEF Here
  <2>2. Current = Nop
    BY <1>8, CopyCode DEF Current, Here, Untranslated
  <2>3. Here(q, q + 4)' /\ cpr' = cpr /\ mem' = mem /\ gpr' = gpr
    BY <1>4, <2>1, <2>2, NopAt
  <2>4. q + 4 = 104
    BY <2>1
  <2>5. Here(100, 104)'
    BY <2>1, <2>3, <2>4
  <2>6. mem' = Moved(start.gpr[A2])'
    BY <1>1, <1>2, <1>8, <2>3 DEF Progress
  <2> QED
    BY <1>2, <1>4, <2>3, <2>5, <2>6 DEF Returning
<1>9. CASE k < c /\ Progress(k, k, k, k) /\ Here(68, 72)
  <2>1. PICK q \in 0..128 : q = 72 /\ adv2 = q
    BY <1>9 DEF Here
  <2>2. Current = Nop
    BY <1>9, CopyCode DEF Current, Here, Untranslated
  <2>3. Here(q, q + 4)' /\ cpr' = cpr /\ mem' = mem /\ gpr' = gpr
    BY <1>4, <2>1, <2>2, NopAt
  <2>4. q + 4 = 76
    BY <2>1
  <2>5. Here(72, 76)'
    BY <2>1, <2>3, <2>4
  <2>6. Progress(k, k, k, k)'
    BY <1>2, <1>9, <2>3 DEF Progress
  <2> QED
    BY <1>1, <1>2, <1>9, <2>3, <2>5, <2>6 DEF Looping
<1>10. CASE k < c /\ Progress(k, k, k, k) /\ Here(72, 76)
  <2>1. PICK q \in 0..128 : q = 76 /\ adv2 = q
    BY <1>10 DEF Here
  <2>2. Current = I("LW", T0, A1, 0)
    BY <1>10, CopyCode DEF Current, Here, Untranslated
  <2>3. PICK a \in Nat, n \in 0..31 : n = 0 /\ a = gpr[A1] /\ a = gpr[A1] + n /\ a + 4 <= MemSize
    <3>1. gpr[A1] = s + 4 * k
      BY <1>1, <1>10 DEF Progress
    <3>2. MemSize \in Nat
      BY Ports
    <3>3. s + 4 * k \in Nat /\ s + 4 * k = (s + 4 * k) + 0 /\ (s + 4 * k) + 4 <= MemSize
      BY <1>1, <1>10, <3>2
    <3> QED
      BY <3>1, <3>3
  <2>4. PICK x : x = WordAt(mem, gpr[A1])
    OBVIOUS
  <2>5. Follows /\ gpr' = [gpr EXCEPT ![T0] = x]
    <3>1. Current = I("LW", T0, A1, n)
      BY <2>2, <2>3
    <3>2. Follows /\ gpr' = [gpr EXCEPT ![T0] = WordAt(mem, a)]
      BY <1>3, <1>4, <2>3, <3>1, LoadsWord
    <3> QED
      BY <2>3, <2>4, <3>2
  <2>6. /\ Here(q, q + 4)' /\ cpr' = cpr /\ mem' = mem
        /\ gpr'[T0] = x /\ \A r \in Regs : r # T0 => gpr'[r] = gpr[r]
    <3>1. stop = "no" /\ adv2 = q /\ Follows /\ gpr' = [gpr EXCEPT ![T0] = x] /\ T0 \in Regs
      BY <1>3, <1>4, <2>1, <2>5
    <3> QED
      BY <3>1, SetsAt
  <2>7. q + 4 = 80
    BY <2>1
  <2>8. Here(76, 80)'
    BY <2>1, <2>6, <2>7
  <2>9. Progress(k, k, k, k)'
    BY <1>2, <1>3, <1>10, <2>6 DEF Progress
  <2>10. gpr'[T0] = WordAt(mem', gpr'[A1])
    BY <1>3, <2>4, <2>6
  <2> QED
    BY <1>1, <1>2, <1>10, <2>6, <2>8, <2>9, <2>10 DEF Looping
<1>11. CASE k < c /\ Progress(k, k, k, k) /\ Here(76, 80) /\ gpr[T0] = WordAt(mem, gpr[A1])
  <2>1. PICK p \in Nat, q \in Nat : p = d + 4 * k /\ q = s + 4 * k /\ p = gpr[A0] /\ q = gpr[A1]
    BY <1>1, <1>11 DEF Progress
  <2>2. /\ p + 4 <= MemSize /\ p # HddPort /\ p # DmaPort
        /\ Put(Moved(k), p, 4, WordAt(Moved(k), q)) = Moved(k + 1)
    <3>1. k < start.gpr[A2] /\ p = start.gpr[A0] + 4 * k /\ q = start.gpr[A1] + 4 * k
      BY <1>1, <1>11, <2>1
    <3> QED
      BY <1>4, <3>1, MovesWord DEF Untranslated
  <2>3. Current = I("SW", T0, A0, 0)
    BY <1>11, CopyCode DEF Current, Here, Untranslated
  <2>4. Advances /\ stop' = "no" /\ mem' = Put(mem, p, 4, gpr[T0])
    BY <1>3, <2>1, <2>2, <2>3, StoresWord
  <2>5. mem' = Moved(k + 1)
    BY <1>11, <2>1, <2>2, <2>4 DEF Progress
  <2>6. ToWord(80 + 4) = 84
    BY ProgramWidths
  <2>7. Here(80, 84)' /\ gpr' = gpr /\ cpr' = cpr
    BY <1>11, <2>4, <2>6 DEF Here, Advances
  <2>8. Progress(k, k, k, k + 1)'
    BY <1>2, <1>11, <2>5, <2>7 DEF Progress
  <2> QED
    BY <1>1, <1>2, <1>11, <2>7, <2>8 DEF Looping
<1>12. CASE k < c /\ Progress(k, k, k, k + 1) /\ Here(80, 84)
  <2>1. PICK q \in 0..128 : q = 84 /\ adv2 = q
    BY <1>12 DEF Here
  <2>2. Current = I("ADDI", A0, A0, 4)
    BY <1>12, CopyCode DEF Current, Here, Untranslated
  <2>3. PICK x \in Nat : x = d + 4 * (k + 1)
    OBVIOUS
  <2>4. ToWord(gpr[A0] + 4) = x
    <3>1. gpr[A0] + 4 = x /\ x < WordSpace
      BY <1>1, <1>6, <1>12, <2>3 DEF Progress
    <3> QED
      BY <1>5, <3>1
  <2>5. Follows /\ gpr' = [gpr EXCEPT ![A0] = x]
    BY <1>3, <1>4, <2>2, <2>4, ShiftsAndAdds, SMTT(30)
  <2>6. /\ Here(q, q + 4)' /\ cpr' = cpr /\ mem' = mem
        /\ gpr'[A0] = x /\ \A r \in Regs : r # A0 => gpr'[r] = gpr[r]
    <3>1. stop = "no" /\ adv2 = q /\ Follows /\ gpr' = [gpr EXCEPT ![A0] = x] /\ A0 \in Regs
      BY <1>3, <1>4, <2>1, <2>5
    <3> QED
      BY <3>1, SetsAt
  <2>7. q + 4 = 88
    BY <2>1
  <2>8. Here(84, 88)'
    BY <2>1, <2>6, <2>7
  <2>9. Progress(k + 1, k, k, k + 1)'
    BY <1>1, <1>2, <1>3, <1>12, <2>3, <2>6 DEF Progress
  <2> QED
    BY <1>1, <1>2, <1>12, <2>6, <2>8, <2>9 DEF Looping
<1>13. CASE k < c /\ Progress(k + 1, k, k, k + 1) /\ Here(84, 88)
  <2>1. PICK q \in 0..128 : q = 88 /\ adv2 = q
    BY <1>13 DEF Here
  <2>2. Current = I("ADDI", A1, A1, 4)
    BY <1>13, CopyCode DEF Current, Here, Untranslated
  <2>3. PICK x \in Nat : x = s + 4 * (k + 1)
    OBVIOUS
  <2>4. ToWord(gpr[A1] + 4) = x
    <3>1. gpr[A1] + 4 = x /\ x < WordSpace
      BY <1>1, <1>6, <1>13, <2>3 DEF Progress
    <3> QED
      BY <1>5, <3>1
  <2>5. Follows /\ gpr' = [gpr EXCEPT ![A1] = x]
    BY <1>3, <1>4, <2>2, <2>4, ShiftsAndAdds, SMTT(30)
  <2>6. /\ Here(q, q + 4)' /\ cpr' = cpr /\ mem' = mem
        /\ gpr'[A1] = x /\ \A r \in Regs : r # A1 => gpr'[r] = gpr[r]
    <3>1. stop = "no" /\ adv2 = q /\ Follows /\ gpr' = [gpr EXCEPT ![A1] = x] /\ A1 \in Regs
      BY <1>3, <1>4, <2>1, <2>5
    <3> QED
      BY <3>1, SetsAt
  <2>7. q + 4 = 92
    BY <2>1
  <2>8. Here(88, 92)'
    BY <2>1, <2>6, <2>7
  <2>9. Progress(k + 1, k + 1, k, k + 1)'
    BY <1>1, <1>2, <1>3, <1>13, <2>3, <2>6 DEF Progress
  <2> QED
    BY <1>1, <1>2, <1>13, <2>6, <2>8, <2>9 DEF Looping
<1>14. CASE k < c /\ Progress(k + 1, k + 1, k, k + 1) /\ Here(88, 92)
  <2>1. PICK q \in 0..128 : q = 92 /\ adv2 = q
    BY <1>14 DEF Here
  <2>2. Current = I("ADDI", A2, A2, -1)
    BY <1>14, CopyCode DEF Current, Here, Untranslated
  <2>3. PICK x \in Nat : x = c - (k + 1)
    BY <1>14
  <2>4. ToWord(gpr[A2] - 1) = x
    <3>1. gpr[A2] - 1 = x /\ x < WordSpace
      BY <1>1, <1>6, <1>14, <2>3 DEF Progress
    <3> QED
      BY <1>5, <3>1
  <2>5. Follows /\ gpr' = [gpr EXCEPT ![A2] = x]
    BY <1>3, <1>4, <2>2, <2>4, ShiftsAndAdds, SMTT(30)
  <2>6. /\ Here(q, q + 4)' /\ cpr' = cpr /\ mem' = mem
        /\ gpr'[A2] = x /\ \A r \in Regs : r # A2 => gpr'[r] = gpr[r]
    <3>1. stop = "no" /\ adv2 = q /\ Follows /\ gpr' = [gpr EXCEPT ![A2] = x] /\ A2 \in Regs
      BY <1>3, <1>4, <2>1, <2>5
    <3> QED
      BY <3>1, SetsAt
  <2>7. q + 4 = 96
    BY <2>1
  <2>8. Here(92, 96)'
    BY <2>1, <2>6, <2>7
  <2>9. Progress(k + 1, k + 1, k + 1, k + 1)'
    BY <1>1, <1>2, <1>3, <1>14, <2>3, <2>6 DEF Progress
  <2>10. k + 1 <= start'.gpr[A2]
    BY <1>1, <1>2, <1>14
  <2> QED
    BY <2>6, <2>8, <2>9, <2>10 DEF Looping
<1>15. CASE Progress(k, k, k, k) /\ Here(92, 96)
  <2>1. PICK n \in 0..31 : n = 16
    OBVIOUS
  <2>2. Current = [Nop EXCEPT !.op = "J", !.im = n]
    BY <1>15, <2>1, CopyCode DEF Current, Here, Untranslated
  <2>3. /\ adv1' = adv2 /\ adv2' = 4 * n /\ gpr' = gpr /\ cpr' = cpr /\ stop' = stop /\ mem' = mem
    BY <2>2, Jumps
  <2>4. Here(96, 64)'
    BY <1>15, <2>1, <2>3 DEF Here
  <2>5. Progress(k, k, k, k)'
    BY <1>2, <1>15, <2>3 DEF Progress
  <2> QED
    BY <1>1, <1>2, <1>4, <2>3, <2>4, <2>5 DEF Looping
<1>16. CASE Progress(k, k, k, k) /\ Here(96, 64)
  <2>1. PICK q \in 0..128 : q = 64 /\ adv2 = q
    BY <1>16 DEF Here
  <2>2. Current = Nop
    BY <1>16, CopyCode DEF Current, Here, Untranslated
  <2>3. Here(q, q + 4)' /\ cpr' = cpr /\ mem' = mem /\ gpr' = gpr
    BY <1>4, <2>1, <2>2, NopAt
  <2>4. q + 4 = 68
    BY <2>1
  <2>5. Here(64, 68)'
    BY <2>1, <2>3, <2>4
  <2>6. Progress(k, k, k, k)'
    BY <1>2, <1>16, <2>3 DEF Progress
  <2> QED
    BY <1>1, <1>2, <1>4, <2>3, <2>5, <2>6 DEF Looping
<1> QED
  BY <1>1, <1>7, <1>8, <1>9, <1>10, <1>11, <1>12, <1>13, <1>14, <1>15, <1>16 DEF Looping

(* The copy returns what it has found.                                     *)
LEMMA ReturningSteps ==
  ASSUME Untranslated, Next, start' = start, start.name = "MEMWORDCPY", Returning
  PROVE  cpr' = cpr /\ (Returning' \/ (Result /\ stop = "exception" /\ pc = start.gpr[Ra])')
<1>1. /\ Refused' = Refused /\ start'.gpr = start.gpr /\ start'.mem = start.mem
      /\ Moved(start.gpr[A2])' = Moved(start.gpr[A2])
  BY StartDecides DEF Moved
<1>2. /\ V0 \in Regs /\ V0 # 0 /\ V0 # Ra /\ Ra \in Regs /\ 0 \in Regs /\ Ra # 0
  BY RegisterNumbers, MachineAssumption, ProgramsAssumption DEF V0
<1>3. gpr[0] = 0 /\ gpr[Ra] = start.gpr[Ra]
  BY DEF Returning
<1>4. ASSUME Result, mem' = mem, gpr' = gpr PROVE Result'
  BY <1>1, <1>4 DEF Result
<1>5. CASE ~Refused /\ mem = Moved(start.gpr[A2]) /\ Here(100, 104)
  <2>1. PICK q \in 0..128, x \in {0}, z \in Regs : q = 104 /\ adv2 = q /\ stop = "no" /\ x = 0 /\ z = 0
    BY <1>2, <1>5 DEF Here
  <2>2. Current = R("AND", V0, z, z)
    BY <1>5, <2>1, CopyCode DEF Current, Here, Untranslated
  <2>3. ToWord(And(gpr[z], gpr[z])) = x
    <3>1. PICK b \in {0, 1} : b = 0
      OBVIOUS
    <3>2. And(b, b) = b * b
      BY AndOfTruths
    <3>3. gpr[z] = b /\ b * b = 0
      BY <1>3, <2>1, <3>1
    <3> QED
      BY <2>1, <3>2, <3>3, ProgramWidths
  <2>4. Follows /\ gpr' = [gpr EXCEPT ![V0] = x]
    BY <1>2, <1>3, <2>1, <2>2, <2>3, Registers, SMTT(30)
  <2>5. /\ Here(q, q + 4)' /\ cpr' = cpr /\ mem' = mem
        /\ gpr'[V0] = x /\ \A r \in Regs : r # V0 => gpr'[r] = gpr[r]
    <3>1. stop = "no" /\ adv2 = q /\ Follows /\ gpr' = [gpr EXCEPT ![V0] = x] /\ V0 \in Regs
      BY <1>2, <2>1, <2>4
    <3> QED
      BY <3>1, SetsAt
  <2>6. q + 4 = 108
    BY <2>1
  <2>7. Here(104, 108)'
    BY <2>1, <2>5, <2>6
  <2>8. Result'
    BY <1>1, <1>5, <2>1, <2>5 DEF Result
  <2>9. gpr'[0] = 0 /\ gpr'[Ra] = start'.gpr[Ra]
    BY <1>1, <1>2, <1>3, <2>5
  <2> QED
    BY <1>1, <1>5, <2>5, <2>7, <2>8, <2>9 DEF Returning
<1>6. CASE ~Refused /\ Result /\ Here(104, 108)
  <2>1. PICK n \in 0..31 : n = 29
    OBVIOUS
  <2>2. Current = [Nop EXCEPT !.op = "J", !.im = n]
    BY <1>6, <2>1, CopyCode DEF Current, Here, Untranslated
  <2>3. /\ adv1' = adv2 /\ adv2' = 4 * n /\ gpr' = gpr /\ cpr' = cpr /\ stop' = stop /\ mem' = mem
    BY <2>2, Jumps
  <2>4. Here(108, 116)'
    BY <1>6, <2>1, <2>3 DEF Here
  <2>5. Result'
    BY <1>4, <1>6, <2>3
  <2> QED
    BY <1>1, <1>3, <1>6, <2>3, <2>4, <2>5 DEF Returning
<1>7. CASE Result /\ Here(108, 116)
  <2>1. PICK q \in 0..128 : q = 116 /\ adv2 = q /\ stop = "no"
    BY <1>7 DEF Here
  <2>2. Current = Nop
    BY <1>7, CopyCode DEF Current, Here, Untranslated
  <2>3. Here(q, q + 4)' /\ cpr' = cpr /\ mem' = mem /\ gpr' = gpr
    BY <1>3, <2>1, <2>2, NopAt
  <2>4. q + 4 = 120
    BY <2>1
  <2>5. Here(116, 120)'
    BY <2>1, <2>3, <2>4
  <2>6. Result'
    BY <1>4, <1>7, <2>3
  <2> QED
    BY <1>1, <1>3, <2>3, <2>5, <2>6 DEF Returning
<1>8. CASE Result /\ Here(116, 120)
  <2>1. Current = R("JR", 0, Ra, 0)
    BY <1>8, CopyCode DEF Current, Here, Untranslated
  <2>2. /\ adv1' = adv2 /\ adv2' = gpr[Ra] /\ gpr' = gpr /\ cpr' = cpr /\ stop' = stop /\ mem' = mem
    BY <1>2, <2>1, Jumps
  <2>3. Here(120, start.gpr[Ra])'
    BY <1>1, <1>3, <1>8, <2>2 DEF Here
  <2>4. Result'
    BY <1>4, <1>8, <2>2
  <2> QED
    BY <1>1, <1>3, <2>2, <2>3, <2>4 DEF Returning
<1>9. CASE Result /\ Here(120, start.gpr[Ra])
  <2>1. Current = Nop
    BY <1>9, CopyCode DEF Current, Here, Untranslated
  <2>2. Follows /\ gpr' = gpr
    BY <1>3, <2>1, SettingNone
  <2>3. (stop = "no" /\ adv1 = start.gpr[Ra])' /\ mem' = mem /\ cpr' = cpr
    BY <1>1, <1>9, <2>2 DEF Follows, Here
  <2>4. Result'
    BY <1>4, <1>9, <2>2, <2>3
  <2> QED
    BY <1>1, <1>3, <2>2, <2>3, <2>4 DEF Returning
<1>10. CASE Result /\ stop = "no" /\ adv1 = start.gpr[Ra]
  <2>1. Current = Reserved
    BY <1>10, CopyCode DEF Current, Untranslated
  <2>2. stop' = "exception" /\ pc' = adv1 /\ cpr' = cpr /\ gpr' = gpr /\ mem' = mem
    BY <2>1, Ending DEF storage
  <2>3. Result'
    BY <1>4, <1>10, <2>2
  <2> QED
    BY <1>1, <1>10, <2>2, <2>3
<1> QED
  BY <1>5, <1>6, <1>7, <1>8, <1>9, <1>10 DEF Returning

(* The invariant is kept.                                                  *)
LEMMA CopySteps == MInv /\ CopyInv /\ [Next]_vars => CopyInv'
<1>1. CASE UNCHANGED vars
  <2>1. /\ start' = start /\ gpr' = gpr /\ mem' = mem /\ cpr' = cpr /\ stop' = stop
        /\ pc' = pc /\ adv1' = adv1 /\ adv2' = adv2 /\ MInv' = MInv
    BY <1>1 DEF vars, pipeline, storage, MInv, MachineTypeOK
  <2>2. /\ Testing' = Testing /\ (\A k \in Nat : Looping(k)' = Looping(k)) /\ Returning' = Returning
        /\ Result' = Result
    BY <2>1 DEF Testing, Untouched, Aligning, Overlapping, Overlap, Refused, Here, Looping, Progress,
                Moved, Returning, Result
  <2> QED
    BY <2>1, <2>2 DEF CopyInv, Untranslated
<1>2. ASSUME MInv, CopyInv, Next PROVE CopyInv'
  <2> SUFFICES ASSUME start'.name = "MEMWORDCPY" PROVE CopyInv'
    BY DEF CopyInv
  <2>1. start' = start
    BY <1>2, StartStays
  <2>2. start.name = "MEMWORDCPY" /\ Untranslated
    BY <1>2, <2>1 DEF CopyInv
  <2>3. MInv'
    BY <1>2, MInvNext
  <2>4. stop = "no"
    <3>1. stop = "no" /\ Executes(Current)
      BY <1>2, <2>2, ExecutesCurrent
    <3> QED
      BY <3>1
  <2>5. CASE Testing
    <3>1. cpr' = cpr /\ (Testing' \/ Looping(0)' \/ Returning')
      BY <1>2, <2>1, <2>2, <2>5, TestingSteps
    <3>2. Untranslated'
      BY <2>2, <2>3, <3>1 DEF Untranslated
    <3> QED
      BY <3>1, <3>2 DEF CopyInv
  <2>6. ASSUME NEW k \in Nat, Looping(k) PROVE CopyInv'
    <3>1. cpr' = cpr /\ (Looping(k)' \/ Looping(k + 1)' \/ Returning')
      BY <1>2, <2>1, <2>2, <2>6, LoopingSteps
    <3>2. Untranslated'
      BY <2>2, <2>3, <3>1 DEF Untranslated
    <3>3. k + 1 \in Nat
      OBVIOUS
    <3> QED
      BY <3>1, <3>2, <3>3 DEF CopyInv
  <2>7. CASE Returning
    <3>1. cpr' = cpr /\ (Returning' \/ (Result /\ stop = "exception" /\ pc = start.gpr[Ra])')
      BY <1>2, <2>1, <2>2, <2>7, ReturningSteps
    <3>2. Untranslated'
      BY <2>2, <2>3, <3>1 DEF Untranslated
    <3> QED
      BY <3>1, <3>2 DEF CopyInv
  <2> QED
    BY <1>2, <2>2, <2>4, <2>5, <2>6, <2>7 DEF CopyInv
<1> QED
  BY <1>1, <1>2

(* MEMWORDCPY copies the words, or returns -1 and copies none when an      *)
(* address is not aligned or the ranges overlap (string.lib:8-32), however *)
(* many words there are: the ranges are in memory, apart from the ports,   *)
(* and end below the last word, as sovlp's ends would wrap.                *)
THEOREM WordsAreCopied == Spec => []CopiesWords
<1>1. Init => CopyInv
  <2> SUFFICES ASSUME Init, start.name = "MEMWORDCPY" PROVE CopyInv
    BY DEF CopyInv
  <2>1. MInv
    BY MInvInit
  <2>2. Begins(start, MEMWORDCPY)
    BY <2>1, NamedPrograms DEF MInv
  <2>3. Untranslated /\ stop = "no" /\ adv1 = 0 /\ adv2 = 4 /\ gpr = start.gpr /\ mem = start.mem
    BY <2>2, Beginning
  <2>4. Testing
    BY <2>3 DEF Testing, Untouched, Aligning, Here
  <2> QED
    BY <2>3, <2>4 DEF CopyInv
<1>2. MInv /\ CopyInv => CopiesWords
  <2> SUFFICES ASSUME MInv, CopyInv, Ended("MEMWORDCPY") PROVE CopiesWords
    BY DEF CopiesWords
  <2>1. Result /\ pc = start.gpr[Ra]
    BY DEF Ended, CopyInv, Testing, Aligning, Overlapping, Looping, Returning, Here
  <2>2. gpr[V0] = WordSpace - 1 <=> Refused
    BY <2>1, Widths DEF Result
  <2> QED
    BY <2>1, <2>2 DEF CopiesWords, Result, Refused, Overlap, Moved
<1> QED
  BY <1>1, <1>2, CopySteps, MInvInit, MInvNext, PTL DEF Spec

-----------------------------------------------------------------------------
(* The table of files.                                                     *)

(* The name and the sector of an item, and the items that may be looked    *)
(* at.                                                                     *)
Name(m, i) == WordAt(m, FILE_TABLE + 8 * i)
Sector(m, i) == WordAt(m, FILE_TABLE + 8 * i + 4)
Slots == 0..Reached(start.files, start.query) - 1

(* The item at which the search for a name begins.                         *)
Bucket(name) == name % FILE_TABLE_ITEM_CNT

(* Item i is one that a search from item h on comes to, and item x is one  *)
(* that it passes before that.  From an even item it goes around.          *)
Along(h, i) ==
  /\ i \in Slots /\ i % 2 = h % 2
  /\ IF h % 2 = 0 THEN i < 2 * FILE_TABLE_ITEM_CNT ELSE h <= i
Passed(h, x, i) == Along(h, x) /\ IF h <= i THEN h <= x /\ x < i ELSE h <= x \/ x < i

(* A search for a name has come to item i.                                 *)
Probing(m, name, i) ==
  /\ Along(Bucket(name), i)
  /\ \A x \in Slots : Passed(Bucket(name), x, i) => Name(m, x) \notin {0, name}

(* File j is the last one of its name among the first k.                   *)
Latest(j, k) == \A l \in j + 1..k : start.files[l].name # start.files[j].name

(* The table when the first k files have been added: its names are theirs, *)
(* a search for the name of a file comes to the last one of that name, and *)
(* searches from odd items, or for files that are sparse, have gone no     *)
(* further than the files made them.                                       *)
NamesAdded(m, k) ==
  \A i \in Slots :
    /\ Name(m, i) # 0 => \E j \in 1..k : start.files[j].name = Name(m, i)
    /\ Name(m, i) = 0 => Sector(m, i) = 0
FilesThere(m, k) ==
  \A j \in 1..k :
    Latest(j, k) =>
      \E i \in Slots :
        /\ Probing(m, start.files[j].name, i)
        /\ Name(m, i) = start.files[j].name /\ Sector(m, i) = start.files[j].sector
OddFree(m, k) ==
  \A i \in Slots : i % 2 = 1 /\ i >= FILE_TABLE_ITEM_CNT + 2 * k => Name(m, i) = 0
SparseFree(m, k) ==
  Sparse(start.files) =>
    \A i \in Slots : Name(m, i) # 0 => i + 2 * (Len(start.files) + 1) < FILE_TABLE_ITEM_CNT + 2 * k
InBuckets(m) ==
  ~Colliding(start.files) => \A i \in Slots : Name(m, i) # 0 => i = Bucket(Name(m, i))
InTable(m) ==
  ~Colliding(start.files) \/ Sparse(start.files) =>
    \A a \in 0..MemSize - 1 : a \notin Allocated => m[a] = start.mem[a]

Holds(m, k) ==
  /\ m \in Bytes(MemSize) /\ NamesAdded(m, k) /\ FilesThere(m, k)
  /\ OddFree(m, k) /\ SparseFree(m, k) /\ InBuckets(m) /\ InTable(m)

(* What a program that adds files starts with.                             *)
LEMMA FilesStart ==
  ASSUME MInv, start.name = "files"
  PROVE  /\ Len(start.files) \in Nat /\ DOMAIN start.files = 1..Len(start.files)
         /\ \A k \in 1..Len(start.files) :
              start.files[k].name \in 1..Half - 1 /\ start.files[k].sector \in 1..Half - 1
         /\ start.query \in 1..Half - 1
         /\ Reached(start.files, start.query) \in Nat
         /\ Reached(start.files, start.query) >= FILE_TABLE_ITEM_CNT
         /\ FILE_TABLE + 8 * Reached(start.files, start.query) <= MemSize
         /\ Apart(FILE_TABLE, 8 * Reached(start.files, start.query))
         /\ \A a \in Items(Reached(start.files, start.query)) : start.mem[a] = 0
         /\ FILE_TABLE \in Nat /\ FILE_TABLE_ITEM_CNT \in Nat /\ FILE_TABLE_ITEM_CNT # 0
<1>1. start.files \in Seq([name : 1..Half - 1, sector : 1..Half - 1]) /\ start.query \in 1..Half - 1
  BY NamedFiles DEF MInv
<1>2. PICK n : n = Reached(start.files, start.query)
  OBVIOUS
<1>3. FILE_TABLE + 8 * n <= MemSize /\ Apart(FILE_TABLE, 8 * n) /\ \A a \in Items(n) : start.mem[a] = 0
  BY <1>2, NamedFiles DEF MInv
<1>4. Len(start.files) \in Nat /\ DOMAIN start.files = 1..Len(start.files)
  BY <1>1
<1>5. ASSUME NEW k \in 1..Len(start.files)
      PROVE  start.files[k].name \in 1..Half - 1 /\ start.files[k].sector \in 1..Half - 1
  <2>1. PICK T : T = [name : 1..Half - 1, sector : 1..Half - 1]
    OBVIOUS
  <2>2. start.files \in Seq(T)
    BY <1>1, <2>1, Zenon
  <2>3. start.files[k] \in T
    BY <1>5, <2>2
  <2> QED
    BY <2>1, <2>3
<1>6. n = 2 * (FILE_TABLE_ITEM_CNT + Len(start.files) + 1) \/ n = FILE_TABLE_ITEM_CNT
  BY <1>2 DEF Reached
<1>7. n \in Nat /\ n >= FILE_TABLE_ITEM_CNT
  BY <1>4, <1>6, FilesAssumption
<1> QED
  BY <1>1, <1>2, <1>3, <1>4, <1>5, <1>7, FilesAssumption

(* The items are in memory, and none of them is a port.                    *)
LEMMA ItemsPlaced ==
  ASSUME MInv, start.name = "files", NEW i \in Slots
  PROVE  /\ FILE_TABLE + 8 * i \in Nat /\ FILE_TABLE + 8 * i + 8 <= MemSize /\ MemSize \in Nat
         /\ FILE_TABLE + 8 * i \notin {HddPort, DmaPort} /\ FILE_TABLE + 8 * i + 4 \notin {HddPort, DmaPort}
<1>1. PICK n \in Nat, f \in Nat :
        /\ n = Reached(start.files, start.query) /\ f = FILE_TABLE /\ f + 8 * n <= MemSize /\ Apart(f, 8 * n)
  BY FilesStart
<1>2. i \in Nat /\ i < n
  BY <1>1 DEF Slots
<1>3. f + 8 * i \in f..f + 8 * n - 1 /\ f + 8 * i + 4 \in f..f + 8 * n - 1
  BY <1>2
<1>4. \A x \in f..f + 8 * n - 1 : x \notin HddPort..HddPort + 15 /\ x \notin DmaPort..DmaPort + 15
  BY <1>1 DEF Apart
<1>5. HddPort \in HddPort..HddPort + 15 /\ DmaPort \in DmaPort..DmaPort + 15 /\ MemSize \in Nat
  BY Ports
<1>6. f + 8 * i \notin {HddPort, DmaPort} /\ f + 8 * i + 4 \notin {HddPort, DmaPort}
  BY <1>3, <1>4, <1>5
<1> QED
  BY <1>1, <1>2, <1>5, <1>6

(* A search begins at an item of the table.                                *)
LEMMA BucketPlaced ==
  ASSUME MInv, start.name = "files", NEW name \in Nat
  PROVE  /\ Bucket(name) \in 0..FILE_TABLE_ITEM_CNT - 1 /\ Bucket(name) \in Slots
         /\ Along(Bucket(name), Bucket(name))
         /\ \A x \in Slots : ~Passed(Bucket(name), x, Bucket(name))
<1>1. PICK c \in Nat, n \in Nat :
        c = FILE_TABLE_ITEM_CNT /\ c # 0 /\ n = Reached(start.files, start.query) /\ n >= c
  BY FilesStart
<1>2. PICK h \in Nat : h = name % c /\ h < c
  BY <1>1, Division
<1>3. h = Bucket(name) /\ h \in 0..c - 1 /\ h \in Slots
  BY <1>1, <1>2 DEF Bucket, Slots
<1>4. Along(h, h) /\ \A x \in Slots : ~Passed(h, x, h)
  BY <1>1, <1>2, <1>3 DEF Along, Passed, Slots
<1> QED
  BY <1>1, <1>3, <1>4

(* A name and a sector are stored in one item and in no other.             *)
LEMMA ItemsStored ==
  ASSUME MInv, start.name = "files", NEW m \in Bytes(MemSize), NEW i \in Slots, NEW w \in Word
  PROVE  /\ Put(m, FILE_TABLE + 8 * i, 4, w) \in Bytes(MemSize)
         /\ Put(m, FILE_TABLE + 8 * i + 4, 4, w) \in Bytes(MemSize)
         /\ \A x \in Slots :
              /\ Name(Put(m, FILE_TABLE + 8 * i, 4, w), x) = IF x = i THEN w ELSE Name(m, x)
              /\ Sector(Put(m, FILE_TABLE + 8 * i, 4, w), x) = Sector(m, x)
              /\ Name(Put(m, FILE_TABLE + 8 * i + 4, 4, w), x) = Name(m, x)
              /\ Sector(Put(m, FILE_TABLE + 8 * i + 4, 4, w), x) = IF x = i THEN w ELSE Sector(m, x)
         /\ \A a \in 0..MemSize - 1 : a \notin FILE_TABLE + 8 * i..FILE_TABLE + 8 * i + 7 =>
              /\ Put(m, FILE_TABLE + 8 * i, 4, w)[a] = m[a]
              /\ Put(m, FILE_TABLE + 8 * i + 4, 4, w)[a] = m[a]
<1>1. PICK f \in Nat, s \in Nat : f = FILE_TABLE /\ s = MemSize
  BY FilesStart, Ports
<1>2. \A x \in Slots : x \in Nat /\ f + 8 * x \in Nat /\ f + 8 * x + 8 <= s
  BY <1>1, ItemsPlaced DEF Slots
<1>3. PICK p \in Nat, q \in Nat : p = f + 8 * i /\ q = p + 4 /\ q + 4 <= s
  BY <1>2
<1>4. PICK len \in {1, 4} : len = 4
  OBVIOUS
<1>5. ASSUME NEW b \in Nat, b + 4 <= s
      PROVE  /\ Put(m, b, 4, w) \in Bytes(s) /\ WordAt(Put(m, b, 4, w), b) = w
             /\ \A x \in 0..s - 1 : x \notin b..b + 4 - 1 => Put(m, b, 4, w)[x] = m[x]
             /\ \A x \in Nat : x + 4 <= s /\ (x + 4 <= b \/ b + 4 <= x) => WordAt(Put(m, b, 4, w), x) = WordAt(m, x)
  <2>1. m \in Bytes(s)
    BY <1>1
  <2>2. WordAt(Put(m, b, 4, w), b) = w
    BY <1>5, <2>1, WordStored
  <2>3. /\ \A x \in 0..s - 1 : x \notin b..b + len - 1 => Put(m, b, len, w)[x] = m[x]
        /\ \A x \in Nat : x + 4 <= s /\ (x + 4 <= b \/ b + len <= x) =>
                             WordAt(Put(m, b, len, w), x) = WordAt(m, x)
    BY <2>1, StoredElsewhere
  <2>4. Put(m, b, len, w) \in Bytes(s)
    BY <2>1, <1>5, PutTyped
  <2> QED
    BY <1>4, <2>2, <2>3, <2>4
<1>6. ASSUME NEW x \in Slots
      PROVE  /\ Name(Put(m, p, 4, w), x) = IF x = i THEN w ELSE Name(m, x)
             /\ Sector(Put(m, p, 4, w), x) = Sector(m, x)
             /\ Name(Put(m, q, 4, w), x) = Name(m, x)
             /\ Sector(Put(m, q, 4, w), x) = IF x = i THEN w ELSE Sector(m, x)
  <2>1. PICK u \in Nat, v \in Nat : u = f + 8 * x /\ v = u + 4 /\ v + 4 <= s /\ x \in Nat /\ i \in Nat
    BY <1>2
  <2>2. \A y \in Bytes(s) : Name(y, x) = WordAt(y, u) /\ Sector(y, x) = WordAt(y, v)
    BY <1>1, <2>1 DEF Name, Sector
  <2>3. CASE x = i
    <3>1. u = p /\ v = q
      BY <1>3, <2>1, <2>3
    <3> QED
      BY <1>1, <1>3, <1>5, <2>1, <2>2, <2>3, <3>1
  <2>4. CASE x # i
    <3>1. /\ u + 4 <= p \/ p + 4 <= u
          /\ v + 4 <= p \/ p + 4 <= v
          /\ u + 4 <= q \/ q + 4 <= u
          /\ v + 4 <= q \/ q + 4 <= v
      BY <1>3, <2>1, <2>4
    <3> QED
      BY <1>1, <1>3, <1>5, <2>1, <2>2, <2>4, <3>1
  <2> QED
    BY <2>3, <2>4
<1>7. ASSUME NEW a \in 0..s - 1, a \notin p..p + 7
      PROVE  Put(m, p, 4, w)[a] = m[a] /\ Put(m, q, 4, w)[a] = m[a]
  BY <1>3, <1>5, <1>7
<1> QED
  BY <1>1, <1>3, <1>5, <1>6, <1>7

(* The name that is searched for after k files, and where the search       *)
(* returns to.                                                             *)
Wanted(k) == IF k < Len(start.files) THEN start.files[k + 1].name ELSE start.query
Link(k) == 100 + 24 * k + IF k < Len(start.files) THEN 16 ELSE 12

(* Where it turns.                                                         *)
Turn == FILE_TABLE + FILE_TABLE_SIZE

(* Its items are two slots long, and it turns at a word.                   *)
LEMMA ItemSizes ==
  /\ Power2[FILE_TABLE_ITEM_LOG_SIZE] = 8 /\ FILE_TABLE_ITEM_LOG_SIZE \in 0..WordBits
  /\ FILE_TABLE_ITEM_SIZE = 16 /\ FILE_TABLE_SIZE = 16 * FILE_TABLE_ITEM_CNT
  /\ Turn = FILE_TABLE + 16 * FILE_TABLE_ITEM_CNT /\ Turn \in Word
<1>1. 2 \in 0..WordBits /\ Power2[2] = 4
  BY TwoBits
<1>2. WordBits \in Nat
  BY Powers
<1>3. WordBits # 2
  <2>1. Power2[WordBits] = WordSpace
    BY MachineAssumption
  <2> QED
    BY <1>1, <2>1, ProgramWidths
<1>4. 3 \in 1..WordBits /\ 3 \in 0..WordBits
  BY <1>1, <1>2, <1>3
<1>5. Power2[3] = 2 * Power2[3 - 1]
  BY <1>4, Powers
<1>6. Power2[3] = 8
  BY <1>1, <1>5
<1>7. FILE_TABLE_ITEM_SIZE = 16
  BY <1>6 DEF FILE_TABLE_ITEM_SIZE, FILE_TABLE_ITEM_LOG_SIZE
<1>8. PICK c \in Nat, f \in Nat : c = FILE_TABLE_ITEM_CNT /\ f = FILE_TABLE
  BY FilesAssumption
<1>9. FILE_TABLE_SIZE = 16 * c
  BY <1>7, <1>8 DEF FILE_TABLE_SIZE
<1> QED
  BY <1>4, <1>6, <1>7, <1>8, <1>9, FilesAssumption DEF Turn, FILE_TABLE_ITEM_LOG_SIZE

(* Of two items that a search comes to, it comes to one of them first.     *)
LEMMA OneFirst ==
  ASSUME MInv, start.name = "files", NEW h \in Nat, NEW i \in Slots, NEW x \in Slots, Along(h, i), Along(h, x)
  PROVE  x = i \/ Passed(h, x, i) \/ Passed(h, i, x)
<1>1. i \in Nat /\ x \in Nat
  BY FilesStart DEF Slots
<1> QED
  BY <1>1 DEF Passed

(* The item after another one.                                             *)
LEMMA PassedOn ==
  ASSUME MInv, start.name = "files", NEW h \in Nat, h < FILE_TABLE_ITEM_CNT,
         NEW i \in Slots, NEW j \in Slots, Along(h, i), Along(h, j),
         j = IF i + 2 = 2 * FILE_TABLE_ITEM_CNT THEN 0 ELSE i + 2,
         NEW x \in Slots, Passed(h, x, j)
  PROVE  Passed(h, x, i) \/ x = i
<1>1. PICK c \in Nat : c = FILE_TABLE_ITEM_CNT
  BY FilesStart
<1>2. i \in Nat /\ x \in Nat /\ j \in Nat
  BY FilesStart DEF Slots
<1>3. /\ Along(h, x) /\ x % 2 = h % 2 /\ i % 2 = h % 2 /\ j % 2 = h % 2
      /\ IF h <= j THEN h <= x /\ x < j ELSE h <= x \/ x < j
  BY DEF Passed, Along
<1>4. PICK a \in Nat, b \in Nat, d \in Nat, e \in {0, 1} :
        h = 2 * a + e /\ i = 2 * b + e /\ x = 2 * d + e /\ e = h % 2
  <2>1. PICK a \in Int, e \in Nat : a = h \div 2 /\ e = h % 2 /\ e < 2 /\ h = a * 2 + e
    BY Division
  <2>2. PICK b \in Int, e1 \in Nat : b = i \div 2 /\ e1 = i % 2 /\ e1 < 2 /\ i = b * 2 + e1
    BY <1>2, Division
  <2>3. PICK d \in Int, e2 \in Nat : d = x \div 2 /\ e2 = x % 2 /\ e2 < 2 /\ x = d * 2 + e2
    BY <1>2, Division
  <2>4. e1 = e /\ e2 = e /\ e \in {0, 1}
    BY <1>3, <2>1, <2>2, <2>3
  <2>5. a \in Nat /\ b \in Nat /\ d \in Nat
    BY <1>2, <2>1, <2>2, <2>3, <2>4
  <2>6. h = 2 * a + e /\ i = 2 * b + e /\ x = 2 * d + e /\ e = h % 2
    BY <2>1, <2>2, <2>3, <2>4
  <2> QED
    BY <2>4, <2>5, <2>6
<1>5. CASE e = 0
  <2>1. i < 2 * c /\ x < 2 * c /\ j = IF i + 2 = 2 * c THEN 0 ELSE i + 2
    BY <1>1, <1>3, <1>4, <1>5 DEF Along
  <2>2. x = i \/ IF h <= i THEN h <= x /\ x < i ELSE h <= x \/ x < i
    BY <1>1, <1>2, <1>3, <1>4, <1>5, <2>1
  <2> QED
    BY <1>3, <2>2 DEF Passed
<1>6. CASE e = 1
  <2>1. h <= i /\ h <= x
    BY <1>3, <1>4, <1>6 DEF Along
  <2>2. i + 2 # 2 * c
    BY <1>1, <1>4, <1>6
  <2>3. j = i + 2
    BY <1>1, <2>2
  <2>4. x = i \/ x < i
    BY <1>2, <1>3, <1>4, <1>6, <2>1, <2>3
  <2> QED
    BY <1>3, <2>1, <2>4 DEF Passed
<1> QED
  BY <1>5, <1>6

(* The words of an item.                                                   *)
LEMMA ItemWords ==
  ASSUME MInv, start.name = "files", NEW m \in Bytes(MemSize), NEW i \in Slots
  PROVE  Name(m, i) \in Word /\ Sector(m, i) \in Word
<1>1. PICK a \in Nat, n \in Nat : a = FILE_TABLE + 8 * i /\ n = MemSize /\ a + 8 <= n
  BY ItemsPlaced
<1>2. PICK b \in Nat : b = a + 4 /\ b + 4 <= n /\ a + 4 <= n
  BY <1>1
<1>3. m \in Bytes(n)
  BY <1>1
<1>4. WordAt(m, a) \in Word /\ WordAt(m, b) \in Word
  BY <1>2, <1>3, WordRead
<1> QED
  BY <1>1, <1>2, <1>4 DEF Name, Sector

(* The name that is searched for.                                          *)
LEMMA NameWanted ==
  ASSUME MInv, start.name = "files", NEW k \in 0..Len(start.files)
  PROVE  Wanted(k) \in 1..Half - 1 /\ Wanted(k) \in Nat /\ Wanted(k) # 0 /\ Wanted(k) \in Word
<1>1. PICK n \in Nat : n = Len(start.files)
  BY FilesStart
<1>2. Wanted(k) \in 1..Half - 1
  <2>1. CASE k < n
    <3>1. k + 1 \in 1..n
      BY <1>1, <2>1
    <3> QED
      BY <1>1, <2>1, <3>1, FilesStart DEF Wanted
  <2>2. CASE ~(k < n)
    BY <1>1, <2>2, FilesStart DEF Wanted
  <2> QED
    BY <2>1, <2>2
<1>3. PICK v : v = Wanted(k)
  OBVIOUS
<1>4. v \in Nat /\ v # 0 /\ v < Half
  BY <1>2, <1>3, ProgramWidths
<1>5. v \in Word
  BY <1>4, ProgramWidths, Widths DEF Word, WordSpace
<1> QED
  BY <1>2, <1>3, <1>4, <1>5

(* The items that are looked at are as many as the names need.             *)
LEMMA ReachedItems ==
  ASSUME MInv, start.name = "files"
  PROVE  LET r == Reached(start.files, start.query)
             n == Len(start.files)
         IN  /\ Slots = 0..r - 1
             /\ r = 2 * (FILE_TABLE_ITEM_CNT + n + 1) \/ r = FILE_TABLE_ITEM_CNT
             /\ Colliding(start.files) =>
                  Sparse(start.files) \/ r = 2 * (FILE_TABLE_ITEM_CNT + n + 1)
             /\ \A k \in 1..n : Collide(start.query, start.files[k].name) =>
                  Sparse(start.files) \/ r = 2 * (FILE_TABLE_ITEM_CNT + n + 1)
BY FilesStart DEF Reached, Slots

(* Where a search goes on from an item, the names of the files or the one  *)
(* that is looked up begin at the same item.                               *)
LEMMA SearchedFurther ==
  ASSUME MInv, start.name = "files", NEW k \in 0..Len(start.files), NEW m, Holds(m, k),
         NEW i \in Slots, Probing(m, Wanted(k), i),
         Name(m, i) \notin {0, Wanted(k)} \/ i # Bucket(Wanted(k))
  PROVE  /\ \/ Sparse(start.files)
            \/ Reached(start.files, start.query) = 2 * (FILE_TABLE_ITEM_CNT + Len(start.files) + 1)
         /\ k < Len(start.files) => Colliding(start.files)
<1>1. PICK n \in Nat, w \in Nat : n = Len(start.files) /\ w = Wanted(k)
  BY FilesStart, NameWanted
<1>2. PICK h \in Nat : h = Bucket(w) /\ h \in Slots /\ Along(h, h)
  BY <1>1, BucketPlaced, FilesStart, SMTT(30) DEF Slots
<1>3. Name(m, h) \notin {0, w}
  <2>1. CASE i = h
    BY <1>1, <1>2, <2>1
  <2>2. CASE i # h
    <3>1. i \in Nat
      BY FilesStart DEF Slots
    <3>2. Passed(h, h, i)
      BY <1>2, <2>2, <3>1 DEF Passed
    <3> QED
      BY <1>1, <1>2, <3>2 DEF Probing
  <2> QED
    BY <2>1, <2>2
<1>4. PICK j \in 1..k : start.files[j].name = Name(m, h)
  BY <1>2, <1>3 DEF Holds, NamesAdded
<1>5. j \in 1..n /\ j \in DOMAIN start.files
  BY <1>1, <1>4, FilesStart, SMTT(30)
<1>6. CASE Colliding(start.files)
  BY <1>1, <1>6, ReachedItems
<1>7. CASE ~Colliding(start.files)
  <2>1. h = Bucket(Name(m, h))
    BY <1>2, <1>3, <1>7 DEF Holds, InBuckets
  <2>2. Collide(w, start.files[j].name) /\ Collide(start.files[j].name, w)
    BY <1>1, <1>2, <1>3, <1>4, <2>1 DEF Collide, Bucket
  <2>3. ~(k < n)
    <3> SUFFICES ASSUME k < n PROVE FALSE
      OBVIOUS
    <3>1. k + 1 \in DOMAIN start.files /\ w = start.files[k + 1].name
      BY <1>1, FilesStart DEF Wanted
    <3> QED
      BY <1>5, <1>7, <2>2, <3>1 DEF Colliding
  <2>4. w = start.query
    BY <1>1, <2>3 DEF Wanted
  <2> QED
    BY <1>1, <1>5, <2>2, <2>3, <2>4, ReachedItems
<1> QED
  BY <1>6, <1>7

(* A search that has not found its item goes on with another one.          *)
LEMMA SearchGoesOn ==
  ASSUME MInv, start.name = "files", NEW k \in 0..Len(start.files), NEW m, Holds(m, k),
         NEW i \in Slots, Probing(m, Wanted(k), i), Name(m, i) \notin {0, Wanted(k)}
  PROVE  /\ FILE_TABLE + 8 * i + 16 \in Word
         /\ FILE_TABLE + 8 * i + 16 = Turn => 0 \in Slots /\ Probing(m, Wanted(k), 0)
         /\ FILE_TABLE + 8 * i + 16 # Turn => i + 2 \in Slots /\ Probing(m, Wanted(k), i + 2)
<1>1. PICK n \in Nat, c \in Nat, f \in Nat, w \in Nat, r \in Nat :
        /\ n = Len(start.files) /\ c = FILE_TABLE_ITEM_CNT /\ f = FILE_TABLE /\ w = Wanted(k)
        /\ r = Reached(start.files, start.query) /\ c # 0
  BY FilesStart, NameWanted
<1>2. PICK h \in Nat : h = Bucket(w) /\ h < c /\ h \in Slots
  BY <1>1, BucketPlaced
<1>0. ~Sparse(start.files) => r = 2 * (c + n + 1)
  BY <1>1, SearchedFurther
<1>3. r >= c /\ Slots = 0..r - 1 /\ i \in Nat /\ i < r /\ f + 8 * r <= MemSize
  BY <1>1, FilesStart DEF Slots
<1>4. Along(h, i) /\ i % 2 = h % 2
  BY <1>1, <1>2 DEF Probing, Along
<1>5. Turn = f + 16 * c /\ f + 16 * c \in Word
  BY <1>1, ItemSizes
<1>6. MemSize \in Nat /\ WordSpace \in Nat /\ MemSize <= WordSpace
  BY MemoryAssumption, Widths DEF Word
<1>7. PICK j \in Nat : j = IF i + 2 = 2 * c THEN 0 ELSE i + 2
  BY <1>3
<1>8. f + 8 * i + 16 \in Word /\ j \in Slots /\ Along(h, j)
  <2>0. CASE Sparse(start.files)
    <3>1. i + 2 < c
      <4>1. i + 2 * (Len(start.files) + 1) < FILE_TABLE_ITEM_CNT + 2 * k
        BY <2>0 DEF Holds, SparseFree
      <4>2. i + 2 * (n + 1) < c + 2 * k /\ k \in Nat /\ k <= n
        BY <1>1, <4>1
      <4>3. i \in Nat
        BY <1>3
      <4> QED
        BY <4>2, <4>3
    <3>2. j = i + 2 /\ j \in Slots /\ j < 2 * c
      BY <1>1, <1>3, <1>7, <3>1, SMTT(30)
    <3>3. (i + 2) % 2 = i % 2
      BY <1>3
    <3>4. f + 8 * i + 16 \in Word
      BY <1>3, <1>6, <3>1 DEF Word
    <3>5. h % 2 # 0 => h <= j
      BY <1>2, <1>3, <1>4, <3>2 DEF Along
    <3> QED
      BY <1>1, <1>4, <3>2, <3>3, <3>4, <3>5 DEF Along
  <2>1. CASE ~Sparse(start.files) /\ h % 2 = 0
    <3>0. r = 2 * (c + n + 1)
      BY <1>0, <2>1
    <3>1. i < 2 * c
      BY <1>1, <1>4, <2>1 DEF Along
    <3>2. i % 2 = 0 /\ i \in Nat
      BY <1>3, <1>4, <2>1
    <3>3. i + 2 <= 2 * c
      <4>1. PICK b \in Int, e \in Nat : e = i % 2 /\ i = b * 2 + e
        BY <3>2, Division
      <4>2. i = b * 2 /\ b < c
        BY <3>1, <3>2, <4>1
      <4> QED
        BY <4>2
    <3>4. j < 2 * c /\ j % 2 = 0
      <4>1. (i + 2) % 2 = 0
        BY <3>2
      <4>2. c # 0
        BY <1>1
      <4>3. j = 0 \/ (j = i + 2 /\ i + 2 # 2 * c)
        BY <1>7
      <4> QED
        BY <3>2, <3>3, <4>1, <4>2, <4>3
    <3>5. f + 8 * i + 16 \in Word
      BY <1>3, <1>5, <1>6, <3>3 DEF Word
    <3>6. j \in Slots
      BY <1>1, <1>3, <3>0, <3>4
    <3> QED
      BY <1>1, <2>1, <3>4, <3>5, <3>6 DEF Along
  <2>2. CASE ~Sparse(start.files) /\ h % 2 # 0
    <3>0. r = 2 * (c + n + 1)
      BY <1>0, <2>2
    <3>1. h % 2 = 1 /\ i % 2 = 1 /\ h <= i
      BY <1>4, <2>2 DEF Along
    <3>2. Name(m, i) # 0
      OBVIOUS
    <3>3. i < c + 2 * k
      <4>1. ~(i >= FILE_TABLE_ITEM_CNT + 2 * k)
        BY <3>1, <3>2 DEF Holds, OddFree
      <4>2. k \in Nat
        BY <1>1
      <4> QED
        BY <1>1, <1>3, <4>1, <4>2
    <3>4. i + 2 < r
      BY <1>1, <1>3, <3>0, <3>3
    <3>5. i + 2 # 2 * c /\ (i + 2) % 2 = 1
      BY <1>3, <3>1
    <3>6. j = i + 2 /\ j \in Slots
      BY <1>3, <1>7, <3>4, <3>5
    <3>7. f + 8 * i + 16 \in Word
      BY <1>3, <1>6, <3>4 DEF Word
    <3> QED
      BY <2>2, <3>1, <3>5, <3>6, <3>7 DEF Along
  <2> QED
    BY <2>0, <2>1, <2>2
<1>9. Probing(m, w, j)
  <2> SUFFICES ASSUME NEW x \in Slots, Passed(h, x, j) PROVE Name(m, x) \notin {0, w}
    BY <1>2, <1>8 DEF Probing
  <2>1. Passed(h, x, i) \/ x = i
    BY <1>1, <1>2, <1>4, <1>7, <1>8, PassedOn
  <2> QED
    BY <1>1, <1>2, <2>1 DEF Probing
<1>10. f + 8 * i + 16 = Turn <=> i + 2 = 2 * c
  BY <1>3, <1>5
<1> QED
  BY <1>1, <1>7, <1>8, <1>9, <1>10

(* The item before another one.                                            *)
LEMMA OneBefore ==
  ASSUME NEW h \in Nat, NEW i \in Nat, h < i, i % 2 = h % 2
  PROVE  \E u \in Nat : u = i - 2 /\ h <= u /\ u < i /\ u % 2 = h % 2
<1>1. PICK a \in Int, d \in Nat : a = h \div 2 /\ d = h % 2 /\ d < 2 /\ h = a * 2 + d
  BY Division
<1>2. PICK b \in Int, e \in Nat : b = i \div 2 /\ e = i % 2 /\ e < 2 /\ i = b * 2 + e
  BY Division
<1>3. e = d /\ a < b
  BY <1>1, <1>2
<1>4. h <= i - 2 /\ i - 2 \in Nat
  BY <1>1, <1>2, <1>3
<1>5. PICK u \in Nat : u = i - 2
  BY <1>4
<1>6. u % 2 = h % 2
  BY <1>5
<1> QED
  BY <1>4, <1>5, <1>6

(* A file is added at the item its search has come to.                     *)
LEMMA FileAdded ==
  ASSUME MInv, start.name = "files", NEW k \in 0..Len(start.files) - 1, NEW m, Holds(m, k),
         NEW i \in Slots, Probing(m, Wanted(k), i), Name(m, i) \in {0, Wanted(k)}, NEW m2,
         m2 = Put(Put(m, FILE_TABLE + 8 * i, 4, Wanted(k)), FILE_TABLE + 8 * i + 4, 4, start.files[k + 1].sector)
  PROVE  Holds(m2, k + 1)
<1>0. PICK n \in Nat : n = Len(start.files) /\ k \in 0..n /\ k \in Nat /\ k + 1 \in 1..n /\ k < n
  BY FilesStart
<1>1. PICK c \in Nat, f \in Nat, w \in Nat :
        /\ n = Len(start.files) /\ c = FILE_TABLE_ITEM_CNT /\ f = FILE_TABLE /\ w = Wanted(k)
        /\ c # 0 /\ w # 0 /\ w \in Word /\ k \in 0..n /\ k \in Nat /\ k + 1 \in 1..n
  <2>1. PICK c \in Nat, f \in Nat : c = FILE_TABLE_ITEM_CNT /\ c # 0 /\ f = FILE_TABLE
    BY FilesStart
  <2>2. k \in 0..Len(start.files)
    BY <1>0
  <2>3. PICK w \in Nat : w = Wanted(k) /\ w # 0 /\ w \in Word
    BY <2>2, NameWanted
  <2> QED
    BY <1>0, <2>1, <2>3
<1>2. PICK h \in Nat : h = Bucket(w) /\ h < c /\ h \in Slots
  BY <1>1, BucketPlaced
<1>3. PICK s \in Word : s = start.files[k + 1].sector /\ w = start.files[k + 1].name
  <2>1. start.files[k + 1].sector \in 1..Half - 1
    BY <1>1, FilesStart
  <2>2. start.files[k + 1].sector \in Word
    BY <2>1, ProgramWidths, Widths DEF Word, WordSpace
  <2> QED
    BY <1>0, <1>1, <2>2 DEF Wanted
<1>4. m \in Bytes(MemSize) /\ \A x \in Slots : x \in Nat
  BY FilesStart DEF Holds, Slots
<1>5. PICK m1 : m1 = Put(m, f + 8 * i, 4, w) /\ m1 \in Bytes(MemSize) /\ m2 = Put(m1, f + 8 * i + 4, 4, s)
  BY <1>1, <1>3, <1>4, ItemsStored, SMTT(30)
<1>6. ASSUME NEW x \in Slots
      PROVE  /\ Name(m2, x) = IF x = i THEN w ELSE Name(m, x)
             /\ Sector(m2, x) = IF x = i THEN s ELSE Sector(m, x)
  <2>1. Name(m1, x) = (IF x = i THEN w ELSE Name(m, x)) /\ Sector(m1, x) = Sector(m, x)
    <3>1. m1 = Put(m, FILE_TABLE + 8 * i, 4, w)
      BY <1>1, <1>5
    <3>2. w \in Word /\ m \in Bytes(MemSize)
      BY <1>1, <1>4
    <3>3. /\ Name(Put(m, FILE_TABLE + 8 * i, 4, w), x) = IF x = i THEN w ELSE Name(m, x)
          /\ Sector(Put(m, FILE_TABLE + 8 * i, 4, w), x) = Sector(m, x)
      BY <3>2, ItemsStored
    <3> QED
      BY <3>1, <3>3
  <2>2. Name(m2, x) = Name(m1, x) /\ Sector(m2, x) = IF x = i THEN s ELSE Sector(m1, x)
    <3>1. m2 = Put(m1, FILE_TABLE + 8 * i + 4, 4, s)
      BY <1>1, <1>5
    <3>2. m1 \in Bytes(MemSize)
      BY <1>5
    <3>3. /\ Name(Put(m1, FILE_TABLE + 8 * i + 4, 4, s), x) = Name(m1, x)
          /\ Sector(Put(m1, FILE_TABLE + 8 * i + 4, 4, s), x) = IF x = i THEN s ELSE Sector(m1, x)
      BY <3>2, ItemsStored
    <3> QED
      BY <3>1, <3>3
  <2> QED
    BY <2>1, <2>2
<1>7. /\ m2 \in Bytes(MemSize)
      /\ \A a \in 0..MemSize - 1 : a \notin f + 8 * i..f + 8 * i + 7 => m2[a] = m[a]
  <2>1. \A a \in 0..MemSize - 1 : a \notin f + 8 * i..f + 8 * i + 7 => m1[a] = m[a]
    BY <1>1, <1>4, <1>5, ItemsStored, SMTT(30)
  <2>2. /\ m2 \in Bytes(MemSize)
        /\ \A a \in 0..MemSize - 1 : a \notin f + 8 * i..f + 8 * i + 7 => m2[a] = m1[a]
    BY <1>1, <1>5, ItemsStored
  <2> QED
    BY <2>1, <2>2
<1>8. Along(h, i) /\ i % 2 = h % 2
  BY <1>1, <1>2 DEF Probing, Along
<1>9. \A y : ~Passed(y, i, i)
  BY <1>4 DEF Passed
<1>10. 1..k \subseteq 1..k + 1 /\ k + 1 \in 1..k + 1 /\ \A j \in 1..k + 1 : j = k + 1 \/ j \in 1..k
  BY <1>1
<1>11. NamesAdded(m2, k + 1)
  <2> SUFFICES ASSUME NEW x \in Slots
               PROVE  /\ Name(m2, x) # 0 => \E j \in 1..k + 1 : start.files[j].name = Name(m2, x)
                      /\ Name(m2, x) = 0 => Sector(m2, x) = 0
    BY DEF NamesAdded
  <2>1. CASE x = i
    BY <1>1, <1>3, <1>6, <1>10, <2>1
  <2>2. CASE x # i
    BY <1>6, <1>10, <2>2 DEF Holds, NamesAdded
  <2> QED
    BY <2>1, <2>2
<1>12. FilesThere(m2, k + 1)
  <2> SUFFICES ASSUME NEW j \in 1..k + 1, Latest(j, k + 1)
               PROVE  \E y \in Slots :
                        /\ Probing(m2, start.files[j].name, y)
                        /\ Name(m2, y) = start.files[j].name /\ Sector(m2, y) = start.files[j].sector
    BY DEF FilesThere
  <2>1. CASE j = k + 1
    <3>1. Probing(m2, w, i)
      <4> SUFFICES ASSUME NEW x \in Slots, Passed(h, x, i) PROVE Name(m2, x) \notin {0, w}
        BY <1>2, <1>8 DEF Probing
      <4>1. x # i
        BY <1>9
      <4> QED
        BY <1>1, <1>2, <1>6, <4>1 DEF Probing
    <3> QED
      BY <1>3, <1>6, <2>1, <3>1
  <2>2. CASE j \in 1..k
    <3>1. PICK v : v = start.files[j].name /\ v # w
      <4>1. k + 1 \in j + 1..k + 1
        BY <1>1, <2>2
      <4> QED
        BY <1>3, <4>1 DEF Latest
    <3>2. Latest(j, k)
      <4>1. \A l \in j + 1..k : l \in j + 1..k + 1
        BY <1>1, <2>2
      <4> QED
        BY <4>1 DEF Latest
    <3>3. v # 0
      <4>1. j \in 1..n
        BY <1>1, <2>2
      <4>2. v \in 1..Half - 1
        BY <1>1, <3>1, <4>1, FilesStart
      <4> QED
        BY <4>2, ProgramWidths
    <3>4. PICK y \in Slots :
            Probing(m, v, y) /\ Name(m, y) = v /\ Sector(m, y) = start.files[j].sector
      BY <2>2, <3>1, <3>2 DEF Holds, FilesThere
    <3>5. y # i
      BY <1>1, <3>1, <3>3, <3>4
    <3>6. Probing(m2, v, y)
      <4> SUFFICES ASSUME NEW x \in Slots, Passed(Bucket(v), x, y) PROVE Name(m2, x) \notin {0, v}
        BY <3>4 DEF Probing
      <4>1. Name(m, x) \notin {0, v}
        BY <3>4 DEF Probing
      <4> QED
        BY <1>1, <1>6, <3>1, <4>1
    <3> QED
      BY <1>6, <3>1, <3>4, <3>5, <3>6
  <2> QED
    BY <1>10, <2>1, <2>2
<1>13. OddFree(m2, k + 1)
  <2> SUFFICES ASSUME NEW x \in Slots, x % 2 = 1, x >= FILE_TABLE_ITEM_CNT + 2 * (k + 1)
               PROVE  Name(m2, x) = 0
    BY DEF OddFree
  <2>1. x # i
    <3> SUFFICES ASSUME x = i PROVE FALSE
      OBVIOUS
    <3>1. h % 2 = 1 /\ x >= c + 2 * k + 2 /\ x \in Nat
      BY <1>1, <1>4, <1>8
    <3>2. PICK u \in Nat : u = x - 2 /\ u >= c + 2 * k /\ u < x /\ h <= u /\ u % 2 = 1
      <4>1. x - 2 \in Nat
        BY <1>1, <3>1
      <4>2. (x - 2) % 2 = 1
        BY <3>1
      <4> QED
        BY <1>1, <1>2, <3>1, <4>1, <4>2
    <3>3. u \in Slots
      <4>1. PICK r \in Nat : Slots = 0..r - 1
        BY FilesStart DEF Slots
      <4>2. x \in 0..r - 1
        BY <4>1
      <4> QED
        BY <3>1, <3>2, <4>1, <4>2
    <3>4. Passed(h, u, i)
      BY <3>1, <3>2, <3>3 DEF Passed, Along
    <3>5. Name(m, u) # 0
      BY <1>1, <1>2, <3>3, <3>4 DEF Probing
    <3>6. u >= FILE_TABLE_ITEM_CNT + 2 * k
      BY <1>1, <3>2
    <3> QED
      BY <3>2, <3>3, <3>5, <3>6 DEF Holds, OddFree
  <2>2. x >= FILE_TABLE_ITEM_CNT + 2 * k
    <3>1. x \in Nat
      BY <1>4
    <3>2. x >= c + 2 * (k + 1)
      BY <1>1
    <3> QED
      BY <1>1, <3>1, <3>2
  <2> QED
    BY <1>6, <2>1, <2>2 DEF Holds, OddFree
<1>14. Sparse(start.files) => i + 2 * n < c + 2 * k
  <2>0. i \in Nat /\ k \in Nat
    BY <1>1, <1>4
  <2> SUFFICES ASSUME Sparse(start.files) PROVE i + 2 * n < c + 2 * k
    OBVIOUS
  <2>1. h + 2 * n < c
    <3>1. k + 1 \in DOMAIN start.files
      BY <1>0, FilesStart
    <3> QED
      BY <1>1, <1>2, <1>3, <3>1 DEF Sparse, Bucket
  <2>2. CASE i <= h
    BY <2>0, <2>1, <2>2
  <2>3. CASE h < i
    <3>1. PICK u \in Nat : u = i - 2 /\ u < i /\ h <= u /\ u % 2 = h % 2 /\ u \in Slots
      <4>1. i \in Nat /\ i % 2 = h % 2
        BY <1>4, <1>8
      <4>2. PICK u \in Nat : u = i - 2 /\ h <= u /\ u < i /\ u % 2 = h % 2
        BY <2>3, <4>1, OneBefore
      <4>3. PICK r \in Nat : Slots = 0..r - 1
        BY FilesStart DEF Slots
      <4>4. i \in 0..r - 1
        BY <4>3
      <4>5. u \in Slots
        BY <4>1, <4>2, <4>3, <4>4
      <4> QED
        BY <4>2, <4>5
    <3>2. Along(h, u)
      BY <1>1, <1>2, <1>4, <1>8, <3>1 DEF Along
    <3>3. Passed(h, u, i)
      BY <1>2, <1>4, <2>3, <3>1, <3>2 DEF Passed
    <3>4. Name(m, u) # 0
      BY <1>1, <1>2, <3>1, <3>3 DEF Probing
    <3>5. u + 2 * (Len(start.files) + 1) < FILE_TABLE_ITEM_CNT + 2 * k
      BY <3>1, <3>4 DEF Holds, SparseFree
    <3>6. u + 2 * (n + 1) < c + 2 * k
      BY <1>1, <3>5
    <3> QED
      BY <2>0, <3>1, <3>6
  <2> QED
    BY <2>0, <2>2, <2>3
<1>15. SparseFree(m2, k + 1)
  <2> SUFFICES ASSUME Sparse(start.files), NEW x \in Slots, Name(m2, x) # 0
               PROVE  x + 2 * (Len(start.files) + 1) < FILE_TABLE_ITEM_CNT + 2 * (k + 1)
    BY DEF SparseFree
  <2>1. x \in Nat /\ i \in Nat
    BY <1>4
  <2>2. CASE x = i
    <3>1. x + 2 * (n + 1) < c + 2 * (k + 1)
      BY <1>1, <1>14, <2>1, <2>2, SMTT(30)
    <3> QED
      BY <1>1, <3>1
  <2>3. CASE x # i
    <3>1. x + 2 * (Len(start.files) + 1) < FILE_TABLE_ITEM_CNT + 2 * k
      BY <1>6, <2>3 DEF Holds, SparseFree
    <3>2. x + 2 * (n + 1) < c + 2 * k /\ k \in Nat
      BY <1>1, <3>1
    <3>3. x + 2 * (n + 1) < c + 2 * (k + 1)
      BY <2>1, <3>2
    <3> QED
      BY <1>1, <3>3
  <2> QED
    BY <2>2, <2>3
<1>16. InBuckets(m2)
  <2> SUFFICES ASSUME ~Colliding(start.files), NEW x \in Slots, Name(m2, x) # 0
               PROVE  x = Bucket(Name(m2, x))
    BY DEF InBuckets
  <2>1. i = h
    BY <1>1, <1>2, SearchedFurther, SMTT(30)
  <2> QED
    BY <1>2, <1>6, <2>1 DEF Holds, InBuckets
<1>17. InTable(m2)
  <2> SUFFICES ASSUME ~Colliding(start.files) \/ Sparse(start.files),
                      NEW a \in 0..MemSize - 1, a \notin Allocated
               PROVE  m2[a] = start.mem[a]
    BY DEF InTable
  <2>1. i < c
    <3>1. CASE Sparse(start.files)
      <4>1. i + 2 * n < c + 2 * k
        BY <1>14, <3>1
      <4>2. i \in Nat /\ k \in Nat /\ k < n
        BY <1>0, <1>4
      <4> QED
        BY <4>1, <4>2
    <3>2. CASE ~Colliding(start.files)
      <4>1. i = h
        BY <1>1, <1>2, <3>2, SearchedFurther, SMTT(30)
      <4> QED
        BY <1>2, <4>1
    <3> QED
      BY <3>1, <3>2
  <2>2. a \notin f..f + 8 * c - 1
    BY <1>1 DEF Allocated, Items
  <2>3. a \notin f + 8 * i..f + 8 * i + 7
    <3>1. a \in Int
      BY Ports
    <3> QED
      BY <1>1, <1>4, <2>1, <2>2, <3>1, SMTT(30)
  <2>4. m[a] = start.mem[a]
    BY DEF Holds, InTable
  <2> QED
    BY <1>7, <2>3, <2>4
<1> QED
  BY <1>7, <1>11, <1>12, <1>13, <1>15, <1>16, <1>17 DEF Holds

(* A finite set of numbers has a greatest one.                             *)
LEMMA GreatestNumber ==
  ASSUME NEW n \in Nat, NEW T, T \subseteq 1..n, T # {}
  PROVE  \E x \in T : \A y \in T : y <= x
<1> DEFINE M == {n - y : y \in T}
<1>1. \A y \in T : y \in Nat /\ y <= n /\ n - y \in Nat /\ n - y \in M
  OBVIOUS
<1>2. M \subseteq Nat /\ M # {}
  BY <1>1
<1>3. \A z \in M : \E y \in T : z = n - y
  OBVIOUS
<1> HIDE DEF M
<1>4. PICK z \in M : \A v \in M : z <= v
  BY <1>2, LeastNumber
<1>5. PICK x \in T : z = n - x
  BY <1>3, <1>4
<1>6. ASSUME NEW y \in T PROVE y <= x
  BY <1>1, <1>4, <1>5
<1> QED
  BY <1>6

(* A search that has ended has found what was added last.                  *)
LEMMA FoundLast ==
  ASSUME MInv, start.name = "files", NEW m, Holds(m, Len(start.files)), NEW i \in Slots,
         Probing(m, start.query, i), Name(m, i) \in {0, start.query}
  PROVE  /\ Name(m, i) = IF Last(start.files, start.query) = 0 THEN 0 ELSE start.query
         /\ Sector(m, i) = Last(start.files, start.query)
<1>1. PICK n \in Nat, q \in Nat : n = Len(start.files) /\ q = start.query /\ q # 0
  BY FilesStart, ProgramWidths
<1>2. PICK T : T = {k \in 1..n : start.files[k].name = q}
  OBVIOUS
<1>3. Last(start.files, q) =
        IF T = {} THEN 0 ELSE start.files[CHOOSE k \in T : \A j \in T : j <= k].sector
  <2>1. {k \in DOMAIN start.files : start.files[k].name = q} = T
    BY <1>1, <1>2, FilesStart
  <2>2. Last(start.files, q) =
          LET those == {k \in DOMAIN start.files : start.files[k].name = q}
          IN  IF those = {} THEN 0 ELSE start.files[CHOOSE k \in those : \A j \in those : j <= k].sector
    BY DEF Last
  <2> QED
    BY <2>1, <2>2, Zenon
<1>4. CASE T = {}
  <2>1. Name(m, i) = 0
    <3> SUFFICES ASSUME Name(m, i) = q PROVE FALSE
      BY <1>1
    <3>1. \E j \in 1..n : start.files[j].name = q
      BY <1>1 DEF Holds, NamesAdded
    <3> QED
      BY <1>2, <1>4, <3>1
  <2>2. Sector(m, i) = 0
    BY <2>1 DEF Holds, NamesAdded
  <2> QED
    BY <1>1, <1>3, <1>4, <2>1, <2>2
<1>5. CASE T # {}
  <2>1. T \subseteq 1..n
    BY <1>2
  <2>2. \E x \in T : \A y \in T : y <= x
    BY <1>5, <2>1, GreatestNumber
  <2>3. PICK k : k = CHOOSE x \in T : \A y \in T : y <= x
    OBVIOUS
  <2>4. k \in T /\ \A y \in T : y <= k
    BY <2>2, <2>3
  <2>5. k \in 1..n /\ start.files[k].name = q /\ Last(start.files, q) = start.files[k].sector
    BY <1>2, <1>3, <1>5, <2>3, <2>4, SMTT(30)
  <2>6. Last(start.files, q) # 0
    <3>1. start.files[k].sector \in 1..Half - 1
      BY <1>1, <2>5, FilesStart
    <3> QED
      BY <2>5, <3>1, ProgramWidths
  <2>7. Latest(k, n)
    <3> SUFFICES ASSUME NEW l \in k + 1..n, start.files[l].name = q PROVE FALSE
      BY <2>5 DEF Latest
    <3>1. l \in 1..n /\ l > k
      BY <2>5
    <3>2. l \in T
      BY <1>2, <3>1
    <3> QED
      BY <2>4, <2>5, <3>1, <3>2
  <2>8. PICK y \in Slots :
          Probing(m, q, y) /\ Name(m, y) = q /\ Sector(m, y) = start.files[k].sector
    BY <1>1, <2>5, <2>7 DEF Holds, FilesThere
  <2>9. PICK h \in Nat : h = Bucket(q)
    <3>1. PICK c \in Nat : c = FILE_TABLE_ITEM_CNT
      BY FilesStart
    <3>2. Bucket(q) \in 0..c - 1
      BY <1>1, <3>1, BucketPlaced
    <3> QED
      BY <3>1, <3>2
  <2>10. Along(h, y) /\ Along(h, i)
    BY <1>1, <2>8, <2>9 DEF Probing
  <2>11. y = i
    <3>1. ~Passed(h, y, i) /\ ~Passed(h, i, y)
      BY <1>1, <2>8, <2>9 DEF Probing
    <3> QED
      BY <2>10, <3>1, OneFirst
  <2> QED
    BY <1>1, <2>5, <2>6, <2>8, <2>11
<1> QED
  BY <1>4, <1>5

(* There are no names to begin with.                                       *)
LEMMA NoNames ==
  ASSUME MInv, start.name = "files"
  PROVE  Holds(start.mem, 0)
<1>1. PICK f \in Nat, r \in Nat, n \in Nat :
        /\ f = FILE_TABLE /\ r = Reached(start.files, start.query) /\ n = MemSize
        /\ Slots = 0..r - 1 /\ f + 8 * r <= n /\ \A a \in f..f + 8 * r - 1 : start.mem[a] = 0
  BY FilesStart, Ports DEF Slots, Items
<1>2. ASSUME NEW a \in Nat, f <= a, a + 4 <= f + 8 * r PROVE WordAt(start.mem, a) = 0
  <2>1. /\ a \in f..f + 8 * r - 1 /\ a + 1 \in f..f + 8 * r - 1
        /\ a + 2 \in f..f + 8 * r - 1 /\ a + 3 \in f..f + 8 * r - 1
    BY <1>2
  <2>2. start.mem[a] = 0 /\ start.mem[a + 1] = 0 /\ start.mem[a + 2] = 0 /\ start.mem[a + 3] = 0
    BY <1>1, <2>1
  <2>3. PICK x \in Nat, y \in Nat, z \in Nat : x = Byte /\ y = Half /\ z = Half * Byte
    BY Widths
  <2>4. 0 + x * 0 + y * 0 + z * 0 = 0
    OBVIOUS
  <2> QED
    BY <2>2, <2>3, <2>4 DEF WordAt
<1>3. ASSUME NEW i \in Slots PROVE Name(start.mem, i) = 0 /\ Sector(start.mem, i) = 0
  <2>1. PICK a \in Nat, b \in Nat : a = f + 8 * i /\ b = a + 4 /\ b + 4 <= f + 8 * r /\ f <= a /\ f <= b
    BY <1>1
  <2>2. a + 4 <= f + 8 * r
    BY <2>1
  <2> QED
    BY <1>1, <1>2, <2>1, <2>2 DEF Name, Sector
<1>4. start.mem \in Bytes(MemSize)
  BY StartsAssumption DEF MInv, Bytes
<1>5. FilesThere(start.mem, 0)
  BY DEF FilesThere
<1> QED
  BY <1>3, <1>4, <1>5 DEF Holds, NamesAdded, OddFree, SparseFree, InBuckets, InTable

-----------------------------------------------------------------------------
(* The code of the program.                                                *)

(* Two sequences, one behind the other.                                    *)
LEMMA Joined ==
  ASSUME NEW S, NEW s \in Seq(S), NEW t \in Seq(S)
  PROVE  /\ s \o t \in Seq(S) /\ Len(s \o t) = Len(s) + Len(t)
         /\ \A i \in 1..Len(s) : (s \o t)[i] = s[i]
         /\ \A i \in 1..Len(t) : (s \o t)[Len(s) + i] = t[i]
<1>1. PICK u : u = s \o t
  OBVIOUS
<1>2. PICK m \in Nat, n \in Nat : m = Len(s) /\ n = Len(t)
  OBVIOUS
<1>3. /\ u \in Seq(S) /\ Len(u) = m + n
      /\ \A i \in 1..m + n : u[i] = IF i <= m THEN s[i] ELSE t[i - m]
  BY <1>1, <1>2, ConcatProperties
<1>4. \A i \in 1..m : u[i] = s[i]
  <2> SUFFICES ASSUME NEW i \in 1..m PROVE u[i] = s[i]
    OBVIOUS
  <2>1. i \in 1..m + n /\ i <= m
    OBVIOUS
  <2> QED
    BY <1>3, <2>1
<1>5. \A i \in 1..n : u[m + i] = t[i]
  <2> SUFFICES ASSUME NEW i \in 1..n PROVE u[m + i] = t[i]
    OBVIOUS
  <2>1. m + i \in 1..m + n /\ ~(m + i <= m) /\ (m + i) - m = i
    OBVIOUS
  <2> QED
    BY <1>3, <2>1
<1> QED
  BY <1>1, <1>2, <1>3, <1>4, <1>5

(* The code that adds a file.                                              *)
LEMMA AddFileCode ==
  ASSUME NEW file
  PROVE  FS_ADDFILE(file) =
           <<I("ORI", A1, 0, file.sector), I("ORI", A0, 0, file.name), [Reserved EXCEPT !.op = "JAL"], Nop,
             I("SW", A0, V0, 0), I("SW", A1, V0, 4)>>
<1>1. PICK a, b, c, d, e, g :
        /\ a = I("ORI", A1, 0, file.sector) /\ b = I("ORI", A0, 0, file.name)
        /\ c = [Reserved EXCEPT !.op = "JAL"] /\ d = Nop
        /\ e = I("SW", A0, V0, 0) /\ g = I("SW", A1, V0, 4)
  OBVIOUS
<1>2. FS_ADDFILE(file) = <<a>> \o <<b, c, d>> \o <<e, g>>
  BY <1>1, Zenon DEF FS_ADDFILE, Lookup
<1>3. <<a>> \o <<b, c, d>> \o <<e, g>> = <<a, b, c, d, e, g>>
  <2>1. PICK S : S = {a, b, c, d, e, g}
    OBVIOUS
  <2>2. PICK p, q : p = <<a>> \o <<b, c, d>> \o <<e, g>> /\ q = <<a, b, c, d, e, g>>
    OBVIOUS
  <2>3. p \in Seq(S) /\ q \in Seq(S) /\ Len(p) = 6 /\ Len(q) = 6
    BY <2>1, <2>2
  <2>4. p[1] = a /\ p[2] = b /\ p[3] = c /\ p[4] = d /\ p[5] = e /\ p[6] = g
    BY <2>2
  <2>5. \A i \in 1..Len(p) : p[i] = q[i]
    BY <2>2, <2>3, <2>4
  <2>6. p = q
    BY <2>3, <2>5, SeqEqual
  <2> QED
    BY <2>2, <2>6
<1> QED
  BY <1>1, <1>2, <1>3, Zenon

(* There is a function that adds one file after the other.                 *)
LEMMA AddedFiles ==
  ASSUME NEW files, NEW N \in Nat
  PROVE  \E f : f = [k \in 0..N |-> IF k = 0 THEN <<>> ELSE f[k - 1] \o FS_ADDFILE(files[k])]
<1> DEFINE Solves(g, n) ==
             g = [k \in 0..n |-> IF k = 0 THEN <<>> ELSE g[k - 1] \o FS_ADDFILE(files[k])]
           Unsolved == {n \in 0..N : ~\E g : Solves(g, n)}
<1>1. 0 \notin Unsolved
  <2>1. Solves([k \in 0..0 |-> <<>>], 0)
    OBVIOUS
  <2> QED
    BY <2>1
<1>2. ASSUME NEW n \in Nat, n + 1 \in 0..N, n \notin Unsolved
      PROVE  n + 1 \notin Unsolved
  <2>0. n \in 0..N
    BY <1>2
  <2>1. PICK g : Solves(g, n)
    BY <1>2, <2>0
  <2> DEFINE h == [k \in 0..n + 1 |-> IF k = n + 1 THEN g[n] \o FS_ADDFILE(files[k]) ELSE g[k]]
  <2>2. \A k \in 0..n : h[k] = g[k]
    OBVIOUS
  <2>3. h[n + 1] = g[n] \o FS_ADDFILE(files[n + 1]) /\ h = [k \in 0..n + 1 |-> h[k]]
    OBVIOUS
  <2> HIDE DEF h
  <2>4. ASSUME NEW k \in 0..n + 1
        PROVE  h[k] = IF k = 0 THEN <<>> ELSE h[k - 1] \o FS_ADDFILE(files[k])
    <3>1. CASE k = n + 1
      <4>1. k # 0 /\ k - 1 = n /\ n \in 0..n
        BY <3>1
      <4> QED
        BY <2>2, <2>3, <3>1, <4>1
    <3>2. CASE k \in 0..n /\ k # 0
      <4>1. k - 1 \in 0..n
        BY <3>2
      <4>2. g[k] = g[k - 1] \o FS_ADDFILE(files[k])
        BY <2>1, <3>2
      <4> QED
        BY <2>2, <3>2, <4>1, <4>2
    <3>3. CASE k = 0
      <4>1. g[0] = <<>> /\ 0 \in 0..n
        BY <2>1
      <4> QED
        BY <2>2, <3>3, <4>1
    <3> QED
      BY <3>1, <3>2, <3>3
  <2>5. Solves(h, n + 1)
    BY <2>3, <2>4, Zenon
  <2> QED
    BY <2>5
<1>3. Unsolved = {}
  <2> SUFFICES ASSUME Unsolved # {} PROVE FALSE
    OBVIOUS
  <2> HIDE DEF Solves
  <2>1. Unsolved \subseteq 0..N /\ Unsolved \subseteq Nat
    OBVIOUS
  <2> HIDE DEF Unsolved
  <2>2. PICK m \in Unsolved : \A n \in Unsolved : m <= n
    BY <2>1, LeastNumber
  <2>3. m # 0 /\ m \in Nat /\ m \in 0..N
    BY <1>1, <2>1, <2>2
  <2>4. m - 1 \in Nat /\ m - 1 \notin Unsolved /\ (m - 1) + 1 = m
    BY <2>2, <2>3
  <2> QED
    BY <1>2, <2>2, <2>3, <2>4
<1>4. N \in 0..N
  OBVIOUS
<1> QED
  BY <1>3, <1>4

(* Each file has six instructions.                                         *)
SixIn(S, files) ==
  \A k \in 1..Len(files) : FS_ADDFILE(files[k]) \in Seq(S) /\ Len(FS_ADDFILE(files[k])) = 6

(* They are where they should be among the code of all of them.            *)
InOrder(code, files) ==
  \A k \in 0..Len(files) - 1, l \in 1..6 : code[6 * k + l] = FS_ADDFILE(files[k + 1])[l]

(* The code of all files.                                                  *)
LEMMA AddedCode ==
  ASSUME NEW S, NEW files, Len(files) \in Nat, SixIn(S, files)
  PROVE  /\ FS_INIT(files) \in Seq(S) /\ Len(FS_INIT(files)) = 6 * Len(files)
         /\ InOrder(FS_INIT(files), files)
<1>0. PICK N \in Nat : N = Len(files)
  OBVIOUS
<1>1. PICK f : f = CHOOSE g : g = [k \in 0..N |-> IF k = 0 THEN <<>> ELSE g[k - 1] \o FS_ADDFILE(files[k])]
  OBVIOUS
<1>2. f = [k \in 0..N |-> IF k = 0 THEN <<>> ELSE f[k - 1] \o FS_ADDFILE(files[k])]
  BY <1>1, AddedFiles, Zenon
<1>3. FS_INIT(files) = f[N]
  BY <1>0, <1>1, Zenon DEF FS_INIT
<1>4. f[0] = <<>> /\ \A k \in 1..N : f[k] = f[k - 1] \o FS_ADDFILE(files[k])
  <2>1. 0 \in 0..N /\ \A k \in 1..N : k \in 0..N /\ k # 0
    OBVIOUS
  <2> QED
    BY <1>2, <2>1
<1> DEFINE Right(k) ==
             /\ f[k] \in Seq(S) /\ Len(f[k]) = 6 * k
             /\ \A j \in 0..k - 1, l \in 1..6 : f[k][6 * j + l] = FS_ADDFILE(files[j + 1])[l]
           Wrong == {k \in 0..N : ~Right(k)}
<1>5. Right(0)
  BY <1>4
<1>6. ASSUME NEW k \in 1..N, Right(k - 1) PROVE Right(k)
  <2>1. PICK s : s = f[k - 1] /\ s \in Seq(S) /\ Len(s) = 6 * (k - 1)
    BY <1>6
  <2>2. PICK t : t = FS_ADDFILE(files[k]) /\ t \in Seq(S) /\ Len(t) = 6
    BY <1>0 DEF SixIn
  <2>3. f[k] = s \o t
    BY <1>4, <2>1, <2>2
  <2>4. PICK u : /\ u = s \o t /\ u \in Seq(S) /\ Len(u) = 6 * (k - 1) + 6
                 /\ \A i \in 1..6 * (k - 1) + 6 : u[i] = IF i <= 6 * (k - 1) THEN s[i] ELSE t[i - 6 * (k - 1)]
    <3>1. PICK n \in Nat : n = 6 * (k - 1) /\ Len(s) = n
      BY <2>1
    <3>2. /\ s \o t \in Seq(S) /\ Len(s \o t) = Len(s) + Len(t)
          /\ \A i \in 1..Len(s) + Len(t) : (s \o t)[i] = IF i <= Len(s) THEN s[i] ELSE t[i - Len(s)]
      BY <2>1, <2>2, ConcatProperties, ZenonT(60)
    <3>3. /\ s \o t \in Seq(S) /\ Len(s \o t) = n + 6
          /\ \A i \in 1..n + 6 : (s \o t)[i] = IF i <= n THEN s[i] ELSE t[i - n]
      BY <2>2, <3>1, <3>2
    <3> QED
      BY <3>1, <3>3
  <2>5. ASSUME NEW j \in 0..k - 1, NEW l \in 1..6 PROVE u[6 * j + l] = FS_ADDFILE(files[j + 1])[l]
    <3>1. 6 * j + l \in 1..6 * (k - 1) + 6
      OBVIOUS
    <3>2. CASE j < k - 1
      <4>1. 6 * j + l <= 6 * (k - 1) /\ j \in 0..(k - 1) - 1
        BY <3>2
      <4>2. s[6 * j + l] = FS_ADDFILE(files[j + 1])[l]
        BY <1>6, <2>1, <4>1
      <4> QED
        BY <2>4, <3>1, <4>1, <4>2
    <3>3. CASE j = k - 1
      <4>1. ~(6 * j + l <= 6 * (k - 1)) /\ (6 * j + l) - 6 * (k - 1) = l /\ j + 1 = k
        BY <3>3
      <4> QED
        BY <2>2, <2>4, <3>1, <4>1
    <3> QED
      BY <3>2, <3>3
  <2>6. Len(u) = 6 * k
    BY <2>4
  <2> QED
    BY <2>3, <2>4, <2>5, <2>6
<1>7. Wrong = {}
  <2> SUFFICES ASSUME Wrong # {} PROVE FALSE
    OBVIOUS
  <2>1. Wrong \subseteq 0..N /\ Wrong \subseteq Nat
    OBVIOUS
  <2>2. \A k \in 0..N : k \in Wrong <=> ~Right(k)
    OBVIOUS
  <2> HIDE DEF Wrong, Right
  <2>3. PICK m \in Wrong : \A n \in Wrong : m <= n
    BY <2>1, LeastNumber
  <2>4. m \in 0..N /\ m # 0
    BY <1>5, <2>1, <2>2, <2>3
  <2>5. m \in 1..N /\ m - 1 \in 0..N /\ ~(m <= m - 1)
    BY <2>4
  <2>6. Right(m - 1)
    BY <2>2, <2>3, <2>5
  <2> QED
    BY <1>6, <2>2, <2>3, <2>4, <2>5, <2>6
<1>8. N \in 0..N
  OBVIOUS
<1>9. Right(N)
  <2> HIDE DEF Right
  <2> QED
    BY <1>7, <1>8
<1> QED
  BY <1>0, <1>3, <1>9 DEF InOrder

(* The code of a search.                                                   *)
LEMMA SearchCode ==
  LET code == FS_GET_FILEITEM_BY_NAME
  IN  /\ code[1] = I("LUI", T0, 0, FILE_TABLE_ITEM_CNT \div Half)
      /\ code[2] = I("ORI", T0, T0, FILE_TABLE_ITEM_CNT % Half)
      /\ code[3] = R("DIVU", 0, A0, T0) /\ code[4] = R("MFHI", V0, 0, 0)
      /\ code[5] = I("LUI", S1, 0, FILE_TABLE \div Half) /\ code[6] = I("ORI", S1, S1, FILE_TABLE % Half)
      /\ code[7] = I("LUI", S2, 0, FILE_TABLE_SIZE \div Half)
      /\ code[8] = I("ORI", S2, S2, FILE_TABLE_SIZE % Half)
      /\ code[9] = R("ADD", S2, S2, S1)
      /\ code[10] = Shift("SLL", S3, V0, FILE_TABLE_ITEM_LOG_SIZE) /\ code[11] = R("ADD", S3, S3, S1)
      /\ code[12] = I("LW", T1, S3, 0)
      /\ code[13] = I("BEQ", 0, T1, 8 + 1) /\ code[14] = Nop
      /\ code[15] = I("BEQ", A0, T1, 6 + 1) /\ code[16] = Nop
      /\ code[17] = I("ADDI", S3, S3, FILE_TABLE_ITEM_SIZE)
      /\ code[18] = I("BNE", S2, S3, 1 + 1) /\ code[19] = Nop
      /\ code[20] = R("OR", S3, 0, S1)
      /\ code[21] = [Nop EXCEPT !.op = "J", !.im = 11] /\ code[22] = Nop
      /\ code[23] = R("OR", V0, 0, S3) /\ code[24] = R("JR", 0, Ra, 0) /\ code[25] = Nop
      /\ Len(code) = 25 /\ DOMAIN code = 1..25 /\ \E S : code \in Seq(S)
<1>1. PICK x1, x2, x3, x4, x5, x6, x7, x8, x9, x10, x11,
           x12, x13, x15, x17, x18, x20, x21, x23, x24, nop :
        /\ x1 = I("LUI", T0, 0, FILE_TABLE_ITEM_CNT \div Half)
        /\ x2 = I("ORI", T0, T0, FILE_TABLE_ITEM_CNT % Half) /\ x3 = R("DIVU", 0, A0, T0)
        /\ x4 = R("MFHI", V0, 0, 0) /\ x5 = I("LUI", S1, 0, FILE_TABLE \div Half)
        /\ x6 = I("ORI", S1, S1, FILE_TABLE % Half) /\ x7 = I("LUI", S2, 0, FILE_TABLE_SIZE \div Half)
        /\ x8 = I("ORI", S2, S2, FILE_TABLE_SIZE % Half) /\ x9 = R("ADD", S2, S2, S1)
        /\ x10 = Shift("SLL", S3, V0, FILE_TABLE_ITEM_LOG_SIZE) /\ x11 = R("ADD", S3, S3, S1)
        /\ x12 = I("LW", T1, S3, 0) /\ x13 = I("BEQ", 0, T1, 8 + 1) /\ x15 = I("BEQ", A0, T1, 6 + 1)
        /\ x17 = I("ADDI", S3, S3, FILE_TABLE_ITEM_SIZE) /\ x18 = I("BNE", S2, S3, 1 + 1)
        /\ x20 = R("OR", S3, 0, S1) /\ x21 = [Nop EXCEPT !.op = "J", !.im = 11]
        /\ x23 = R("OR", V0, 0, S3) /\ x24 = R("JR", 0, Ra, 0) /\ nop = Nop
  OBVIOUS
<1>2. FS_GET_FILEITEM_BY_NAME =
        <<x1, x2>> \o <<x3, x4>> \o <<x5, x6>> \o <<x7, x8>> \o <<x9>> \o <<x10, x11>>
          \o (<<x12>> \o <<x13, nop>> \o <<x15, nop>> \o <<x17>> \o <<x18, nop>> \o <<x20>> \o <<x21, nop>>)
          \o <<x23>> \o <<x24, nop>>
  BY <1>1, Zenon DEF FS_GET_FILEITEM_BY_NAME, Probe, lli, Branch, J, Jr
<1>3. PICK p : p = <<x12>> \o <<x13, nop>> \o <<x15, nop>> \o <<x17>> \o <<x18, nop>> \o <<x20>> \o <<x21, nop>>
  OBVIOUS
<1>4. PICK S : S = {x1, x2, x3, x4, x5, x6, x7, x8, x9, x10, x11, x12, x13, x15, x17, x18, x20, x21, x23, x24, nop}
  OBVIOUS
<1>5. /\ p \in Seq(S) /\ Len(p) = 11 /\ p[1] = x12 /\ p[2] = x13 /\ p[3] = nop /\ p[4] = x15 /\ p[5] = nop
      /\ p[6] = x17 /\ p[7] = x18 /\ p[8] = nop /\ p[9] = x20 /\ p[10] = x21 /\ p[11] = nop
  BY <1>3, <1>4
<1>6. PICK a : a = <<x1, x2>> \o <<x3, x4>> \o <<x5, x6>> \o <<x7, x8>> \o <<x9>> \o <<x10, x11>>
  OBVIOUS
<1>7. /\ a \in Seq(S) /\ Len(a) = 11
      /\ a[1] = x1 /\ a[2] = x2 /\ a[3] = x3 /\ a[4] = x4 /\ a[5] = x5 /\ a[6] = x6
      /\ a[7] = x7 /\ a[8] = x8 /\ a[9] = x9 /\ a[10] = x10 /\ a[11] = x11
  BY <1>4, <1>6
<1>8. PICK c : c = (a \o p) \o <<x23>> \o <<x24, nop>>
  OBVIOUS
<1>9. /\ c \in Seq(S) /\ Len(c) = 25 /\ \A k \in 1..11 : c[k] = a[k] /\ c[11 + k] = p[k]
      /\ c[23] = x23 /\ c[24] = x24 /\ c[25] = nop
  <2>1. PICK b, d : b = a \o p /\ d = b \o <<x23>>
    OBVIOUS
  <2>2. PICK m \in Nat, l \in Nat, n \in Nat, o \in Nat, e \in Nat :
          m = 11 /\ l = m + m /\ n = 1 /\ o = l + n /\ e = 2
    OBVIOUS
  <2>3. /\ b \in Seq(S) /\ Len(b) = l
        /\ \A k \in 1..m : b[k] = a[k]
        /\ \A k \in 1..m : b[m + k] = p[k]
    <3>0. a \in Seq(S) /\ p \in Seq(S)
      BY <1>5, <1>7, <2>2
    <3>1. Len(a) = m /\ Len(p) = m
      BY <1>5, <1>7, <2>2
    <3>2. /\ a \o p \in Seq(S) /\ Len(a \o p) = Len(a) + Len(p)
          /\ \A k \in 1..Len(a) : (a \o p)[k] = a[k]
          /\ \A k \in 1..Len(p) : (a \o p)[Len(a) + k] = p[k]
      BY <3>0, Joined
    <3> QED
      BY <2>1, <2>2, <3>1, <3>2
  <2>4. PICK y, z : y = <<x23>> /\ z = <<x24, nop>>
    OBVIOUS
  <2>5. y \in Seq(S) /\ Len(y) = 1 /\ y[1] = x23 /\ z \in Seq(S) /\ Len(z) = 2 /\ z[1] = x24 /\ z[2] = nop
    BY <1>4, <2>4
  <2>6. /\ d \in Seq(S) /\ Len(d) = o
        /\ \A k \in 1..l : d[k] = b[k]
        /\ \A k \in 1..n : d[l + k] = y[k]
    <3>0. b \in Seq(S) /\ y \in Seq(S)
      BY <2>2, <2>3, <2>5
    <3>1. Len(b) = l /\ Len(y) = n
      BY <2>2, <2>3, <2>5
    <3>2. /\ b \o y \in Seq(S) /\ Len(b \o y) = Len(b) + Len(y)
          /\ \A k \in 1..Len(b) : (b \o y)[k] = b[k]
          /\ \A k \in 1..Len(y) : (b \o y)[Len(b) + k] = y[k]
      BY <3>0, Joined
    <3> QED
      BY <2>1, <2>2, <2>4, <3>1, <3>2
  <2>7. /\ c \in Seq(S) /\ Len(c) = o + e
        /\ \A k \in 1..o : c[k] = d[k]
        /\ \A k \in 1..e : c[o + k] = z[k]
    <3>0. d \in Seq(S) /\ z \in Seq(S)
      BY <2>2, <2>5, <2>6
    <3>1. Len(d) = o /\ Len(z) = e
      BY <2>2, <2>5, <2>6
    <3>2. /\ d \o z \in Seq(S) /\ Len(d \o z) = Len(d) + Len(z)
          /\ \A k \in 1..Len(d) : (d \o z)[k] = d[k]
          /\ \A k \in 1..Len(z) : (d \o z)[Len(d) + k] = z[k]
      BY <3>0, Joined
    <3>3. c = d \o z
      BY <1>8, <2>1, <2>4
    <3> QED
      BY <3>1, <3>2, <3>3
  <2>8. ASSUME NEW k \in 1..11 PROVE c[k] = a[k] /\ c[11 + k] = p[k]
    <3>1. k \in 1..m /\ k \in 1..l /\ k \in 1..o /\ m + k \in 1..l /\ m + k \in 1..o /\ m + k = 11 + k
      BY <2>2
    <3> QED
      BY <2>3, <2>6, <2>7, <3>1
  <2>9. /\ 1 \in 1..n /\ 1 \in 1..e /\ 2 \in 1..e /\ l + 1 = 23 /\ l + 1 \in 1..o
        /\ o + 1 = 24 /\ o + 2 = 25 /\ o + e = 25
    BY <2>2
  <2>10. c[23] = x23 /\ c[24] = x24 /\ c[25] = nop
    BY <2>5, <2>6, <2>7, <2>9
  <2> QED
    BY <2>7, <2>8, <2>9, <2>10
<1>10. c = FS_GET_FILEITEM_BY_NAME
  BY <1>2, <1>3, <1>6, <1>8, Zenon
<1>11. /\ c[1] = a[1] /\ c[2] = a[2] /\ c[3] = a[3] /\ c[4] = a[4] /\ c[5] = a[5] /\ c[6] = a[6]
       /\ c[7] = a[7] /\ c[8] = a[8] /\ c[9] = a[9] /\ c[10] = a[10] /\ c[11] = a[11]
       /\ c[12] = p[1] /\ c[13] = p[2] /\ c[14] = p[3] /\ c[15] = p[4] /\ c[16] = p[5] /\ c[17] = p[6]
       /\ c[18] = p[7] /\ c[19] = p[8] /\ c[20] = p[9] /\ c[21] = p[10] /\ c[22] = p[11]
  BY <1>9
<1>12. DOMAIN c = 1..25 /\ \E X : c \in Seq(X)
  BY <1>9
<1> QED
  BY <1>1, <1>5, <1>7, <1>9, <1>10, <1>11, <1>12, Zenon

(* The code of a program that adds files: a search, the calls for the      *)
(* files, and the last call.                                               *)
FilesParts(code, files, name) ==
  LET n == 6 * Len(files)
  IN  /\ DOMAIN code = 1..n + 28 /\ Len(code) = n + 28
      /\ \A i \in 1..25 : code[i] = FS_GET_FILEITEM_BY_NAME[i]
      /\ \A k \in 0..Len(files) - 1, l \in 1..6 : code[25 + 6 * k + l] = FS_ADDFILE(files[k + 1])[l]
      /\ code[n + 26] = I("ORI", A0, 0, name)
      /\ code[n + 27] = [Reserved EXCEPT !.op = "JAL"] /\ code[n + 28] = Nop

(* It has these parts.                                                     *)
LEMMA FilesCodeParts ==
  ASSUME NEW files, Len(files) \in Nat, NEW name
  PROVE  FilesParts(FilesCode(files, name), files, name)
<1>0. PICK N \in Nat : N = Len(files)
  OBVIOUS
<1>1. PICK sub, T : sub = FS_GET_FILEITEM_BY_NAME /\ sub \in Seq(T) /\ Len(sub) = 25
  BY SearchCode
<1>2. PICK x, y, z, lookup :
        /\ x = I("ORI", A0, 0, name) /\ y = [Reserved EXCEPT !.op = "JAL"] /\ z = Nop
        /\ lookup = <<x, y, z>> /\ lookup = Lookup(name)
  BY DEF Lookup
<1>3. PICK U : U = {I("ORI", A1, 0, files[k].sector) : k \in 1..N} \cup {I("ORI", A0, 0, files[k].name) : k \in 1..N}
                     \cup {y, z, I("SW", A0, V0, 0), I("SW", A1, V0, 4)}
  OBVIOUS
<1>4. PICK S : S = T \cup U \cup {x, y, z}
  OBVIOUS
<1>5. sub \in Seq(S)
  BY <1>1, <1>4, SeqMonotonic
<1>6. lookup \in Seq(S) /\ Len(lookup) = 3 /\ lookup[1] = x /\ lookup[2] = y /\ lookup[3] = z
  BY <1>2, <1>4
<1>7. ASSUME NEW k \in 1..N PROVE FS_ADDFILE(files[k]) \in Seq(S) /\ Len(FS_ADDFILE(files[k])) = 6
  <2>1. PICK a, b, c, d : /\ a = I("ORI", A1, 0, files[k].sector) /\ b = I("ORI", A0, 0, files[k].name)
                          /\ c = I("SW", A0, V0, 0) /\ d = I("SW", A1, V0, 4)
    OBVIOUS
  <2>2. FS_ADDFILE(files[k]) = <<a, b, y, z, c, d>>
    BY <1>2, <2>1, AddFileCode, Zenon
  <2>3. a \in U /\ b \in U /\ y \in U /\ z \in U /\ c \in U /\ d \in U
    BY <1>3, <2>1
  <2>4. a \in S /\ b \in S /\ y \in S /\ z \in S /\ c \in S /\ d \in S
    BY <1>4, <2>3
  <2> QED
    BY <2>2, <2>4
<1>8. PICK added : /\ added = FS_INIT(files) /\ added \in Seq(S) /\ Len(added) = 6 * N
                   /\ \A k \in 0..N - 1, l \in 1..6 : added[6 * k + l] = FS_ADDFILE(files[k + 1])[l]
  <2>1. SixIn(S, files)
    BY <1>0, <1>7 DEF SixIn
  <2>2. Len(files) \in Nat
    OBVIOUS
  <2>3. FS_INIT(files) \in Seq(S) /\ Len(FS_INIT(files)) = 6 * Len(files) /\ InOrder(FS_INIT(files), files)
    BY <2>1, <2>2, AddedCode
  <2> QED
    BY <1>0, <2>3 DEF InOrder
<1>9. PICK n \in Nat, m \in Nat, o \in Nat, e \in Nat : n = 6 * N /\ m = 25 /\ o = 3 /\ e = m + n
  OBVIOUS
<1>10. PICK b : /\ b = sub \o added /\ b \in Seq(S) /\ Len(b) = e
                /\ (\A i \in 1..m : b[i] = sub[i]) /\ \A i \in 1..n : b[m + i] = added[i]
  <2>1. /\ sub \o added \in Seq(S) /\ Len(sub \o added) = m + n
        /\ (\A i \in 1..m : (sub \o added)[i] = sub[i]) /\ \A i \in 1..n : (sub \o added)[m + i] = added[i]
    <3>0. sub \in Seq(S) /\ added \in Seq(S)
      BY <1>1, <1>5, <1>8, <1>9
    <3>1. Len(sub) = m /\ Len(added) = n
      BY <1>1, <1>5, <1>8, <1>9
    <3>2. /\ sub \o added \in Seq(S) /\ Len(sub \o added) = Len(sub) + Len(added)
          /\ \A i \in 1..Len(sub) : (sub \o added)[i] = sub[i]
          /\ \A i \in 1..Len(added) : (sub \o added)[Len(sub) + i] = added[i]
      BY <3>0, Joined
    <3> QED
      BY <3>1, <3>2
  <2> QED
    BY <1>9, <2>1
<1>11. PICK c : /\ c = b \o lookup /\ c \in Seq(S) /\ Len(c) = e + o
                /\ (\A i \in 1..e : c[i] = b[i]) /\ \A i \in 1..o : c[e + i] = lookup[i]
  <2>1. /\ b \o lookup \in Seq(S) /\ Len(b \o lookup) = e + o
        /\ (\A i \in 1..e : (b \o lookup)[i] = b[i]) /\ \A i \in 1..o : (b \o lookup)[e + i] = lookup[i]
    <3>0. b \in Seq(S) /\ lookup \in Seq(S)
      BY <1>6, <1>9, <1>10
    <3>1. Len(b) = e /\ Len(lookup) = o
      BY <1>6, <1>9, <1>10
    <3>2. /\ b \o lookup \in Seq(S) /\ Len(b \o lookup) = Len(b) + Len(lookup)
          /\ \A i \in 1..Len(b) : (b \o lookup)[i] = b[i]
          /\ \A i \in 1..Len(lookup) : (b \o lookup)[Len(b) + i] = lookup[i]
      BY <3>0, Joined
    <3> QED
      BY <3>1, <3>2
  <2> QED
    BY <2>1
<1>12. c = FilesCode(files, name)
  BY <1>1, <1>2, <1>8, <1>10, <1>11 DEF FilesCode
<1>13. DOMAIN c = 1..n + 28 /\ Len(c) = n + 28
  BY <1>9, <1>11
<1>14. \A i \in 1..25 : c[i] = sub[i]
  <2> SUFFICES ASSUME NEW i \in 1..25 PROVE c[i] = sub[i]
    OBVIOUS
  <2>1. i \in 1..m /\ i \in 1..e
    BY <1>9
  <2> QED
    BY <1>10, <1>11, <2>1
<1>15. \A k \in 0..N - 1, l \in 1..6 : c[25 + 6 * k + l] = FS_ADDFILE(files[k + 1])[l]
  <2> SUFFICES ASSUME NEW k \in 0..N - 1, NEW l \in 1..6
               PROVE  c[25 + 6 * k + l] = FS_ADDFILE(files[k + 1])[l]
    OBVIOUS
  <2>1. PICK i \in Nat : i = 6 * k + l /\ i \in 1..n /\ m + i \in 1..e /\ m + i = 25 + 6 * k + l
    BY <1>9
  <2>2. c[m + i] = b[m + i] /\ b[m + i] = added[i]
    BY <1>10, <1>11, <2>1
  <2> QED
    BY <1>8, <2>1, <2>2
<1>16. c[n + 26] = x /\ c[n + 27] = y /\ c[n + 28] = z
  <2>1. /\ 1 \in 1..o /\ 2 \in 1..o /\ 3 \in 1..o
        /\ e + 1 = n + 26 /\ e + 2 = n + 27 /\ e + 3 = n + 28
    BY <1>9
  <2> QED
    BY <1>6, <1>11, <2>1
<1> QED
  BY <1>0, <1>1, <1>2, <1>9, <1>11, <1>12, <1>13, <1>14, <1>15, <1>16 DEF FilesParts

(* The code of a program that adds files, at its addresses: a search, and  *)
(* the calls of it.                                                        *)
LEMMA SearchCodeAt ==
  ASSUME MInv, start.name = "files"
  PROVE  /\ CodeAt(0) = I("LUI", T0, 0, FILE_TABLE_ITEM_CNT \div Half)
         /\ CodeAt(4) = I("ORI", T0, T0, FILE_TABLE_ITEM_CNT % Half)
         /\ CodeAt(8) = R("DIVU", 0, A0, T0) /\ CodeAt(12) = R("MFHI", V0, 0, 0)
         /\ CodeAt(16) = I("LUI", S1, 0, FILE_TABLE \div Half)
         /\ CodeAt(20) = I("ORI", S1, S1, FILE_TABLE % Half)
         /\ CodeAt(24) = I("LUI", S2, 0, FILE_TABLE_SIZE \div Half)
         /\ CodeAt(28) = I("ORI", S2, S2, FILE_TABLE_SIZE % Half) /\ CodeAt(32) = R("ADD", S2, S2, S1)
         /\ CodeAt(36) = Shift("SLL", S3, V0, FILE_TABLE_ITEM_LOG_SIZE)
         /\ CodeAt(40) = R("ADD", S3, S3, S1) /\ CodeAt(44) = I("LW", T1, S3, 0)
         /\ CodeAt(48) = I("BEQ", 0, T1, 8 + 1) /\ CodeAt(52) = Nop
         /\ CodeAt(56) = I("BEQ", A0, T1, 6 + 1) /\ CodeAt(60) = Nop
         /\ CodeAt(64) = I("ADDI", S3, S3, FILE_TABLE_ITEM_SIZE)
         /\ CodeAt(68) = I("BNE", S2, S3, 1 + 1) /\ CodeAt(72) = Nop /\ CodeAt(76) = R("OR", S3, 0, S1)
         /\ CodeAt(80) = [Nop EXCEPT !.op = "J", !.im = 11] /\ CodeAt(84) = Nop
         /\ CodeAt(88) = R("OR", V0, 0, S3) /\ CodeAt(92) = R("JR", 0, Ra, 0) /\ CodeAt(96) = Nop
<1>0. PICK N \in Nat : N = Len(start.files)
  BY FilesStart
<1>1. PICK n \in Nat : n = 6 * N + 28 /\ N = Len(start.files)
  BY <1>0
<1>2. PICK code : /\ code = FilesCode(start.files, start.query) /\ DOMAIN code = 1..n
                  /\ \A i \in 1..25 : code[i] = FS_GET_FILEITEM_BY_NAME[i]
  <2>1. Len(start.files) \in Nat
    BY <1>1
  <2>2. FilesParts(FilesCode(start.files, start.query), start.files, start.query)
    BY <2>1, FilesCodeParts
  <2> QED
    BY <1>1, <2>2 DEF FilesParts
<1>3. start.code = Placed(0, code)
  BY <1>2, NamedFiles DEF MInv
<1>4. \A i \in 1..n : CodeAt(4 * i - 4) = code[i]
  <2>1. DOMAIN code = 1..n /\ start.code = Placed(0, code)
    BY <1>2, <1>3
  <2> QED
    BY <2>1, PlacedCode
<1>5. ASSUME NEW i \in 1..25 PROVE CodeAt(4 * i - 4) = FS_GET_FILEITEM_BY_NAME[i]
  <2>1. i \in 1..n
    BY <1>1
  <2> QED
    BY <1>2, <1>4, <2>1
<1>6. PICK s : s = FS_GET_FILEITEM_BY_NAME
  OBVIOUS
<1>7. /\ CodeAt(0) = s[1] /\ CodeAt(4) = s[2] /\ CodeAt(8) = s[3] /\ CodeAt(12) = s[4]
      /\ CodeAt(16) = s[5] /\ CodeAt(20) = s[6] /\ CodeAt(24) = s[7] /\ CodeAt(28) = s[8]
      /\ CodeAt(32) = s[9] /\ CodeAt(36) = s[10] /\ CodeAt(40) = s[11] /\ CodeAt(44) = s[12]
      /\ CodeAt(48) = s[13] /\ CodeAt(52) = s[14] /\ CodeAt(56) = s[15] /\ CodeAt(60) = s[16]
      /\ CodeAt(64) = s[17] /\ CodeAt(68) = s[18] /\ CodeAt(72) = s[19] /\ CodeAt(76) = s[20]
      /\ CodeAt(80) = s[21] /\ CodeAt(84) = s[22] /\ CodeAt(88) = s[23] /\ CodeAt(92) = s[24]
      /\ CodeAt(96) = s[25]
  BY <1>5, <1>6
<1> QED
  BY <1>6, <1>7, SearchCode, ZenonT(60)

(* The calls of a search, and what is behind them.                         *)
LEMMA CallsCodeAt ==
  ASSUME MInv, start.name = "files", NEW k \in 0..Len(start.files)
  PROVE  /\ Link(k) \in Word /\ Link(k) \in Nat /\ Link(k) >= 112
         /\ CodeAt(Link(k) - 12) = I("ORI", A0, 0, Wanted(k))
         /\ CodeAt(Link(k) - 8) = [Reserved EXCEPT !.op = "JAL"] /\ CodeAt(Link(k) - 4) = Nop
         /\ k = Len(start.files) => CodeAt(Link(k)) = Reserved
         /\ k < Len(start.files) =>
              /\ CodeAt(Link(k) - 16) = I("ORI", A1, 0, start.files[k + 1].sector)
              /\ CodeAt(Link(k)) = I("SW", A0, V0, 0) /\ CodeAt(Link(k) + 4) = I("SW", A1, V0, 4)
              /\ k + 1 \in 0..Len(start.files) /\ Link(k) + 12 \in Word
              /\ Link(k) + 8 = IF k + 1 < Len(start.files) THEN Link(k + 1) - 16 ELSE Link(k + 1) - 12
<1>0. PICK N \in Nat : N = Len(start.files)
  BY FilesStart
<1>1. PICK n \in Nat : n = 6 * N + 28 /\ N = Len(start.files)
  BY <1>0
<1>2. PICK code : /\ code = FilesCode(start.files, start.query) /\ DOMAIN code = 1..n /\ Len(code) = n
                  /\ \A j \in 0..N - 1, l \in 1..6 : code[25 + 6 * j + l] = FS_ADDFILE(start.files[j + 1])[l]
                  /\ code[6 * N + 26] = I("ORI", A0, 0, start.query)
                  /\ code[6 * N + 27] = [Reserved EXCEPT !.op = "JAL"] /\ code[6 * N + 28] = Nop
  <2>1. Len(start.files) \in Nat
    BY <1>1
  <2>2. FilesParts(FilesCode(start.files, start.query), start.files, start.query)
    BY <2>1, FilesCodeParts
  <2> QED
    BY <1>1, <2>2 DEF FilesParts
<1>3. start.code = Placed(0, code) /\ 4 * n \in Word
  BY <1>2, NamedFiles DEF MInv
<1>4. /\ \A i \in 1..n : CodeAt(4 * i - 4) = code[i]
      /\ \A p \in Nat : p >= 4 * n => CodeAt(p) = Reserved
  <2>1. DOMAIN code = 1..n /\ start.code = Placed(0, code)
    BY <1>2, <1>3
  <2> QED
    BY <2>1, PlacedCode
<1>5. \A p \in Nat : p <= 4 * n => p \in Word
  BY <1>1, <1>3, Widths DEF Word
<1>6. CASE k = N
  <2>1. Link(k) = 24 * N + 112 /\ Wanted(k) = start.query
    <3>1. ~(k < Len(start.files)) /\ k \in Nat
      BY <1>1, <1>6
    <3>2. Link(k) = 100 + 24 * k + 12 /\ Wanted(k) = start.query
      BY <3>1 DEF Link, Wanted
    <3> QED
      BY <1>6, <3>1, <3>2
  <2>2. /\ 6 * N + 26 \in 1..n /\ 6 * N + 27 \in 1..n /\ 6 * N + 28 \in 1..n
        /\ 4 * (6 * N + 26) - 4 = Link(k) - 12 /\ 4 * (6 * N + 27) - 4 = Link(k) - 8
        /\ 4 * (6 * N + 28) - 4 = Link(k) - 4 /\ Link(k) = 4 * n /\ Link(k) \in Nat /\ Link(k) >= 112
    BY <1>1, <2>1
  <2>3. Link(k) \in Word /\ CodeAt(Link(k)) = Reserved
    BY <1>4, <1>5, <2>2
  <2>4. /\ CodeAt(Link(k) - 12) = code[6 * N + 26] /\ CodeAt(Link(k) - 8) = code[6 * N + 27]
        /\ CodeAt(Link(k) - 4) = code[6 * N + 28]
    BY <1>4, <2>2
  <2> QED
    BY <1>1, <1>2, <1>6, <2>1, <2>2, <2>3, <2>4
<1>7. CASE k < N
  <2>1. Link(k) = 24 * k + 116 /\ Wanted(k) = start.files[k + 1].name /\ k \in 0..N - 1 /\ k + 1 \in 0..N
    BY <1>1, <1>7 DEF Link, Wanted
  <2>2. ASSUME NEW l \in 1..6
        PROVE  CodeAt(100 + 24 * k + 4 * (l - 1)) = FS_ADDFILE(start.files[k + 1])[l]
    <3>1. PICK i \in 1..n : i = 25 + 6 * k + l /\ 4 * i - 4 = 100 + 24 * k + 4 * (l - 1)
      <4>1. k \in Nat /\ k < N /\ l \in Nat /\ 1 <= l /\ l <= 6
        BY <2>1
      <4>2. PICK i \in Nat : i = 25 + 6 * k + l
        BY <4>1
      <4>3. 1 <= i /\ i <= n /\ 4 * i - 4 = 100 + 24 * k + 4 * (l - 1)
        BY <1>1, <4>1, <4>2
      <4> QED
        BY <4>2, <4>3
    <3>2. CodeAt(4 * i - 4) = code[i]
      BY <1>4
    <3>3. k \in 0..N - 1 /\ code[25 + 6 * k + l] = FS_ADDFILE(start.files[k + 1])[l]
      BY <1>2, <2>1
    <3> QED
      BY <3>1, <3>2, <3>3
  <2>3. PICK a, b, c, d, e, f :
          /\ a = I("ORI", A1, 0, start.files[k + 1].sector) /\ b = I("ORI", A0, 0, Wanted(k))
          /\ c = [Reserved EXCEPT !.op = "JAL"] /\ d = Nop
          /\ e = I("SW", A0, V0, 0) /\ f = I("SW", A1, V0, 4)
    OBVIOUS
  <2>4. PICK s : s = <<a, b, c, d, e, f>> /\ s = FS_ADDFILE(start.files[k + 1])
    BY <2>1, <2>3, AddFileCode, Zenon
  <2>5. /\ 100 + 24 * k + 4 * (1 - 1) = Link(k) - 16 /\ 100 + 24 * k + 4 * (2 - 1) = Link(k) - 12
        /\ 100 + 24 * k + 4 * (3 - 1) = Link(k) - 8 /\ 100 + 24 * k + 4 * (4 - 1) = Link(k) - 4
        /\ 100 + 24 * k + 4 * (5 - 1) = Link(k) /\ 100 + 24 * k + 4 * (6 - 1) = Link(k) + 4
    BY <2>1
  <2>6. /\ CodeAt(100 + 24 * k + 4 * (1 - 1)) = s[1] /\ CodeAt(100 + 24 * k + 4 * (2 - 1)) = s[2]
        /\ CodeAt(100 + 24 * k + 4 * (3 - 1)) = s[3] /\ CodeAt(100 + 24 * k + 4 * (4 - 1)) = s[4]
        /\ CodeAt(100 + 24 * k + 4 * (5 - 1)) = s[5] /\ CodeAt(100 + 24 * k + 4 * (6 - 1)) = s[6]
    BY <2>2, <2>4
  <2>7. /\ CodeAt(Link(k) - 16) = a /\ CodeAt(Link(k) - 12) = b /\ CodeAt(Link(k) - 8) = c
        /\ CodeAt(Link(k) - 4) = d /\ CodeAt(Link(k)) = e /\ CodeAt(Link(k) + 4) = f
    BY <2>4, <2>5, <2>6
  <2>8. Link(k) + 8 = IF k + 1 < N THEN Link(k + 1) - 16 ELSE Link(k + 1) - 12
    <3>1. Link(k + 1) = 24 * k + 24 + 100 + IF k + 1 < N THEN 16 ELSE 12
      BY <1>1, <2>1 DEF Link
    <3> QED
      BY <2>1, <3>1
  <2>9. /\ Link(k) \in Nat /\ Link(k) + 12 \in Nat /\ Link(k) <= 4 * n /\ Link(k) + 12 <= 4 * n
        /\ Link(k) >= 112 /\ k # N
    BY <1>1, <2>1
  <2>10. Link(k) \in Word /\ Link(k) + 12 \in Word
    BY <1>5, <2>9
  <2> QED
    BY <1>1, <1>7, <2>1, <2>3, <2>7, <2>8, <2>9, <2>10
<1> QED
  BY <1>1, <1>6, <1>7
-----------------------------------------------------------------------------
(* Steps of the search for a file.                                         *)

(* A step sets a register and goes on from wherever it is.                 *)
Moves(r, x, q) ==
  /\ Here(q, q + 4)' /\ cpr' = cpr /\ mem' = mem /\ disk' = disk
  /\ gpr'[r] = x /\ \A s \in Regs : s # r => gpr'[s] = gpr[s]

(* What sets a register moves.                                             *)
LEMMA SetsOn ==
  ASSUME Untranslated, Follows, NEW p, NEW q \in Nat, q + 4 \in Word, Here(p, q),
         NEW r \in Regs, NEW x, gpr' = [gpr EXCEPT ![r] = x]
  PROVE  Moves(r, x, q)
<1>1. ToWord(q + 4) = q + 4
  BY Widths DEF ToWord, Word
<1>2. gpr'[r] = x /\ \A s \in Regs : s # r => gpr'[s] = gpr[s]
  BY DEF Untranslated, MInv, MachineTypeOK
<1> QED
  BY <1>1, <1>2 DEF Here, Follows, Moves

(* Nothing is done.                                                        *)
LEMMA WaitsAt ==
  ASSUME Untranslated, Next, gpr[0] = 0, NEW p, NEW q \in Nat, q + 4 \in Word, Here(p, q),
         Current = Nop
  PROVE  Here(q, q + 4)' /\ cpr' = cpr /\ mem' = mem /\ disk' = disk /\ gpr' = gpr
<1>1. Follows /\ gpr' = gpr
  BY SettingNone
<1>2. ToWord(q + 4) = q + 4
  BY Widths DEF ToWord, Word
<1> QED
  BY <1>1, <1>2 DEF Here, Follows

(* A number without bits in common with another one is added by or.        *)
LEMMA OrOfZero ==
  ASSUME NEW w \in Word
  PROVE  Or(0, w) = w
<1> DEFINE b == [k \in Bits |-> IF Bit(0, k) + Bit(w, k) > 0 THEN 1 ELSE 0]
<1>1. 0 \in Word /\ w \in Int
  BY ProgramWidths DEF Word
<1>2. b \in [Bits -> Int]
  OBVIOUS
<1>3. \A k \in Bits : b[k] = Bit(0, k) + Bit(w, k)
  BY <1>1, BitOf, BitsOfZero
<1>4. FromBits(b) = 0 + w
  BY <1>1, <1>2, <1>3, SumOfWords
<1>5. Or(0, w) = FromBits(b)
  BY DEF Or
<1> QED
  BY <1>1, <1>4, <1>5

(* A register is copied into another one.                                  *)
LEMMA CopiesRegister ==
  ASSUME Untranslated, Next, gpr[0] = 0, NEW p, NEW q \in Nat, q + 4 \in Word, Here(p, q),
         NEW d \in Regs, d # 0, NEW r \in Regs, Current = R("OR", d, 0, r)
  PROVE  Moves(d, gpr[r], q)
<1>1. Current.op = "OR" /\ Current.rd = d /\ Current.rs = 0 /\ Current.rt = r
  BY DEF R
<1>2. Sets(d, Or(gpr[0], gpr[r]))
  BY <1>1, ExecutesCurrent DEF Executes
<1>3. PICK w \in Word : w = gpr[r]
  BY DEF Untranslated, MInv, MachineTypeOK
<1>4. Or(gpr[0], gpr[r]) = w /\ ToWord(w) = w
  BY <1>3, OrOfZero, Widths DEF ToWord, Word
<1>5. Follows /\ gpr' = [gpr EXCEPT ![d] = w]
  BY <1>2, <1>4, SettingOne
<1> QED
  BY <1>3, <1>5, SetsOn

(* A number of half a word is set.                                         *)
LEMMA SetsNumber ==
  ASSUME Untranslated, Next, gpr[0] = 0, NEW p, NEW q \in Nat, q + 4 \in Word, Here(p, q),
         NEW d \in Regs, d # 0, NEW w \in 0..Half - 1, Current = I("ORI", d, 0, w)
  PROVE  Moves(d, w, q)
<1>1. Half \in Nat /\ w \in Word /\ ToWord(w) = w /\ w % Half = w
  <2>1. Half \in Nat /\ Half >= 64 /\ WordSpace = Half * Half /\ WordSpace \in Nat
    BY ProgramWidths DEF WordSpace
  <2>2. \A h, x \in Nat : h >= 64 /\ x < h => x < h * h
    <3> SUFFICES ASSUME NEW h \in Nat, NEW x \in Nat, h >= 64, x < h PROVE x < h * h
      OBVIOUS
    <3>1. PICK e \in Nat : h = 1 + e
      <4>1. h - 1 \in Nat
        OBVIOUS
      <4> QED
        BY <4>1
    <3>2. h * h = h + h * e /\ h * e \in Nat
      BY <3>1
    <3> QED
      BY <3>2
  <2>3. w \in Nat /\ w < Half /\ w < WordSpace
    BY <2>1, <2>2
  <2>4. \A h, x \in Nat : x < h => x % h = x
    OBVIOUS
  <2> QED
    BY <2>1, <2>3, <2>4 DEF Word, ToWord
<1>2. Current.op = "ORI" /\ Current.rt = d /\ Current.rs = 0 /\ Current.im = w
  BY <1>1 DEF I
<1>3. Sets(d, Or(gpr[0], w))
  BY <1>2, ExecutesCurrent DEF Executes
<1>4. Or(gpr[0], w) = w
  BY <1>1, OrOfZero
<1>5. Follows /\ gpr' = [gpr EXCEPT ![d] = w]
  BY <1>1, <1>3, <1>4, SettingOne
<1> QED
  BY <1>5, SetsOn

(* The upper half of a word.                                               *)
UpperHalf(w) == (w \div Half) * Half

(* A word is set by its halves, one after the other.                       *)
LEMMA SetsUpper ==
  ASSUME Untranslated, Next, gpr[0] = 0, NEW p, NEW q \in Nat, q + 4 \in Word, Here(p, q),
         NEW d \in Regs, d # 0, NEW w \in Word, Current = I("LUI", d, 0, w \div Half)
  PROVE  Moves(d, UpperHalf(w), q)
<1>1. PICK h \in 0..Half - 1, l \in 0..Half - 1 :
        /\ h = w \div Half /\ l = w % Half /\ w = h * Half + l
        /\ h % Half = h /\ l % Half = l
  BY HalvesSplit
<1>2. h * Half \in Word
  BY HalvesOfWord
<1>3. ToWord(h * Half) = h * Half
  BY <1>2, Widths DEF ToWord, Word
<1>4. Current.op = "LUI" /\ Current.rt = d /\ Current.im = h
  BY <1>1 DEF I
<1>5. Sets(d, h * Half)
  BY <1>4, ExecutesCurrent DEF Executes
<1>6. Follows /\ gpr' = [gpr EXCEPT ![d] = h * Half]
  BY <1>3, <1>5, SettingOne
<1>7. h * Half = UpperHalf(w)
  BY <1>1 DEF UpperHalf
<1> QED
  BY <1>6, <1>7, SetsOn

(* The lower half is added to the upper one.                               *)
LEMMA SetsLower ==
  ASSUME Untranslated, Next, gpr[0] = 0, NEW p, NEW q \in Nat, q + 4 \in Word, Here(p, q),
         NEW d \in Regs, d # 0, NEW w \in Word, gpr[d] = UpperHalf(w),
         Current = I("ORI", d, d, w % Half)
  PROVE  Moves(d, w, q)
<1>1. PICK h \in 0..Half - 1, l \in 0..Half - 1 :
        /\ h = w \div Half /\ l = w % Half /\ w = h * Half + l
        /\ h % Half = h /\ l % Half = l
  BY HalvesSplit
<1>2. Or(h * Half, l) = w
  BY <1>1, HalvesOfWord
<1>3. ToWord(w) = w
  BY Widths DEF ToWord, Word
<1>4. Current.op = "ORI" /\ Current.rt = d /\ Current.rs = d /\ Current.im = l /\ gpr[d] = h * Half
  BY <1>1 DEF I, UpperHalf
<1>5. Sets(d, Or(gpr[d], l))
  BY <1>4, ExecutesCurrent DEF Executes
<1>6. Follows /\ gpr' = [gpr EXCEPT ![d] = w]
  BY <1>2, <1>3, <1>4, <1>5, SettingOne
<1> QED
  BY <1>6, SetsOn

(* An addition whose result is a word.                                     *)
LEMMA AddsRegisters ==
  ASSUME Untranslated, Next, gpr[0] = 0, NEW p, NEW q \in Nat, q + 4 \in Word, Here(p, q),
         NEW d \in Regs, d # 0, NEW a \in Regs, NEW b \in Regs, NEW w \in Word,
         gpr[a] + gpr[b] = w, Current = R("ADD", d, a, b)
  PROVE  Moves(d, w, q)
<1>1. Follows /\ gpr' = [gpr EXCEPT ![d] = ToWord(gpr[a] + gpr[b])]
  BY Registers
<1>2. ToWord(w) = w
  BY Widths DEF ToWord, Word
<1>3. Follows /\ gpr' = [gpr EXCEPT ![d] = w]
  BY <1>1, <1>2
<1> QED
  BY <1>3, SetsOn

(* A small number is added to a register.                                  *)
LEMMA AddsNumber ==
  ASSUME Untranslated, Next, gpr[0] = 0, NEW p, NEW q \in Nat, q + 4 \in Word, Here(p, q),
         NEW d \in Regs, d # 0, NEW n \in 0..31, NEW w \in Word,
         gpr[d] + n = w, Current = I("ADDI", d, d, n)
  PROVE  Moves(d, w, q)
<1>1. Current.op = "ADDI" /\ Current.rt = d /\ Current.rs = d /\ SignedImm(Current.im) = n
  BY SmallImmediates DEF I
<1>2. Sets(d, gpr[d] + n)
  BY <1>1, ExecutesCurrent DEF Executes
<1>3. ToWord(w) = w
  BY Widths DEF ToWord, Word
<1>4. Follows /\ gpr' = [gpr EXCEPT ![d] = w]
  BY <1>2, <1>3, SettingOne
<1> QED
  BY <1>4, SetsOn

(* The number of an item times eight.                                      *)
LEMMA ShiftsItem ==
  ASSUME Untranslated, Next, gpr[0] = 0, NEW p, NEW q \in Nat, q + 4 \in Word, Here(p, q),
         NEW d \in Regs, d # 0, NEW r \in Regs, NEW w \in Word,
         gpr[r] * 8 = w, Current = Shift("SLL", d, r, FILE_TABLE_ITEM_LOG_SIZE)
  PROVE  Moves(d, w, q)
<1>1. /\ Current.op = "SLL" /\ Current.rd = d /\ Current.rt = r
      /\ Current.sa = FILE_TABLE_ITEM_LOG_SIZE
  BY DEF Shift
<1>2. Sets(d, gpr[r] * 8)
  BY <1>1, ExecutesCurrent, ItemSizes DEF Executes
<1>3. ToWord(w) = w
  BY Widths DEF ToWord, Word
<1>4. Follows /\ gpr' = [gpr EXCEPT ![d] = w]
  BY <1>2, <1>3, SettingOne
<1> QED
  BY <1>4, SetsOn

(* The remainder of a division, and where it is read.                      *)
LEMMA Divides ==
  ASSUME Untranslated, Next, NEW p, NEW q \in Nat, q + 4 \in Word, Here(p, q),
         NEW a \in Regs, NEW b \in Regs, gpr[b] # 0, Current = R("DIVU", 0, a, b)
  PROVE  Here(q, q + 4)' /\ cpr' = cpr /\ mem' = mem /\ gpr' = gpr /\ hi' = gpr[a] % gpr[b]
<1>1. PICK x \in Word, y \in Word : x = gpr[a] /\ y = gpr[b] /\ y # 0
  BY DEF Untranslated, MInv, MachineTypeOK
<1>2. Current.op = "DIVU" /\ Current.rs = a /\ Current.rt = b
  BY DEF R
<1>3. Divide(x, y)
  BY <1>1, <1>2, ExecutesCurrent DEF Executes
<1>4. SetsHiLo(ToWord(Rem(x, y)), ToWord(Quot(x, y)))
  BY <1>1, <1>3 DEF Divide
<1>5. PICK m \in Word, n \in Word : m = ToWord(Quot(x, y)) /\ n = ToWord(Rem(x, y))
  <2>1. x \in Int /\ y \in Int
    BY Widths DEF Word
  <2> QED
    BY <1>1, <2>1, QuotientNumbers, WordOf
<1>6. x = m * y + n /\ n < y
  BY <1>1, <1>5, UnsignedQuotient
<1>7. m \in Int /\ n \in Nat /\ y \in Nat
  BY Widths DEF Word
<1>8. n = x % y
  BY <1>6, <1>7, DivisionUnique
<1>9. ToWord(q + 4) = q + 4
  BY Widths DEF ToWord, Word
<1>10. /\ hi' = n /\ gpr' = gpr /\ cpr' = cpr /\ stop' = stop /\ mem' = mem
       /\ adv1' = adv2 /\ adv2' = ToWord(adv2 + 4)
  BY <1>4, <1>5, Fetches DEF SetsHiLo, Advance, Recording, storage
<1> QED
  BY <1>1, <1>8, <1>9, <1>10 DEF Here

(* The remainder is read.                                                  *)
LEMMA ReadsHi ==
  ASSUME Untranslated, Next, gpr[0] = 0, NEW p, NEW q \in Nat, q + 4 \in Word, Here(p, q),
         NEW d \in Regs, d # 0, NEW w \in Word, hi = w, Current = R("MFHI", d, 0, 0)
  PROVE  Moves(d, w, q)
<1>1. Current.op = "MFHI" /\ Current.rd = d
  BY DEF R
<1>2. Sets(d, w)
  BY <1>1, ExecutesCurrent DEF Executes
<1>3. ToWord(w) = w
  BY Widths DEF ToWord, Word
<1>4. Follows /\ gpr' = [gpr EXCEPT ![d] = w]
  BY <1>2, <1>3, SettingOne
<1> QED
  BY <1>4, SetsOn

(* The name of an item is read.                                            *)
LEMMA ReadsName ==
  ASSUME Untranslated, Next, gpr[0] = 0, NEW p, NEW q \in Nat, q + 4 \in Word, Here(p, q),
         NEW d \in Regs, d # 0, NEW b \in Regs, start.name = "files", NEW i \in Slots,
         gpr[b] = FILE_TABLE + 8 * i, Current = I("LW", d, b, 0)
  PROVE  Moves(d, Name(mem, i), q)
<1>1. PICK a \in Nat, s \in Nat : a = FILE_TABLE + 8 * i /\ s = MemSize /\ a + 8 <= s
  BY ItemsPlaced DEF Untranslated
<1>2. PICK n \in 0..31 : n = 0 /\ a = gpr[b] + n /\ a + 4 <= MemSize
  BY <1>1
<1>3. Follows /\ gpr' = [gpr EXCEPT ![d] = WordAt(mem, a)]
  BY <1>2, LoadsWord
<1>4. WordAt(mem, a) = Name(mem, i)
  BY <1>1 DEF Name
<1> QED
  BY <1>3, <1>4, SetsOn

(* A call of the search.                                                   *)
LEMMA CallsSearch ==
  ASSUME Untranslated, Next, gpr[0] = 0, NEW p \in Nat, p + 8 \in Word, NEW q, Here(p, q),
         Current = [Reserved EXCEPT !.op = "JAL"]
  PROVE  /\ Here(q, 0)' /\ cpr' = cpr /\ mem' = mem
         /\ gpr'[Ra] = p + 8 /\ \A s \in Regs : s # Ra => gpr'[s] = gpr[s]
<1>1. Current.op = "JAL" /\ Current.im = 0
  BY DEF Reserved
<1>2. stop = "no" /\ BranchTo(ToWord(4 * 0)) /\ Linked
  BY <1>1, ExecutesCurrent DEF Executes
<1>3. 4 * 0 = 0 /\ ToWord(0) = 0
  BY ProgramWidths
<1>4. ToWord(p + 8) = p + 8
  BY Widths DEF ToWord, Word
<1>5. /\ adv1' = q /\ adv2' = 0 /\ cpr' = cpr /\ stop' = stop /\ mem' = mem
      /\ gpr' = [gpr EXCEPT ![Ra] = p + 8, ![0] = 0]
  <2>1. adv1 = p /\ adv2 = q
    BY DEF Here
  <2>2. /\ gpr' = [gpr EXCEPT ![Ra] = ToWord(adv1 + 8), ![0] = 0]
        /\ cpr' \in Recorded(cpr, adv1) /\ stop' = stop /\ mem' = mem
    BY <1>2 DEF Linked, Write, Recording, storage
  <2>3. Recorded(cpr, adv1) = {cpr}
    BY Fetches
  <2>4. adv1' = adv2 /\ adv2' = ToWord(4 * 0)
    BY <1>2 DEF BranchTo
  <2> QED
    BY <1>3, <1>4, <2>1, <2>2, <2>3, <2>4
<1>6. gpr \in [Regs -> Word] /\ 0 \in Regs /\ Ra \in Regs /\ Ra # 0
  BY RegisterNumbers DEF Untranslated, MInv, MachineTypeOK
<1> QED
  BY <1>2, <1>5, <1>6 DEF Here

(* The two words of an item are stored.                                    *)
LEMMA StoresAt ==
  ASSUME Untranslated, Next, NEW p, NEW q \in Nat, Here(p, q),
         NEW t \in Regs, NEW b \in Regs, NEW n \in {0, 4}, start.name = "files", NEW i \in Slots,
         gpr[b] = FILE_TABLE + 8 * i, Current = I("SW", t, b, n)
  PROVE  /\ Here(q, ToWord(q + 4))' /\ cpr' = cpr /\ gpr' = gpr
         /\ mem' = Put(mem, FILE_TABLE + 8 * i + n, 4, gpr[t])
<1>1. PICK a \in Nat, s \in Nat :
        /\ a = FILE_TABLE + 8 * i /\ s = MemSize /\ a + 8 <= s
        /\ a \notin {HddPort, DmaPort} /\ a + 4 \notin {HddPort, DmaPort}
  BY ItemsPlaced DEF Untranslated
<1>2. PICK x \in Nat, m \in 0..31, len \in {1, 4} :
        /\ m = n /\ len = 4 /\ x = a + n /\ x + len <= s /\ x = gpr[b] + m
        /\ x # HddPort /\ x # DmaPort
  <2>1. n = 0 \/ n = 4
    OBVIOUS
  <2>2. a + 0 = a
    OBVIOUS
  <2> QED
    BY <1>1, <2>1, <2>2
<1>3. Current = I(IF len = 4 THEN "SW" ELSE "SB", t, b, m)
  BY <1>2
<1>4. x + len <= MemSize
  BY <1>1, <1>2
<1>5. Advances /\ stop = "no" /\ (\/ Store(x, len, gpr[t]) /\ stop' = "no"
                                  \/ StoreUndefined(x, len, gpr[t]) /\ stop' = "crash")
  BY <1>2, <1>3, <1>4, Storing
<1>6. mem' = Put(mem, x, len, gpr[t]) /\ stop' = "no"
  BY <1>2, <1>5, PlainStores
<1> QED
  BY <1>1, <1>2, <1>5, <1>6 DEF Advances, Here

-----------------------------------------------------------------------------
(* The search, step by step.                                               *)

(* The registers during a search.                                          *)
Asked(k) ==
  /\ k \in 0..Len(start.files) /\ Holds(mem, k) /\ gpr[0] = 0
  /\ gpr[A0] = Wanted(k) /\ gpr[Ra] = Link(k)
  /\ k < Len(start.files) => gpr[A1] = start.files[k + 1].sector

(* The call of a search.                                                   *)
Starting(k) ==
  LET n == Len(start.files)
      sector == k < n => gpr[A1] = start.files[k + 1].sector
  IN  /\ k \in 0..n /\ Holds(mem, k) /\ gpr[0] = 0
      /\ \/ k < n /\ Here(Link(k) - 16, Link(k) - 12)
         \/ sector /\ Here(Link(k) - 12, Link(k) - 8)
         \/ sector /\ gpr[A0] = Wanted(k) /\ Here(Link(k) - 8, Link(k) - 4)

(* The beginning of a search.                                              *)
Hashing(k) ==
  LET h == Bucket(Wanted(k))
      first == gpr[S1] = FILE_TABLE
      turn == gpr[S2] = Turn
  IN  /\ Asked(k)
      /\ \/ Here(Link(k) - 4, 0) \/ Here(0, 4)
         \/ Here(4, 8) /\ gpr[T0] = UpperHalf(FILE_TABLE_ITEM_CNT)
         \/ Here(8, 12) /\ gpr[T0] = FILE_TABLE_ITEM_CNT
         \/ Here(12, 16) /\ hi = h
         \/ gpr[V0] = h /\
              \/ Here(16, 20)
              \/ Here(20, 24) /\ gpr[S1] = UpperHalf(FILE_TABLE)
              \/ Here(24, 28) /\ first
              \/ Here(28, 32) /\ first /\ gpr[S2] = UpperHalf(FILE_TABLE_SIZE)
              \/ Here(32, 36) /\ first /\ gpr[S2] = FILE_TABLE_SIZE
              \/ Here(36, 40) /\ first /\ turn
              \/ Here(40, 44) /\ first /\ turn /\ gpr[S3] = 8 * h

(* A search at item i.                                                     *)
Searching(k, i) ==
  LET name == Name(mem, i)
      w == Wanted(k)
      at == gpr[S3] = FILE_TABLE + 8 * i
      over == name # 0 /\ name # w
  IN  /\ Asked(k) /\ i \in Slots /\ Probing(mem, w, i)
      /\ gpr[S1] = FILE_TABLE /\ gpr[S2] = Turn
      /\ \/ at /\ \/ Here(44, 48) \/ Here(80, 84) \/ Here(84, 44)
                  \/ Here(48, 52) /\ gpr[T1] = name
                  \/ Here(52, IF name = 0 THEN 88 ELSE 56) /\ gpr[T1] = name
                  \/ name # 0 /\ Here(56, 60) /\ gpr[T1] = name
                  \/ name # 0 /\ Here(60, IF name = w THEN 88 ELSE 64)
                  \/ over /\ Here(64, 68)
                  \/ ~over /\ Here(88, 92)
         \/ over /\ gpr[S3] = FILE_TABLE + 8 * i + 16 /\
              \/ Here(68, 72) \/ Here(72, IF gpr[S3] # Turn THEN 80 ELSE 76)
              \/ gpr[S3] = Turn /\ Here(76, 80)

(* The search has found item i, and what is stored there.                  *)
Returned(k, i) ==
  /\ i \in Slots /\ gpr[V0] = FILE_TABLE + 8 * i
  /\ \/ Asked(k) /\ Probing(mem, Wanted(k), i) /\ Name(mem, i) \in {0, Wanted(k)} /\
          (Here(92, 96) \/ Here(96, Link(k)) \/ Here(Link(k), ToWord(Link(k) + 4)))
     \/ /\ k < Len(start.files) /\ gpr[0] = 0
        /\ gpr[A1] = start.files[k + 1].sector /\ Here(Link(k) + 4, Link(k) + 8)
        /\ \E m \in Bytes(MemSize) :
             /\ Holds(m, k) /\ Probing(m, Wanted(k), i) /\ Name(m, i) \in {0, Wanted(k)}
             /\ mem = Put(m, FILE_TABLE + 8 * i, 4, Wanted(k))

Answered ==
  \E i \in Slots :
    /\ Holds(mem, Len(start.files))
    /\ gpr[V0] = FILE_TABLE + 8 * i
    /\ Probing(mem, start.query, i) /\ Name(mem, i) \in {0, start.query}

FilesInv ==
  start.name = "files" =>
    /\ cpr[GDTBASE] = 0
    /\ \/ \E k \in 0..Len(start.files) : Starting(k) \/ Hashing(k)
       \/ \E k \in 0..Len(start.files), i \in Slots : Searching(k, i) \/ Returned(k, i)
       \/ stop = "exception" /\ Answered

(* The registers of the search.                                            *)
LEMMA FileRegisters ==
  /\ 0 \in Regs /\ Ra \in Regs /\ A0 \in Regs /\ A1 \in Regs /\ V0 \in Regs /\ T0 \in Regs
  /\ T1 \in Regs /\ S1 \in Regs /\ S2 \in Regs /\ S3 \in Regs
  /\ Ra \notin {0, A0, A1, V0, T0, T1, S1, S2, S3}
  /\ 0 \notin {A0, A1, V0, T0, T1, S1, S2, S3} /\ A0 \notin {A1, V0, T0, T1, S1, S2, S3}
  /\ A1 \notin {V0, T0, T1, S1, S2, S3} /\ V0 \notin {T0, T1, S1, S2, S3}
  /\ T0 \notin {T1, S1, S2, S3} /\ T1 \notin {S1, S2, S3} /\ S1 \notin {S2, S3} /\ S2 # S3
BY RegisterNumbers, FilesAssumption DEF S1, S2, S3

(* What is searched for, and what the table holds, depends on the program  *)
(* and the memory alone.                                                   *)
LEMMA QuestionStays ==
  ASSUME start' = start
  PROVE  /\ Slots' = Slots /\ \A k : Wanted(k)' = Wanted(k) /\ Link(k)' = Link(k)
         /\ \A m, w, i : Probing(m, w, i)' = Probing(m, w, i)
         /\ \A m, k : Holds(m, k)' = Holds(m, k)
<1>1. Slots' = Slots /\ \A k : Wanted(k)' = Wanted(k) /\ Link(k)' = Link(k)
  BY DEF Slots, Wanted, Link
<1>2. \A m, w, i : Probing(m, w, i)' = Probing(m, w, i)
  BY <1>1 DEF Probing, Along, Passed
<1>3. \A m, k : /\ NamesAdded(m, k)' = NamesAdded(m, k) /\ OddFree(m, k)' = OddFree(m, k)
                /\ SparseFree(m, k)' = SparseFree(m, k)
  BY <1>1 DEF NamesAdded, OddFree, SparseFree
<1>4. \A m, k : FilesThere(m, k)' = FilesThere(m, k)
  BY <1>1, <1>2 DEF FilesThere, Latest
<1>5. \A m : InBuckets(m)' = InBuckets(m) /\ InTable(m)' = InTable(m)
  BY <1>1 DEF InBuckets, InTable
<1> QED
  BY <1>1, <1>2, <1>3, <1>4, <1>5 DEF Holds

(* A step of the search leaves its question alone.                         *)
LEMMA AskedStays ==
  ASSUME start' = start, NEW k, Asked(k), mem' = mem, \A s \in {0, A0, A1, Ra} : gpr'[s] = gpr[s]
  PROVE  Asked(k)'
<1>1. Holds(mem, k)'
  BY QuestionStays DEF Asked
<1>2. Wanted(k)' = Wanted(k) /\ Link(k)' = Link(k)
  BY QuestionStays
<1> QED
  BY <1>1, <1>2 DEF Asked

(* The search begins: it finds the item of the name, and the end at which  *)
(* it turns.                                                               *)
LEMMA HashingSteps ==
  ASSUME Untranslated, Next, start' = start, start.name = "files", NEW k \in 0..Len(start.files),
         Hashing(k)
  PROVE  cpr' = cpr /\ (Hashing(k)' \/ \E i \in Slots : Searching(k, i)')
<1>1. PICK h \in Nat :
        /\ h = Bucket(Wanted(k)) /\ h = Bucket(Wanted(k))' /\ h \in Slots /\ h \in Word
        /\ 8 * h \in Word /\ FILE_TABLE + 8 * h \in Word /\ Probing(mem, Wanted(k), h)
  <2>1. PICK h \in Nat : h = Bucket(Wanted(k)) /\ h \in Slots /\ Along(h, h) /\ \A x \in Slots : ~Passed(h, x, h)
    <3>1. Wanted(k) \in Nat
      BY NameWanted DEF Untranslated
    <3>2. Bucket(Wanted(k)) \in Slots
      BY <3>1, BucketPlaced DEF Untranslated
    <3>3. \A x \in Slots : x \in Nat
      BY FilesStart DEF Untranslated, Slots
    <3> QED
      BY <3>1, <3>2, <3>3, BucketPlaced DEF Untranslated
  <2>2. FILE_TABLE + 8 * h \in Nat /\ FILE_TABLE + 8 * h + 8 <= MemSize /\ FILE_TABLE \in Nat
    BY <2>1, ItemsPlaced, FilesAssumption DEF Untranslated
  <2>3. MemSize \in Nat /\ WordSpace \in Nat /\ MemSize <= WordSpace
    BY Widths, MemoryAssumption DEF Word
  <2>4. h \in Word /\ 8 * h \in Word /\ FILE_TABLE + 8 * h \in Word
    BY <2>1, <2>2, <2>3, SMTT(30) DEF Word
  <2>5. Wanted(k)' = Wanted(k)
    BY QuestionStays
  <2> QED
    BY <2>1, <2>4, <2>5 DEF Probing, Bucket
<1>2. /\ FILE_TABLE_ITEM_CNT \in Word /\ FILE_TABLE \in Word /\ FILE_TABLE_SIZE \in Word
      /\ Turn \in Word /\ FILE_TABLE_SIZE + FILE_TABLE = Turn /\ FILE_TABLE_ITEM_CNT # 0
  <2>1. FILE_TABLE \in Nat /\ FILE_TABLE_ITEM_CNT \in Nat /\ FILE_TABLE_ITEM_CNT # 0
    BY FilesAssumption
  <2> QED
    BY <2>1, ItemSizes, Widths DEF Word
<1>3. Asked(k) /\ gpr[0] = 0
  BY DEF Hashing, Asked
<1>4. ASSUME NEW r \in {V0, T0, T1, S1, S2, S3}, NEW x, NEW q, Moves(r, x, q)
      PROVE  Asked(k)' /\ cpr' = cpr
  <2>1. \A s \in {0, A0, A1, Ra} : s \in Regs /\ s # r
    BY FileRegisters
  <2>2. mem' = mem /\ cpr' = cpr /\ \A s \in {0, A0, A1, Ra} : gpr'[s] = gpr[s]
    BY <1>4, <2>1 DEF Moves
  <2> QED
    BY <1>3, <2>2, AskedStays
<1>5. \A q \in 0..128 : q \in Nat /\ q + 4 \in Word
  BY ProgramWidths
<1>6. CASE Here(Link(k) - 4, 0)
  <2>1. PICK p, q \in Nat : p = Link(k) - 4 /\ q = 0 /\ Here(p, q) /\ q + 4 \in Word
    <3>1. Link(k) \in Nat /\ Link(k) >= 112
      BY CallsCodeAt DEF Untranslated
    <3>2. 0 \in 0..128 /\ Link(k) - 4 \in Nat
      BY <3>1
    <3> QED
      BY <1>5, <1>6, <3>2
  <2>2. Current = Nop
    BY <2>1, CallsCodeAt DEF Current, Here, Untranslated
  <2>3. Here(q, q + 4)' /\ cpr' = cpr /\ mem' = mem /\ gpr' = gpr
    BY <1>3, <2>1, <2>2, WaitsAt
  <2>4. q + 4 = 4
    BY <2>1
  <2>5. Here(0, 4)'
    BY <2>1, <2>3, <2>4
  <2>6. Asked(k)'
    BY <1>3, <2>3, AskedStays
  <2> QED
    BY <2>3, <2>5, <2>6 DEF Hashing
<1>7. CASE Here(0, 4)
  <2>1. PICK p, q \in Nat : p = 0 /\ q = 4 /\ Here(p, q) /\ q + 4 \in Word
    BY <1>5, <1>7
  <2>2. Current = I("LUI", T0, 0, FILE_TABLE_ITEM_CNT \div Half)
    BY <2>1, SearchCodeAt DEF Current, Here, Untranslated
  <2>4. Moves(T0, UpperHalf(FILE_TABLE_ITEM_CNT), q)
    BY <1>2, <1>3, <1>7, <2>1, <2>2, SetsUpper, FileRegisters
  <2>5. q + 4 = 8
    BY <2>1
  <2>6. /\ Here(4, 8)' /\ gpr'[T0] = UpperHalf(FILE_TABLE_ITEM_CNT)
        /\ \A s \in Regs : s # T0 => gpr'[s] = gpr[s]
    BY <2>1, <2>4, <2>5 DEF Moves
  <2>7. Asked(k)' /\ cpr' = cpr
    BY <1>4, <2>4
  <2> QED
    BY <1>1, <1>7, <2>6, <2>7, FileRegisters DEF Hashing
<1>8. CASE Here(4, 8) /\ gpr[T0] = UpperHalf(FILE_TABLE_ITEM_CNT)
  <2>1. PICK p, q \in Nat : p = 4 /\ q = 8 /\ Here(p, q) /\ q + 4 \in Word
    BY <1>5, <1>8
  <2>2. Current = I("ORI", T0, T0, FILE_TABLE_ITEM_CNT % Half)
    BY <2>1, SearchCodeAt DEF Current, Here, Untranslated
  <2>4. Moves(T0, FILE_TABLE_ITEM_CNT, q)
    BY <1>2, <1>3, <1>8, <2>1, <2>2, SetsLower, FileRegisters
  <2>5. q + 4 = 12
    BY <2>1
  <2>6. /\ Here(8, 12)' /\ gpr'[T0] = FILE_TABLE_ITEM_CNT
        /\ \A s \in Regs : s # T0 => gpr'[s] = gpr[s]
    BY <2>1, <2>4, <2>5 DEF Moves
  <2>7. Asked(k)' /\ cpr' = cpr
    BY <1>4, <2>4
  <2> QED
    BY <1>1, <1>8, <2>6, <2>7, FileRegisters DEF Hashing
<1>9. CASE Here(8, 12) /\ gpr[T0] = FILE_TABLE_ITEM_CNT
  <2>1. PICK p, q \in Nat : p = 8 /\ q = 12 /\ Here(p, q) /\ q + 4 \in Word
    BY <1>5, <1>9
  <2>2. Current = R("DIVU", 0, A0, T0)
    BY <2>1, SearchCodeAt DEF Current, Here, Untranslated
  <2>3. /\ Here(q, q + 4)' /\ cpr' = cpr /\ mem' = mem /\ gpr' = gpr
        /\ hi' = gpr[A0] % gpr[T0]
    BY <1>2, <1>9, <2>1, <2>2, Divides, FileRegisters
  <2>4. q + 4 = 16
    BY <2>1
  <2>5. Here(12, 16)' /\ hi' = h
    BY <1>1, <1>3, <1>9, <2>1, <2>3, <2>4 DEF Asked, Bucket
  <2>6. Asked(k)'
    BY <1>3, <2>3, AskedStays
  <2> QED
    BY <1>1, <2>3, <2>5, <2>6 DEF Hashing
<1>10. CASE Here(12, 16) /\ hi = h
  <2>1. PICK p, q \in Nat : p = 12 /\ q = 16 /\ Here(p, q) /\ q + 4 \in Word
    BY <1>5, <1>10
  <2>2. Current = R("MFHI", V0, 0, 0)
    BY <2>1, SearchCodeAt DEF Current, Here, Untranslated
  <2>4. Moves(V0, h, q)
    BY <1>1, <1>3, <1>10, <2>1, <2>2, ReadsHi, FileRegisters
  <2>5. q + 4 = 20
    BY <2>1
  <2>6. /\ Here(16, 20)' /\ gpr'[V0] = h
        /\ \A s \in Regs : s # V0 => gpr'[s] = gpr[s]
    BY <2>1, <2>4, <2>5 DEF Moves
  <2>7. Asked(k)' /\ cpr' = cpr
    BY <1>4, <2>4
  <2> QED
    BY <1>1, <1>10, <2>6, <2>7, FileRegisters DEF Hashing
<1>11. CASE gpr[V0] = h /\ Here(16, 20)
  <2>1. PICK p, q \in Nat : p = 16 /\ q = 20 /\ Here(p, q) /\ q + 4 \in Word
    BY <1>5, <1>11
  <2>2. Current = I("LUI", S1, 0, FILE_TABLE \div Half)
    BY <2>1, SearchCodeAt DEF Current, Here, Untranslated
  <2>4. Moves(S1, UpperHalf(FILE_TABLE), q)
    BY <1>2, <1>3, <1>11, <2>1, <2>2, SetsUpper, FileRegisters
  <2>5. q + 4 = 24
    BY <2>1
  <2>6. /\ Here(20, 24)' /\ gpr'[S1] = UpperHalf(FILE_TABLE)
        /\ \A s \in Regs : s # S1 => gpr'[s] = gpr[s]
    BY <2>1, <2>4, <2>5 DEF Moves
  <2>7. Asked(k)' /\ cpr' = cpr
    BY <1>4, <2>4
  <2> QED
    BY <1>1, <1>11, <2>6, <2>7, FileRegisters DEF Hashing
<1>12. CASE gpr[V0] = h /\ Here(20, 24) /\ gpr[S1] = UpperHalf(FILE_TABLE)
  <2>1. PICK p, q \in Nat : p = 20 /\ q = 24 /\ Here(p, q) /\ q + 4 \in Word
    BY <1>5, <1>12
  <2>2. Current = I("ORI", S1, S1, FILE_TABLE % Half)
    BY <2>1, SearchCodeAt DEF Current, Here, Untranslated
  <2>4. Moves(S1, FILE_TABLE, q)
    BY <1>2, <1>3, <1>12, <2>1, <2>2, SetsLower, FileRegisters
  <2>5. q + 4 = 28
    BY <2>1
  <2>6. /\ Here(24, 28)' /\ gpr'[S1] = FILE_TABLE
        /\ \A s \in Regs : s # S1 => gpr'[s] = gpr[s]
    BY <2>1, <2>4, <2>5 DEF Moves
  <2>7. Asked(k)' /\ cpr' = cpr
    BY <1>4, <2>4
  <2> QED
    BY <1>1, <1>12, <2>6, <2>7, FileRegisters DEF Hashing
<1>13. CASE gpr[V0] = h /\ Here(24, 28) /\ gpr[S1] = FILE_TABLE
  <2>1. PICK p, q \in Nat : p = 24 /\ q = 28 /\ Here(p, q) /\ q + 4 \in Word
    BY <1>5, <1>13
  <2>2. Current = I("LUI", S2, 0, FILE_TABLE_SIZE \div Half)
    BY <2>1, SearchCodeAt DEF Current, Here, Untranslated
  <2>4. Moves(S2, UpperHalf(FILE_TABLE_SIZE), q)
    BY <1>2, <1>3, <1>13, <2>1, <2>2, SetsUpper, FileRegisters
  <2>5. q + 4 = 32
    BY <2>1
  <2>6. /\ Here(28, 32)' /\ gpr'[S2] = UpperHalf(FILE_TABLE_SIZE)
        /\ \A s \in Regs : s # S2 => gpr'[s] = gpr[s]
    BY <2>1, <2>4, <2>5 DEF Moves
  <2>7. Asked(k)' /\ cpr' = cpr
    BY <1>4, <2>4
  <2> QED
    BY <1>1, <1>13, <2>6, <2>7, FileRegisters DEF Hashing
<1>14. CASE gpr[V0] = h /\ Here(28, 32) /\ gpr[S1] = FILE_TABLE /\ gpr[S2] = UpperHalf(FILE_TABLE_SIZE)
  <2>1. PICK p, q \in Nat : p = 28 /\ q = 32 /\ Here(p, q) /\ q + 4 \in Word
    BY <1>5, <1>14
  <2>2. Current = I("ORI", S2, S2, FILE_TABLE_SIZE % Half)
    BY <2>1, SearchCodeAt DEF Current, Here, Untranslated
  <2>4. Moves(S2, FILE_TABLE_SIZE, q)
    BY <1>2, <1>3, <1>14, <2>1, <2>2, SetsLower, FileRegisters
  <2>5. q + 4 = 36
    BY <2>1
  <2>6. /\ Here(32, 36)' /\ gpr'[S2] = FILE_TABLE_SIZE
        /\ \A s \in Regs : s # S2 => gpr'[s] = gpr[s]
    BY <2>1, <2>4, <2>5 DEF Moves
  <2>7. Asked(k)' /\ cpr' = cpr
    BY <1>4, <2>4
  <2> QED
    BY <1>1, <1>14, <2>6, <2>7, FileRegisters DEF Hashing
<1>15. CASE gpr[V0] = h /\ Here(32, 36) /\ gpr[S1] = FILE_TABLE /\ gpr[S2] = FILE_TABLE_SIZE
  <2>1. PICK p, q \in Nat : p = 32 /\ q = 36 /\ Here(p, q) /\ q + 4 \in Word
    BY <1>5, <1>15
  <2>2. Current = R("ADD", S2, S2, S1)
    BY <2>1, SearchCodeAt DEF Current, Here, Untranslated
  <2>3. PICK w \in Word : w = Turn /\ gpr[S2] + gpr[S1] = w
    BY <1>2, <1>15
  <2>4. Moves(S2, Turn, q)
    BY <1>3, <2>1, <2>2, <2>3, AddsRegisters, FileRegisters
  <2>5. q + 4 = 40
    BY <2>1
  <2>6. /\ Here(36, 40)' /\ gpr'[S2] = Turn
        /\ \A s \in Regs : s # S2 => gpr'[s] = gpr[s]
    BY <2>1, <2>4, <2>5 DEF Moves
  <2>7. Asked(k)' /\ cpr' = cpr
    BY <1>4, <2>4
  <2> QED
    BY <1>1, <1>15, <2>6, <2>7, FileRegisters DEF Hashing
<1>16. CASE gpr[V0] = h /\ Here(36, 40) /\ gpr[S1] = FILE_TABLE /\ gpr[S2] = Turn
  <2>1. PICK p, q \in Nat : p = 36 /\ q = 40 /\ Here(p, q) /\ q + 4 \in Word
    BY <1>5, <1>16
  <2>2. Current = Shift("SLL", S3, V0, FILE_TABLE_ITEM_LOG_SIZE)
    BY <2>1, SearchCodeAt DEF Current, Here, Untranslated
  <2>3. PICK w \in Word : w = 8 * h /\ gpr[V0] * 8 = w
    BY <1>1, <1>16
  <2>4. Moves(S3, 8 * h, q)
    BY <1>3, <2>1, <2>2, <2>3, ShiftsItem, FileRegisters
  <2>5. q + 4 = 44
    BY <2>1
  <2>6. /\ Here(40, 44)' /\ gpr'[S3] = 8 * h
        /\ \A s \in Regs : s # S3 => gpr'[s] = gpr[s]
    BY <2>1, <2>4, <2>5 DEF Moves
  <2>7. Asked(k)' /\ cpr' = cpr
    BY <1>4, <2>4
  <2> QED
    BY <1>1, <1>16, <2>6, <2>7, FileRegisters DEF Hashing
<1>17. CASE gpr[V0] = h /\ Here(40, 44) /\ gpr[S1] = FILE_TABLE /\ gpr[S2] = Turn /\ gpr[S3] = 8 * h
  <2>1. PICK p, q \in Nat : p = 40 /\ q = 44 /\ Here(p, q) /\ q + 4 \in Word
    BY <1>5, <1>17
  <2>2. Current = R("ADD", S3, S3, S1)
    BY <2>1, SearchCodeAt DEF Current, Here, Untranslated
  <2>3. PICK w \in Word : w = FILE_TABLE + 8 * h /\ gpr[S3] + gpr[S1] = w
    BY <1>1, <1>17, FilesAssumption
  <2>4. Moves(S3, w, q)
    BY <1>3, <2>1, <2>2, <2>3, AddsRegisters, FileRegisters
  <2>5. q + 4 = 48
    BY <2>1
  <2>6. /\ Here(44, 48)' /\ gpr'[S3] = FILE_TABLE + 8 * h /\ mem' = mem
        /\ gpr'[S1] = FILE_TABLE /\ gpr'[S2] = Turn
    BY <1>17, <2>1, <2>3, <2>4, <2>5, FileRegisters DEF Moves
  <2>7. Asked(k)' /\ cpr' = cpr
    BY <1>4, <2>4
  <2>8. h \in Slots' /\ Probing(mem, Wanted(k), h)'
    BY <1>1, <2>6, QuestionStays
  <2>9. Searching(k, h)'
    BY <2>6, <2>7, <2>8 DEF Searching
  <2> QED
    BY <1>1, <2>7, <2>9
<1> QED
  BY <1>1, <1>6, <1>7, <1>8, <1>9, <1>10, <1>11, <1>12, <1>13, <1>14, <1>15, <1>16, <1>17 DEF Hashing

(* A search is called for.                                                 *)
LEMMA StartingSteps ==
  ASSUME Untranslated, Next, start' = start, start.name = "files", NEW k \in 0..Len(start.files),
         Starting(k)
  PROVE  cpr' = cpr /\ (Starting(k)' \/ Hashing(k)')
<1>1. PICK l \in Nat :
        /\ l = Link(k) /\ l \in Word /\ l >= 112
        /\ l - 16 \in Nat /\ l - 12 \in Nat /\ l - 8 \in Nat /\ l - 4 \in Nat
        /\ l - 8 \in Word /\ l - 4 \in Word /\ l - 12 + 4 = l - 8 /\ l - 8 + 4 = l - 4 /\ l - 8 + 8 = l
  <2>1. Link(k) \in Nat /\ Link(k) \in Word /\ Link(k) >= 112
    BY CallsCodeAt DEF Untranslated
  <2>2. Link(k) - 8 \in Word /\ Link(k) - 4 \in Word
    BY <2>1, Widths DEF Word
  <2> QED
    BY <2>1, <2>2
<1>2. /\ l = Link(k)' /\ start'.files = start.files /\ Wanted(k)' = Wanted(k)
      /\ Holds(mem, k) /\ gpr[0] = 0
  BY <1>1, QuestionStays DEF Starting
<1>3. \A s \in {0, A0, A1, Ra} : s \in Regs
  BY FileRegisters
<1>4. ASSUME mem' = mem PROVE Holds(mem, k)'
  BY <1>2, <1>4, QuestionStays
<1>5. CASE k < Len(start.files) /\ Here(l - 16, l - 12)
  <2>1. PICK p, q \in Nat : p = l - 16 /\ q = l - 12 /\ Here(p, q) /\ q + 4 \in Word /\ q + 4 = l - 8
    BY <1>1, <1>5
  <2>2. PICK x \in 0..Half - 1 : x = start.files[k + 1].sector
    <3>1. k + 1 \in 1..Len(start.files)
      BY <1>5, FilesStart DEF Untranslated
    <3>2. start.files[k + 1].sector \in 1..Half - 1
      BY <3>1, FilesStart DEF Untranslated
    <3> QED
      BY <3>2, ProgramWidths
  <2>3. Current = I("ORI", A1, 0, x)
    BY <1>1, <1>5, <2>1, <2>2, CallsCodeAt DEF Current, Here, Untranslated
  <2>4. Moves(A1, x, q)
    BY <1>2, <2>1, <2>3, SetsNumber, FileRegisters
  <2>5. /\ Here(l - 12, l - 8)' /\ cpr' = cpr /\ mem' = mem /\ gpr'[A1] = x /\ gpr'[0] = 0
    BY <1>2, <2>1, <2>4, FileRegisters DEF Moves
  <2>6. Starting(k)'
    BY <1>2, <1>4, <2>2, <2>5 DEF Starting
  <2> QED
    BY <2>5, <2>6
<1>6. CASE (k < Len(start.files) => gpr[A1] = start.files[k + 1].sector) /\ Here(l - 12, l - 8)
  <2>1. PICK p, q \in Nat : p = l - 12 /\ q = l - 8 /\ Here(p, q) /\ q + 4 \in Word /\ q + 4 = l - 4
    BY <1>1, <1>6
  <2>2. PICK x \in 0..Half - 1 : x = Wanted(k)
    BY NameWanted, ProgramWidths DEF Untranslated
  <2>3. Current = I("ORI", A0, 0, x)
    BY <1>1, <2>1, <2>2, CallsCodeAt DEF Current, Here, Untranslated
  <2>4. Moves(A0, x, q)
    BY <1>2, <2>1, <2>3, SetsNumber, FileRegisters
  <2>5. /\ Here(l - 8, l - 4)' /\ cpr' = cpr /\ mem' = mem /\ gpr'[A0] = x /\ gpr'[0] = 0
        /\ gpr'[A1] = gpr[A1]
    BY <1>2, <2>1, <2>4, FileRegisters DEF Moves
  <2>6. Starting(k)'
    BY <1>2, <1>4, <1>6, <2>2, <2>5 DEF Starting
  <2> QED
    BY <2>5, <2>6
<1>7. CASE /\ k < Len(start.files) => gpr[A1] = start.files[k + 1].sector
           /\ gpr[A0] = Wanted(k) /\ Here(l - 8, l - 4)
  <2>1. PICK p, q \in Nat : p = l - 8 /\ q = l - 4 /\ Here(p, q) /\ p + 8 = l /\ p + 8 \in Word
    BY <1>1, <1>7
  <2>2. Current = [Reserved EXCEPT !.op = "JAL"]
    BY <1>1, <2>1, CallsCodeAt DEF Current, Here, Untranslated
  <2>3. /\ Here(q, 0)' /\ cpr' = cpr /\ mem' = mem
        /\ gpr'[Ra] = p + 8 /\ \A s \in Regs : s # Ra => gpr'[s] = gpr[s]
    BY <1>2, <2>1, <2>2, CallsSearch
  <2>4. gpr'[0] = 0 /\ gpr'[A0] = gpr[A0] /\ gpr'[A1] = gpr[A1] /\ gpr'[Ra] = l
    BY <1>2, <2>1, <2>3, FileRegisters
  <2>5. Asked(k)'
    BY <1>2, <1>4, <1>7, <2>3, <2>4 DEF Asked
  <2>6. Here(l - 4, 0)'
    BY <2>1, <2>3, SMTT(30)
  <2> QED
    BY <1>2, <2>3, <2>5, <2>6 DEF Hashing
<1> QED
  BY <1>1, <1>5, <1>6, <1>7 DEF Starting

(* A search at an item finds it, or goes on with the next one, from the    *)
(* end of the table with the first.                                        *)
LEMMA SearchingSteps ==
  ASSUME Untranslated, Next, start' = start, start.name = "files", NEW k \in 0..Len(start.files),
         NEW i \in Slots, Searching(k, i)
  PROVE  cpr' = cpr /\ ((\E j \in Slots : Searching(k, j)') \/ Returned(k, i)')
<1>1. PICK f \in Nat, w \in Word, v \in Word, name \in Word :
        /\ f = FILE_TABLE /\ v = FILE_TABLE + 8 * i /\ w = Wanted(k) /\ w # 0
        /\ name = Name(mem, i) /\ f \in Word /\ i \in Nat
  <2>1. mem \in Bytes(MemSize)
    BY Storage DEF Untranslated
  <2>2. Name(mem, i) \in Word
    BY <2>1, ItemWords DEF Untranslated
  <2>3. Wanted(k) \in Word /\ Wanted(k) # 0
    BY NameWanted DEF Untranslated
  <2>4. FILE_TABLE \in Nat /\ FILE_TABLE + 8 * i \in Nat /\ FILE_TABLE + 8 * i + 8 <= MemSize
    BY ItemsPlaced, FilesAssumption DEF Untranslated
  <2>5. MemSize \in Nat /\ WordSpace \in Nat /\ MemSize <= WordSpace /\ i \in Nat
    BY Widths, MemoryAssumption, FilesStart DEF Word, Slots, Untranslated
  <2>6. FILE_TABLE \in Word /\ FILE_TABLE + 8 * i \in Word
    BY <2>4, <2>5 DEF Word
  <2> QED
    BY <2>2, <2>3, <2>4, <2>5, <2>6
<1>2. /\ Asked(k) /\ gpr[0] = 0 /\ gpr[A0] = w /\ Probing(mem, Wanted(k), i)
      /\ gpr[S1] = FILE_TABLE /\ gpr[S2] = Turn /\ Holds(mem, k)
  BY <1>1 DEF Searching, Asked
<1>3. Slots' = Slots /\ Wanted(k)' = Wanted(k) /\ Link(k)' = Link(k)
  BY QuestionStays
<1>4. ASSUME mem' = mem, NEW j \in Slots, Probing(mem, Wanted(k), j)
      PROVE  j \in Slots' /\ Probing(mem, Wanted(k), j)'
  BY <1>3, <1>4, QuestionStays
<1>5. ASSUME cpr' = cpr, mem' = mem, gpr' = gpr, NEW j \in Slots, Probing(mem, Wanted(k), j)
      PROVE  /\ Asked(k)' /\ j \in Slots' /\ Probing(mem, Wanted(k), j)'
             /\ gpr'[S1] = FILE_TABLE /\ gpr'[S2] = Turn
  BY <1>2, <1>4, <1>5, AskedStays
<1>6. ASSUME NEW r \in {V0, T1, S3}, NEW x, NEW q, Moves(r, x, q), NEW j \in Slots, Probing(mem, Wanted(k), j)
      PROVE  /\ Asked(k)' /\ j \in Slots' /\ Probing(mem, Wanted(k), j)' /\ cpr' = cpr /\ mem' = mem
             /\ gpr'[S1] = FILE_TABLE /\ gpr'[S2] = Turn
  <2>1. \A s \in {0, A0, A1, Ra, S1, S2} : s \in Regs /\ s # r
    BY FileRegisters
  <2>2. mem' = mem /\ cpr' = cpr /\ \A s \in {0, A0, A1, Ra, S1, S2} : gpr'[s] = gpr[s]
    BY <1>6, <2>1 DEF Moves
  <2>3. Asked(k)'
    BY <1>2, <2>2, AskedStays
  <2> QED
    BY <1>2, <1>4, <1>6, <2>2, <2>3
<1>7. \A q \in 0..128 : q \in Nat /\ q + 4 \in Word
  BY ProgramWidths
<1>8. ASSUME mem' = mem PROVE Name(mem, i)' = name
  BY <1>1, <1>8 DEF Name
<1>9. CASE gpr[S3] = FILE_TABLE + 8 * i /\ Here(44, 48)
  <2>1. PICK p, q \in Nat : p = 44 /\ q = 48 /\ Here(p, q) /\ q + 4 \in Word
    BY <1>7, <1>9
  <2>2. Current = I("LW", T1, S3, 0)
    BY <2>1, SearchCodeAt DEF Current, Here, Untranslated
  <2>3. Moves(T1, Name(mem, i), q)
    BY <1>2, <1>9, <2>1, <2>2, ReadsName, FileRegisters
  <2>4. q + 4 = 52
    BY <2>1
  <2>5. Here(48, 52)' /\ gpr'[T1] = name /\ gpr'[S3] = gpr[S3] /\ mem' = mem
    BY <1>1, <2>1, <2>3, <2>4, FileRegisters DEF Moves
  <2>6. /\ Asked(k)' /\ i \in Slots' /\ Probing(mem, Wanted(k), i)' /\ cpr' = cpr
        /\ gpr'[S1] = FILE_TABLE /\ gpr'[S2] = Turn
    BY <1>2, <1>6, <2>3
  <2>7. Searching(k, i)'
    BY <1>8, <1>9, <2>5, <2>6 DEF Searching
  <2> QED
    BY <2>6, <2>7
<1>10. CASE gpr[S3] = FILE_TABLE + 8 * i /\ Here(80, 84)
  <2>1. Current = [Nop EXCEPT !.op = "J", !.im = 11]
    BY <1>10, SearchCodeAt DEF Current, Here, Untranslated
  <2>2. PICK n \in 0..31 : n = 11 /\ 4 * n = 44
    OBVIOUS
  <2>3. adv1' = adv2 /\ adv2' = 4 * n /\ gpr' = gpr /\ cpr' = cpr /\ stop' = stop /\ mem' = mem
    BY <2>1, <2>2, Jumps
  <2>5. Here(84, 44)'
    BY <1>10, <2>2, <2>3 DEF Here
  <2>6. Searching(k, i)'
    BY <1>1, <1>2, <1>3, <1>5, <1>8, <1>10, <2>3, <2>5 DEF Searching
  <2> QED
    BY <2>3, <2>6
<1>11. CASE gpr[S3] = FILE_TABLE + 8 * i /\ Here(84, 44)
  <2>1. PICK p, q \in Nat : p = 84 /\ q = 44 /\ Here(p, q) /\ q + 4 \in Word
    BY <1>7, <1>11
  <2>2. Current = Nop
    BY <2>1, SearchCodeAt DEF Current, Here, Untranslated
  <2>3. Here(q, q + 4)' /\ cpr' = cpr /\ mem' = mem /\ gpr' = gpr
    BY <1>2, <2>1, <2>2, WaitsAt
  <2>4. q + 4 = 48
    BY <2>1
  <2>5. Here(44, 48)'
    BY <2>1, <2>3, <2>4
  <2>6. Searching(k, i)'
    BY <1>1, <1>2, <1>3, <1>5, <1>8, <1>11, <2>3, <2>5 DEF Searching
  <2> QED
    BY <2>3, <2>6
<1>12. CASE gpr[S3] = FILE_TABLE + 8 * i /\ Here(48, 52) /\ gpr[T1] = Name(mem, i)
  <2>1. PICK p \in 0..128, n \in 1..31, a \in Regs, b \in Regs, op \in {"BEQ", "BNE"} :
          p = 48 /\ n = 9 /\ a = 0 /\ b = T1 /\ op = "BEQ"
    BY FileRegisters
  <2>2. Current = I(op, a, b, n) /\ adv1 = p /\ adv2 = p + 4 /\ stop = "no"
    <3>1. Current = I(op, a, b, 8 + 1) /\ adv1 = p /\ adv2 = p + 4 /\ stop = "no"
      BY <1>12, <2>1, SearchCodeAt DEF Current, Here, Untranslated
    <3>2. 8 + 1 = n
      BY <2>1
    <3> QED
      BY <3>1, <3>2
  <2>3. PICK taken \in BOOLEAN : taken <=> gpr[T1] = gpr[0]
    OBVIOUS
  <2>4. /\ adv1' = p + 4 /\ gpr' = gpr /\ cpr' = cpr /\ stop' = stop /\ mem' = mem
        /\ op = "BEQ" => adv2' = IF gpr[b] = gpr[a] THEN p + 4 + 4 * n ELSE p + 8
        /\ op = "BNE" => adv2' = IF gpr[b] # gpr[a] THEN p + 4 + 4 * n ELSE p + 8
    BY <2>2, Branches
  <2>5. Here(52, IF taken THEN 88 ELSE 56)'
    <3>1. p + 4 = 52 /\ p + 4 + 4 * n = 88 /\ p + 8 = 56
      BY <2>1
    <3>2. adv2' = IF gpr[b] = gpr[a] THEN 88 ELSE 56
      BY <2>1, <2>4, <3>1
    <3> QED
      BY <2>1, <2>2, <2>3, <2>4, <3>1, <3>2 DEF Here
  <2>6. taken <=> name = 0
    BY <1>1, <1>2, <1>12, <2>3
  <2>7. Searching(k, i)'
    BY <1>1, <1>2, <1>3, <1>5, <1>8, <1>12, <2>4, <2>5, <2>6 DEF Searching
  <2> QED
    BY <2>4, <2>7
<1>13. CASE gpr[S3] = FILE_TABLE + 8 * i /\ Name(mem, i) = 0 /\ Here(52, 88)
  <2>1. PICK p, q \in Nat : p = 52 /\ q = 88 /\ Here(p, q) /\ q + 4 \in Word
    BY <1>7, <1>13
  <2>2. Current = Nop
    BY <2>1, SearchCodeAt DEF Current, Here, Untranslated
  <2>3. Here(q, q + 4)' /\ cpr' = cpr /\ mem' = mem /\ gpr' = gpr
    BY <1>2, <2>1, <2>2, WaitsAt
  <2>4. q + 4 = 92
    BY <2>1
  <2>5. Here(88, 92)'
    BY <2>1, <2>3, <2>4
  <2>6. Searching(k, i)'
    BY <1>1, <1>2, <1>3, <1>5, <1>8, <1>13, <2>3, <2>5 DEF Searching
  <2> QED
    BY <2>3, <2>6
<1>14. CASE gpr[S3] = FILE_TABLE + 8 * i /\ Name(mem, i) # 0 /\ Here(52, 56) /\ gpr[T1] = Name(mem, i)
  <2>1. PICK p, q \in Nat : p = 52 /\ q = 56 /\ Here(p, q) /\ q + 4 \in Word
    BY <1>7, <1>14
  <2>2. Current = Nop
    BY <2>1, SearchCodeAt DEF Current, Here, Untranslated
  <2>3. Here(q, q + 4)' /\ cpr' = cpr /\ mem' = mem /\ gpr' = gpr
    BY <1>2, <2>1, <2>2, WaitsAt
  <2>4. q + 4 = 60
    BY <2>1
  <2>5. Here(56, 60)'
    BY <2>1, <2>3, <2>4
  <2>6. Searching(k, i)'
    BY <1>1, <1>2, <1>3, <1>5, <1>8, <1>14, <2>3, <2>5 DEF Searching
  <2> QED
    BY <2>3, <2>6
<1>15. CASE gpr[S3] = FILE_TABLE + 8 * i /\ Name(mem, i) # 0 /\ Here(56, 60) /\ gpr[T1] = Name(mem, i)
  <2>1. PICK p \in 0..128, n \in 1..31, a \in Regs, b \in Regs, op \in {"BEQ", "BNE"} :
          p = 56 /\ n = 7 /\ a = A0 /\ b = T1 /\ op = "BEQ"
    BY FileRegisters
  <2>2. Current = I(op, a, b, n) /\ adv1 = p /\ adv2 = p + 4 /\ stop = "no"
    <3>1. Current = I(op, a, b, 6 + 1) /\ adv1 = p /\ adv2 = p + 4 /\ stop = "no"
      BY <1>15, <2>1, SearchCodeAt DEF Current, Here, Untranslated
    <3>2. 6 + 1 = n
      BY <2>1
    <3> QED
      BY <3>1, <3>2
  <2>3. PICK taken \in BOOLEAN : taken <=> gpr[T1] = gpr[A0]
    OBVIOUS
  <2>4. /\ adv1' = p + 4 /\ gpr' = gpr /\ cpr' = cpr /\ stop' = stop /\ mem' = mem
        /\ op = "BEQ" => adv2' = IF gpr[b] = gpr[a] THEN p + 4 + 4 * n ELSE p + 8
        /\ op = "BNE" => adv2' = IF gpr[b] # gpr[a] THEN p + 4 + 4 * n ELSE p + 8
    BY <2>2, Branches
  <2>5. Here(60, IF taken THEN 88 ELSE 64)'
    <3>1. p + 4 = 60 /\ p + 4 + 4 * n = 88 /\ p + 8 = 64
      BY <2>1
    <3>2. adv2' = IF gpr[b] = gpr[a] THEN 88 ELSE 64
      BY <2>1, <2>4, <3>1
    <3> QED
      BY <2>1, <2>2, <2>3, <2>4, <3>1, <3>2 DEF Here
  <2>6. taken <=> name = w
    BY <1>1, <1>2, <1>15, <2>3
  <2>7. Searching(k, i)'
    BY <1>1, <1>2, <1>3, <1>5, <1>8, <1>15, <2>4, <2>5, <2>6 DEF Searching
  <2> QED
    BY <2>4, <2>7
<1>16. CASE gpr[S3] = FILE_TABLE + 8 * i /\ Name(mem, i) # 0 /\ Name(mem, i) = Wanted(k) /\ Here(60, 88)
  <2>1. PICK p, q \in Nat : p = 60 /\ q = 88 /\ Here(p, q) /\ q + 4 \in Word
    BY <1>7, <1>16
  <2>2. Current = Nop
    BY <2>1, SearchCodeAt DEF Current, Here, Untranslated
  <2>3. Here(q, q + 4)' /\ cpr' = cpr /\ mem' = mem /\ gpr' = gpr
    BY <1>2, <2>1, <2>2, WaitsAt
  <2>4. q + 4 = 92
    BY <2>1
  <2>5. Here(88, 92)'
    BY <2>1, <2>3, <2>4
  <2>6. Searching(k, i)'
    BY <1>1, <1>2, <1>3, <1>5, <1>8, <1>16, <2>3, <2>5 DEF Searching
  <2> QED
    BY <2>3, <2>6
<1>17. CASE gpr[S3] = FILE_TABLE + 8 * i /\ Name(mem, i) # 0 /\ Name(mem, i) # Wanted(k) /\ Here(60, 64)
  <2>1. PICK p, q \in Nat : p = 60 /\ q = 64 /\ Here(p, q) /\ q + 4 \in Word
    BY <1>7, <1>17
  <2>2. Current = Nop
    BY <2>1, SearchCodeAt DEF Current, Here, Untranslated
  <2>3. Here(q, q + 4)' /\ cpr' = cpr /\ mem' = mem /\ gpr' = gpr
    BY <1>2, <2>1, <2>2, WaitsAt
  <2>4. q + 4 = 68
    BY <2>1
  <2>5. Here(64, 68)'
    BY <2>1, <2>3, <2>4
  <2>6. Searching(k, i)'
    BY <1>1, <1>2, <1>3, <1>5, <1>8, <1>17, <2>3, <2>5 DEF Searching
  <2> QED
    BY <2>3, <2>6
<1>18. CASE gpr[S3] = FILE_TABLE + 8 * i /\ Name(mem, i) # 0 /\ Name(mem, i) # Wanted(k) /\ Here(64, 68)
  <2>1. PICK p, q \in Nat, m \in 0..31 : p = 64 /\ q = 68 /\ Here(p, q) /\ q + 4 \in Word /\ m = 16
    BY <1>7, <1>18
  <2>2. Current = I("ADDI", S3, S3, m)
    BY <2>1, SearchCodeAt, ItemSizes DEF Current, Here, Untranslated
  <2>3. PICK x \in Word : x = FILE_TABLE + 8 * i + 16 /\ gpr[S3] + m = x
    <3>1. FILE_TABLE + 8 * i + 16 \in Word
      BY <1>2, <1>18, SearchGoesOn DEF Untranslated
    <3> QED
      BY <1>18, <2>1, <3>1
  <2>4. Moves(S3, x, q)
    BY <1>2, <2>1, <2>2, <2>3, AddsNumber, FileRegisters
  <2>5. q + 4 = 72
    BY <2>1
  <2>6. Here(68, 72)' /\ gpr'[S3] = FILE_TABLE + 8 * i + 16 /\ mem' = mem
    BY <2>1, <2>3, <2>4, <2>5 DEF Moves
  <2>7. /\ Asked(k)' /\ i \in Slots' /\ Probing(mem, Wanted(k), i)' /\ cpr' = cpr
        /\ gpr'[S1] = FILE_TABLE /\ gpr'[S2] = Turn
    BY <1>2, <1>6, <2>4
  <2>8. Searching(k, i)'
    BY <1>1, <1>3, <1>8, <1>18, <2>6, <2>7 DEF Searching
  <2> QED
    BY <2>7, <2>8
<1>19. CASE gpr[S3] = FILE_TABLE + 8 * i /\ (Name(mem, i) = 0 \/ Name(mem, i) = Wanted(k)) /\ Here(88, 92)
  <2>1. PICK p, q \in Nat : p = 88 /\ q = 92 /\ Here(p, q) /\ q + 4 \in Word
    BY <1>7, <1>19
  <2>2. Current = R("OR", V0, 0, S3)
    BY <2>1, SearchCodeAt DEF Current, Here, Untranslated
  <2>3. Moves(V0, gpr[S3], q)
    BY <1>2, <2>1, <2>2, CopiesRegister, FileRegisters
  <2>4. q + 4 = 96
    BY <2>1
  <2>5. Here(92, 96)' /\ gpr'[V0] = FILE_TABLE + 8 * i /\ mem' = mem
    BY <1>19, <2>1, <2>3, <2>4 DEF Moves
  <2>6. /\ Asked(k)' /\ i \in Slots' /\ Probing(mem, Wanted(k), i)' /\ cpr' = cpr
    BY <1>2, <1>6, <2>3
  <2>7. Name(mem, i)' \in {0, Wanted(k)'}
    BY <1>1, <1>3, <1>8, <1>19, <2>5
  <2>8. Returned(k, i)'
    BY <2>5, <2>6, <2>7 DEF Returned
  <2> QED
    BY <2>6, <2>8
<1>20. CASE Name(mem, i) # 0 /\ Name(mem, i) # Wanted(k) /\ gpr[S3] = FILE_TABLE + 8 * i + 16 /\ Here(68, 72)
  <2>1. PICK p \in 0..128, n \in 1..31, a \in Regs, b \in Regs, op \in {"BEQ", "BNE"} :
          p = 68 /\ n = 2 /\ a = S2 /\ b = S3 /\ op = "BNE"
    BY FileRegisters
  <2>2. Current = I(op, a, b, n) /\ adv1 = p /\ adv2 = p + 4 /\ stop = "no"
    <3>1. Current = I(op, a, b, 1 + 1) /\ adv1 = p /\ adv2 = p + 4 /\ stop = "no"
      BY <1>20, <2>1, SearchCodeAt DEF Current, Here, Untranslated
    <3>2. 1 + 1 = n
      BY <2>1
    <3> QED
      BY <3>1, <3>2
  <2>3. PICK taken \in BOOLEAN : taken <=> gpr[S3] # gpr[S2]
    OBVIOUS
  <2>4. /\ adv1' = p + 4 /\ gpr' = gpr /\ cpr' = cpr /\ stop' = stop /\ mem' = mem
        /\ op = "BEQ" => adv2' = IF gpr[b] = gpr[a] THEN p + 4 + 4 * n ELSE p + 8
        /\ op = "BNE" => adv2' = IF gpr[b] # gpr[a] THEN p + 4 + 4 * n ELSE p + 8
    BY <2>2, Branches
  <2>5. Here(72, IF taken THEN 80 ELSE 76)'
    <3>1. p + 4 = 72 /\ p + 4 + 4 * n = 80 /\ p + 8 = 76
      BY <2>1
    <3>2. adv2' = IF gpr[b] # gpr[a] THEN 80 ELSE 76
      BY <2>1, <2>4, <3>1
    <3> QED
      BY <2>1, <2>2, <2>3, <2>4, <3>1, <3>2 DEF Here
  <2>6. taken <=> gpr[S3] # Turn
    BY <1>2, <2>3
  <2>7. Searching(k, i)'
    BY <1>1, <1>2, <1>3, <1>5, <1>8, <1>20, <2>4, <2>5, <2>6, SMTT(30) DEF Searching
  <2> QED
    BY <2>4, <2>7
<1>21. CASE Name(mem, i) # 0 /\ Name(mem, i) # Wanted(k) /\ gpr[S3] = FILE_TABLE + 8 * i + 16 /\ gpr[S3] # Turn /\ Here(72, 80)
  <2>1. PICK p, q \in Nat : p = 72 /\ q = 80 /\ Here(p, q) /\ q + 4 \in Word
    BY <1>7, <1>21
  <2>2. Current = Nop
    BY <2>1, SearchCodeAt DEF Current, Here, Untranslated
  <2>3. Here(q, q + 4)' /\ cpr' = cpr /\ mem' = mem /\ gpr' = gpr
    BY <1>2, <2>1, <2>2, WaitsAt
  <2>4. q + 4 = 84
    BY <2>1
  <2>5. Here(80, 84)'
    BY <2>1, <2>3, <2>4
  <2>6. PICK j \in Slots : j = i + 2 /\ Probing(mem, Wanted(k), j)
    BY <1>2, <1>21, SearchGoesOn DEF Untranslated
  <2>7. gpr'[S3] = FILE_TABLE + 8 * j
    BY <1>1, <1>21, <2>3, <2>6
  <2>8. Searching(k, j)'
    BY <1>5, <2>3, <2>5, <2>6, <2>7 DEF Searching
  <2> QED
    BY <2>3, <2>8
<1>22. CASE Name(mem, i) # 0 /\ Name(mem, i) # Wanted(k) /\ gpr[S3] = FILE_TABLE + 8 * i + 16 /\ gpr[S3] = Turn /\ Here(72, 76)
  <2>1. PICK p, q \in Nat : p = 72 /\ q = 76 /\ Here(p, q) /\ q + 4 \in Word
    BY <1>7, <1>22
  <2>2. Current = Nop
    BY <2>1, SearchCodeAt DEF Current, Here, Untranslated
  <2>3. Here(q, q + 4)' /\ cpr' = cpr /\ mem' = mem /\ gpr' = gpr
    BY <1>2, <2>1, <2>2, WaitsAt
  <2>4. q + 4 = 80
    BY <2>1
  <2>5. Here(76, 80)'
    BY <2>1, <2>3, <2>4
  <2>6. Searching(k, i)'
    BY <1>1, <1>2, <1>3, <1>5, <1>8, <1>22, <2>3, <2>5 DEF Searching
  <2> QED
    BY <2>3, <2>6
<1>23. CASE Name(mem, i) # 0 /\ Name(mem, i) # Wanted(k) /\ gpr[S3] = FILE_TABLE + 8 * i + 16 /\ gpr[S3] = Turn /\ Here(76, 80)
  <2>1. PICK p, q \in Nat : p = 76 /\ q = 80 /\ Here(p, q) /\ q + 4 \in Word
    BY <1>7, <1>23
  <2>2. Current = R("OR", S3, 0, S1)
    BY <2>1, SearchCodeAt DEF Current, Here, Untranslated
  <2>3. Moves(S3, gpr[S1], q)
    BY <1>2, <2>1, <2>2, CopiesRegister, FileRegisters
  <2>4. q + 4 = 84
    BY <2>1
  <2>5. PICK j \in Slots : j = 0 /\ Probing(mem, Wanted(k), j) /\ FILE_TABLE + 8 * j = FILE_TABLE
    <3>1. 0 \in Slots /\ Probing(mem, Wanted(k), 0)
      BY <1>2, <1>23, SearchGoesOn DEF Untranslated
    <3> QED
      BY <1>1, <3>1
  <2>6. Here(80, 84)' /\ gpr'[S3] = FILE_TABLE + 8 * j /\ mem' = mem
    BY <1>2, <2>1, <2>3, <2>4, <2>5 DEF Moves
  <2>7. /\ Asked(k)' /\ j \in Slots' /\ Probing(mem, Wanted(k), j)' /\ cpr' = cpr
        /\ gpr'[S1] = FILE_TABLE /\ gpr'[S2] = Turn
    BY <1>6, <2>3, <2>5
  <2>8. Searching(k, j)'
    BY <2>6, <2>7 DEF Searching
  <2> QED
    BY <2>7, <2>8
<1> QED
  BY <1>9, <1>10, <1>11, <1>12, <1>13, <1>14, <1>15, <1>16, <1>17, <1>18, <1>19, <1>20, <1>21, <1>22, <1>23 DEF Searching

(* An item that is found is returned; the file is stored there, and the    *)
(* next one follows, or the program ends.                                  *)
LEMMA ReturnedSteps ==
  ASSUME Untranslated, Next, start' = start, start.name = "files", NEW k \in 0..Len(start.files),
         NEW i \in Slots, Returned(k, i)
  PROVE  /\ cpr' = cpr
         /\ \/ Returned(k, i)'
            \/ k + 1 \in 0..Len(start.files) /\ Starting(k + 1)'
            \/ stop' = "exception" /\ Answered'
<1>1. PICK n \in Nat, l \in Nat :
        n = Len(start.files) /\ k \in 0..n /\ l = Link(k) /\ l \in Word /\ l >= 112
  <2>1. Len(start.files) \in Nat
    BY FilesStart DEF Untranslated
  <2>2. Link(k) \in Nat /\ Link(k) \in Word /\ Link(k) >= 112
    BY CallsCodeAt DEF Untranslated
  <2> QED
    BY <2>1, <2>2
<1>2. /\ Slots' = Slots /\ Wanted(k)' = Wanted(k) /\ Link(k)' = Link(k)
      /\ Link(k + 1)' = Link(k + 1) /\ start'.files = start.files
  BY QuestionStays
<1>3. ASSUME k < n
      PROVE  /\ CodeAt(l) = I("SW", A0, V0, 0) /\ CodeAt(l + 4) = I("SW", A1, V0, 4)
             /\ k + 1 \in 0..n /\ k \in 0..n - 1 /\ l + 4 \in Nat /\ l + 4 \in Word /\ ToWord(l + 4) = l + 4
             /\ (l + 4) + 4 = l + 8 /\ (l + 8) + 4 = l + 12 /\ l + 8 \in Nat
             /\ ToWord(l + 8) = l + 8 /\ ToWord(l + 12) = l + 12
             /\ l + 8 = IF k + 1 < n THEN Link(k + 1) - 16 ELSE Link(k + 1) - 12
  <2>1. /\ CodeAt(l) = I("SW", A0, V0, 0) /\ CodeAt(l + 4) = I("SW", A1, V0, 4)
        /\ k + 1 \in 0..n /\ l + 12 \in Word
        /\ l + 8 = IF k + 1 < n THEN Link(k + 1) - 16 ELSE Link(k + 1) - 12
    BY <1>1, <1>3, CallsCodeAt DEF Untranslated
  <2>2. WordSpace \in Nat /\ l + 12 < WordSpace /\ l + 8 \in Nat /\ l + 8 < WordSpace
        /\ l + 4 \in Nat /\ l + 4 < WordSpace /\ l + 12 \in Nat
    BY <1>1, <2>1, Widths, SMTT(30) DEF Word
  <2>3. \A x \in Nat : x < WordSpace => x \in Word /\ ToWord(x) = x
    BY Widths DEF Word, ToWord
  <2>4. /\ l + 4 \in Word /\ ToWord(l + 4) = l + 4 /\ ToWord(l + 8) = l + 8 /\ ToWord(l + 12) = l + 12
    BY <2>2, <2>3
  <2>5. (l + 4) + 4 = l + 8 /\ (l + 8) + 4 = l + 12 /\ k \in 0..n - 1
    BY <1>1, <1>3
  <2> QED
    BY <2>1, <2>2, <2>4, <2>5
<1>4. gpr[0] = 0 /\ gpr[V0] = FILE_TABLE + 8 * i /\ mem \in Bytes(MemSize)
  BY Storage DEF Returned, Asked, Untranslated
<1>5. ASSUME Asked(k), Probing(mem, Wanted(k), i), Name(mem, i) \in {0, Wanted(k)},
             cpr' = cpr, mem' = mem, gpr' = gpr,
             Here(96, l)' \/ Here(l, ToWord(l + 4))'
      PROVE  Returned(k, i)'
  <2>1. Asked(k)'
    BY <1>5, AskedStays
  <2>2. i \in Slots' /\ Probing(mem, Wanted(k), i)' /\ Name(mem, i)' \in {0, Wanted(k)'}
    BY <1>2, <1>5, QuestionStays DEF Name
  <2>3. gpr'[V0] = FILE_TABLE + 8 * i
    BY <1>4, <1>5
  <2> QED
    BY <1>1, <1>2, <1>5, <2>1, <2>2, <2>3 DEF Returned
<1>6. CASE Asked(k) /\ Probing(mem, Wanted(k), i) /\ Name(mem, i) \in {0, Wanted(k)} /\ Here(92, 96)
  <2>1. Current = R("JR", 0, Ra, 0)
    BY <1>6, SearchCodeAt DEF Current, Here, Untranslated
  <2>2. adv1' = adv2 /\ adv2' = gpr[Ra] /\ gpr' = gpr /\ cpr' = cpr /\ stop' = stop /\ mem' = mem
    BY <2>1, Jumps, FileRegisters
  <2>3. Here(96, l)'
    BY <1>1, <1>6, <2>2 DEF Here, Asked
  <2> QED
    BY <1>5, <1>6, <2>2, <2>3
<1>7. CASE Asked(k) /\ Probing(mem, Wanted(k), i) /\ Name(mem, i) \in {0, Wanted(k)} /\ Here(96, l)
  <2>1. Current = Nop
    BY <1>7, SearchCodeAt DEF Current, Here, Untranslated
  <2>2. Follows /\ gpr' = gpr
    BY <1>4, <2>1, SettingNone
  <2>3. Here(l, ToWord(l + 4))' /\ cpr' = cpr /\ mem' = mem
    BY <1>7, <2>2 DEF Here, Follows
  <2> QED
    BY <1>5, <1>7, <2>2, <2>3
<1>8. CASE /\ Asked(k) /\ Probing(mem, Wanted(k), i) /\ Name(mem, i) \in {0, Wanted(k)}
           /\ Here(l, ToWord(l + 4)) /\ k < n
  <2>1. PICK p, q \in Nat, z \in {0, 4} :
          p = l /\ q = l + 4 /\ Here(p, q) /\ z = 0 /\ FILE_TABLE + 8 * i + z = FILE_TABLE + 8 * i
    <3>1. FILE_TABLE + 8 * i \in Nat
      BY ItemsPlaced DEF Untranslated
    <3> QED
      BY <1>3, <1>8, <3>1
  <2>2. Current = I("SW", A0, V0, z)
    BY <1>3, <1>8, <2>1 DEF Current, Here
  <2>3. /\ Here(q, ToWord(q + 4))' /\ cpr' = cpr /\ gpr' = gpr
        /\ mem' = Put(mem, FILE_TABLE + 8 * i + z, 4, gpr[A0])
    BY <1>4, <2>1, <2>2, StoresAt, FileRegisters
  <2>4. Here(l + 4, l + 8)'
    BY <1>3, <1>8, <2>1, <2>3
  <2>5. /\ mem' = Put(mem, FILE_TABLE + 8 * i, 4, Wanted(k)) /\ Holds(mem, k)
        /\ gpr[A1] = start.files[k + 1].sector
    BY <1>1, <1>8, <2>1, <2>3 DEF Asked
  <2>6. PICK m \in Bytes(MemSize) :
          /\ Holds(m, k) /\ Probing(m, Wanted(k), i) /\ Name(m, i) \in {0, Wanted(k)}
          /\ mem' = Put(m, FILE_TABLE + 8 * i, 4, Wanted(k))
    BY <1>4, <1>8, <2>5
  <2>7. Holds(m, k)' /\ Probing(m, Wanted(k), i)' /\ Name(m, i)' \in {0, Wanted(k)'}
    BY <1>2, <2>6, QuestionStays DEF Name
  <2>8. Returned(k, i)'
    BY <1>1, <1>2, <1>4, <1>8, <2>3, <2>4, <2>5, <2>6, <2>7 DEF Returned
  <2> QED
    BY <2>3, <2>8
<1>9. CASE /\ Asked(k) /\ Probing(mem, Wanted(k), i) /\ Name(mem, i) \in {0, Wanted(k)}
           /\ Here(l, ToWord(l + 4)) /\ k = n
  <2>1. Current = Reserved /\ Wanted(k) = start.query
    BY <1>1, <1>9, CallsCodeAt DEF Current, Here, Untranslated, Wanted
  <2>2. stop' = "exception" /\ cpr' = cpr /\ gpr' = gpr /\ mem' = mem
    BY <2>1, Ending DEF storage
  <2>3. Holds(mem, n)' /\ Probing(mem, start.query, i)' /\ Name(mem, i)' \in {0, start'.query}
    BY <1>9, <2>1, <2>2, QuestionStays DEF Name, Asked
  <2>4. Answered'
    BY <1>1, <1>2, <1>4, <2>2, <2>3 DEF Answered
  <2> QED
    BY <2>2, <2>4
<1>10. ASSUME k < n, gpr[A1] = start.files[k + 1].sector, Here(l + 4, l + 8), NEW m \in Bytes(MemSize),
              Holds(m, k), Probing(m, Wanted(k), i), Name(m, i) \in {0, Wanted(k)},
              mem = Put(m, FILE_TABLE + 8 * i, 4, Wanted(k))
       PROVE  cpr' = cpr /\ k + 1 \in 0..n /\ Starting(k + 1)'
  <2>1. PICK p, q \in Nat, z \in {0, 4} : p = l + 4 /\ q = l + 8 /\ Here(p, q) /\ z = 4
    BY <1>3, <1>10
  <2>2. Current = I("SW", A1, V0, z)
    BY <1>3, <1>10, <2>1 DEF Current, Here
  <2>3. /\ Here(q, ToWord(q + 4))' /\ cpr' = cpr /\ gpr' = gpr
        /\ mem' = Put(mem, FILE_TABLE + 8 * i + z, 4, gpr[A1])
    BY <1>4, <2>1, <2>2, StoresAt, FileRegisters
  <2>4. mem' = Put(Put(m, FILE_TABLE + 8 * i, 4, Wanted(k)), FILE_TABLE + 8 * i + 4, 4, start.files[k + 1].sector)
    BY <1>10, <2>1, <2>3
  <2>5. PICK m2 : /\ m2 = mem'
                  /\ m2 = Put(Put(m, FILE_TABLE + 8 * i, 4, Wanted(k)), FILE_TABLE + 8 * i + 4, 4, start.files[k + 1].sector)
    BY <2>4
  <2>6. Holds(m2, k + 1)
    BY <1>1, <1>3, <1>10, <2>5, FileAdded DEF Untranslated
  <2>7. Holds(mem, k + 1)'
    BY <2>5, <2>6, QuestionStays
  <2>8. Here(l + 8, l + 12)' /\ gpr'[0] = 0
    BY <1>3, <1>4, <1>10, <2>1, <2>3
  <2>9. Link(k + 1) \in Nat /\ Link(k + 1) >= 112
    BY <1>1, <1>3, <1>10, CallsCodeAt DEF Untranslated
  <2>10. CASE k + 1 < n
    <3>1. l + 8 = Link(k + 1) - 16 /\ l + 12 = Link(k + 1) - 12
      BY <1>1, <1>3, <1>10, <2>9, <2>10, SMTT(30)
    <3>2. Starting(k + 1)'
      BY <1>1, <1>2, <1>3, <1>10, <2>7, <2>8, <2>10, <3>1 DEF Starting
    <3> QED
      BY <1>3, <1>10, <2>3, <3>2
  <2>11. CASE ~(k + 1 < n)
    <3>1. l + 8 = Link(k + 1) - 12 /\ l + 12 = Link(k + 1) - 8
      BY <1>1, <1>3, <1>10, <2>9, <2>11
    <3>2. Starting(k + 1)'
      BY <1>1, <1>2, <1>3, <1>10, <2>7, <2>8, <2>11, <3>1 DEF Starting
    <3> QED
      BY <1>3, <1>10, <2>3, <3>2
  <2> QED
    BY <2>10, <2>11
<1>11. k < n \/ k = n
  BY <1>1
<1> QED
  BY <1>1, <1>6, <1>7, <1>8, <1>9, <1>10, <1>11 DEF Returned

(* A step that changes nothing leaves the search where it is.              *)
LEMMA FilesStutter == FilesInv /\ UNCHANGED vars => FilesInv'
<1> SUFFICES ASSUME FilesInv, UNCHANGED vars PROVE FilesInv'
  OBVIOUS
<1>1. /\ start' = start /\ gpr' = gpr /\ mem' = mem /\ cpr' = cpr /\ stop' = stop /\ hi' = hi
      /\ adv1' = adv1 /\ adv2' = adv2
  BY DEF vars, pipeline, storage
<1>2. /\ Slots' = Slots /\ (\A k : Wanted(k)' = Wanted(k) /\ Link(k)' = Link(k))
      /\ (\A m, w, i : Probing(m, w, i)' = Probing(m, w, i))
      /\ (\A m, k : Holds(m, k)' = Holds(m, k))
  BY <1>1, QuestionStays
<1>3. \A p, q : Here(p, q)' = Here(p, q)
  BY <1>1 DEF Here
<1>4. \A k : Asked(k)' = Asked(k)
  BY <1>1, <1>2 DEF Asked
<1>5. \A k : Starting(k)' = Starting(k) /\ Hashing(k)' = Hashing(k)
  BY <1>1, <1>2, <1>3, <1>4 DEF Starting, Hashing
<1>6. \A k, i : Searching(k, i)' = Searching(k, i) /\ Returned(k, i)' = Returned(k, i)
  BY <1>1, <1>2, <1>3, <1>4 DEF Searching, Returned, Name
<1>7. Answered' = Answered
  BY <1>1, <1>2 DEF Answered, Name
<1> QED
  BY <1>1, <1>2, <1>5, <1>6, <1>7 DEF FilesInv

(* Every step of a program that adds files and looks one up keeps to it.   *)
LEMMA FilesSteps == MInv /\ FilesInv /\ [Next]_vars => FilesInv'
<1>1. ASSUME MInv, FilesInv, Next PROVE FilesInv'
  <2> SUFFICES ASSUME start'.name = "files" PROVE FilesInv'
    BY DEF FilesInv
  <2>1. start' = start
    BY <1>1, StartStays
  <2>2. start.name = "files" /\ Untranslated
    BY <1>1, <2>1 DEF FilesInv, Untranslated
  <2>3. stop = "no"
    BY <1>1, <2>2, ExecutesCurrent
  <2>4. Slots' = Slots /\ start'.files = start.files
    BY <2>1, QuestionStays
  <2>5. ASSUME NEW k \in 0..Len(start.files), Starting(k) PROVE FilesInv'
    <3>1. cpr' = cpr /\ (Starting(k)' \/ Hashing(k)')
      BY <1>1, <2>1, <2>2, <2>5, StartingSteps
    <3> QED
      BY <2>2, <2>4, <3>1 DEF FilesInv, Untranslated
  <2>6. ASSUME NEW k \in 0..Len(start.files), Hashing(k) PROVE FilesInv'
    <3>1. cpr' = cpr /\ (Hashing(k)' \/ \E i \in Slots : Searching(k, i)')
      BY <1>1, <2>1, <2>2, <2>6, HashingSteps
    <3> QED
      BY <2>2, <2>4, <3>1 DEF FilesInv, Untranslated
  <2>7. ASSUME NEW k \in 0..Len(start.files), NEW i \in Slots, Searching(k, i) PROVE FilesInv'
    <3>1. cpr' = cpr /\ ((\E j \in Slots : Searching(k, j)') \/ Returned(k, i)')
      BY <1>1, <2>1, <2>2, <2>7, SearchingSteps
    <3> QED
      BY <2>2, <2>4, <3>1 DEF FilesInv, Untranslated
  <2>8. ASSUME NEW k \in 0..Len(start.files), NEW i \in Slots, Returned(k, i) PROVE FilesInv'
    <3>1. /\ cpr' = cpr
          /\ \/ Returned(k, i)'
             \/ k + 1 \in 0..Len(start.files) /\ Starting(k + 1)'
             \/ stop' = "exception" /\ Answered'
      BY <1>1, <2>1, <2>2, <2>8, ReturnedSteps
    <3> QED
      BY <2>2, <2>4, <3>1 DEF FilesInv, Untranslated
  <2> QED
    BY <1>1, <2>2, <2>3, <2>5, <2>6, <2>7, <2>8 DEF FilesInv
<1> QED
  BY <1>1, FilesStutter

(* A program that adds files begins with the first of them, or with what   *)
(* it looks up.                                                            *)
LEMMA FilesBegins == Init => FilesInv
<1> SUFFICES ASSUME Init, start.name = "files" PROVE FilesInv
  BY DEF FilesInv
<1>1. MInv
  BY MInvInit
<1>2. /\ start.pc = FilesBegin /\ start.cpr[GDTBASE] = 0 /\ start.gpr[0] = 0
  BY <1>1, NamedFiles DEF MInv
<1>3. FilesBegin = 100
  <2>1. Len(FS_GET_FILEITEM_BY_NAME) = 25
    BY SearchCode
  <2> QED
    BY <2>1 DEF FilesBegin
<1>4. Holds(mem, 0)
  BY <1>1, NoNames DEF Init
<1>5. PICK n \in Nat, k \in 0..Len(start.files) : n = Len(start.files) /\ k = 0
  BY <1>1, FilesStart
<1>6. stop = "no" /\ adv1 = 100 /\ adv2 = 104 /\ gpr[0] = 0 /\ cpr[GDTBASE] = 0
  BY <1>2, <1>3 DEF Init
<1>7. Link(k) = 100 + IF 0 < n THEN 16 ELSE 12
  BY <1>5 DEF Link
<1>8. Starting(k)
  BY <1>4, <1>5, <1>6, <1>7 DEF Starting, Here
<1> QED
  BY <1>6, <1>8 DEF FilesInv

(* A file is found with what was last added under its name, and a name     *)
(* that was never added is not found, however the names collide and        *)
(* however large the table is (filesystem.lib:54-126): a search passes the *)
(* same items whenever it is for the same name, and ends at the file's own *)
(* or at a free one.  As long as no names collide near the end of the      *)
(* table, nothing is written but its items.                                *)
THEOREM FilesAreFound == Spec => []FilesFound
<1>1. MInv /\ FilesInv => FilesFound
  <2> SUFFICES ASSUME MInv, FilesInv, Ended("files") PROVE FilesFound
    BY DEF FilesFound
  <2>1. start.name = "files" /\ stop = "exception"
    BY DEF Ended
  <2>2. Answered
    BY <2>1 DEF FilesInv, Starting, Hashing, Searching, Returned, Here
  <2>3. PICK i \in Slots :
          /\ Holds(mem, Len(start.files)) /\ gpr[V0] = FILE_TABLE + 8 * i
          /\ Probing(mem, start.query, i) /\ Name(mem, i) \in {0, start.query}
    BY <2>2 DEF Answered
  <2>4. /\ Name(mem, i) = IF Last(start.files, start.query) = 0 THEN 0 ELSE start.query
        /\ Sector(mem, i) = Last(start.files, start.query)
    BY <2>1, <2>3, FoundLast
  <2>5. WordAt(mem, gpr[V0]) = Name(mem, i) /\ WordAt(mem, gpr[V0] + 4) = Sector(mem, i)
    BY <2>3 DEF Name, Sector
  <2>6. ~Colliding(start.files) \/ Sparse(start.files) =>
          \A a \in DOMAIN mem \ Allocated : mem[a] = start.mem[a]
    <3>1. DOMAIN mem = 0..MemSize - 1
      BY Storage DEF Bytes
    <3> QED
      BY <2>3, <3>1 DEF Holds, InTable
  <2> QED
    BY <2>4, <2>5, <2>6 DEF FilesFound
<1> QED
  BY <1>1, FilesBegins, FilesSteps, MInvInit, MInvNext, PTL DEF Spec

-----------------------------------------------------------------------------
(* Requests to the ports.                                                  *)

(* What sets a register to a number moves, if the number is a word.        *)
LEMMA SetsWord ==
  ASSUME Untranslated, gpr[0] = 0, stop = "no", NEW p, NEW q \in Nat, q + 4 \in Word, Here(p, q),
         NEW d \in Regs, d # 0, NEW n, Sets(d, n)
  PROVE  Moves(d, ToWord(n), q)
<1>1. Follows /\ gpr' = [gpr EXCEPT ![d] = ToWord(n)]
  BY SettingOne
<1> QED
  BY <1>1, SetsOn

(* Shifts by any number of bits, and additions.                            *)
LEMMA ShiftsBits ==
  ASSUME Untranslated, Next, gpr[0] = 0, NEW p, NEW q \in Nat, q + 4 \in Word, Here(p, q),
         NEW d \in Regs, d # 0, NEW r \in Regs, NEW k
  PROVE  /\ Current = Shift("SLL", d, r, k) => Moves(d, ToWord(gpr[r] * Power2[k]), q)
         /\ Current = Shift("SRL", d, r, k) => Moves(d, ToWord(gpr[r] \div Power2[k]), q)
<1>1. Executes(Current) /\ stop = "no"
  BY ExecutesCurrent
<1>2. ASSUME Current = Shift("SLL", d, r, k) PROVE Moves(d, ToWord(gpr[r] * Power2[k]), q)
  <2>1. Current.op = "SLL" /\ Current.rd = d /\ Current.rt = r /\ Current.sa = k
    BY <1>2 DEF Shift
  <2>2. Sets(d, gpr[r] * Power2[k])
    BY <1>1, <2>1 DEF Executes
  <2> QED
    BY <1>1, <2>2, SetsWord
<1>3. ASSUME Current = Shift("SRL", d, r, k) PROVE Moves(d, ToWord(gpr[r] \div Power2[k]), q)
  <2>1. Current.op = "SRL" /\ Current.rd = d /\ Current.rt = r /\ Current.sa = k
    BY <1>3 DEF Shift
  <2>2. Sets(d, gpr[r] \div Power2[k])
    BY <1>1, <2>1 DEF Executes
  <2> QED
    BY <1>1, <2>2, SetsWord
<1> QED
  BY <1>2, <1>3

(* A sum, and what a function returns: 0 or -1.                            *)
LEMMA SumsAndResults ==
  ASSUME Untranslated, Next, gpr[0] = 0, NEW p, NEW q \in Nat, q + 4 \in Word, Here(p, q),
         NEW d \in Regs, d # 0, NEW a \in Regs, NEW b \in Regs
  PROVE  /\ Current = R("ADD", d, a, b) => Moves(d, ToWord(gpr[a] + gpr[b]), q)
         /\ Current = R("AND", d, 0, 0) => Moves(d, 0, q)
         /\ Current = I("ADDI", d, 0, -1) => Moves(d, WordSpace - 1, q)
<1>1. Executes(Current) /\ stop = "no"
  BY ExecutesCurrent
<1>2. ASSUME Current = R("ADD", d, a, b) PROVE Moves(d, ToWord(gpr[a] + gpr[b]), q)
  <2>1. Current.op = "ADD" /\ Current.rd = d /\ Current.rs = a /\ Current.rt = b
    BY <1>2 DEF R
  <2>2. Sets(d, gpr[a] + gpr[b])
    BY <1>1, <2>1 DEF Executes
  <2> QED
    BY <1>1, <2>2, SetsWord
<1>3. ASSUME Current = R("AND", d, 0, 0) PROVE Moves(d, 0, q)
  <2>1. Current.op = "AND" /\ Current.rd = d /\ Current.rs = 0 /\ Current.rt = 0
    BY <1>3 DEF R
  <2>2. PICK z \in {0, 1} : z = 0
    OBVIOUS
  <2>3. And(z, z) = z * z /\ z * z = 0
    BY <2>2, AndOfTruths
  <2>4. Sets(d, 0)
    BY <1>1, <2>1, <2>2, <2>3 DEF Executes
  <2>5. ToWord(0) = 0
    BY ProgramWidths
  <2> QED
    BY <1>1, <2>4, <2>5, SetsWord
<1>4. ASSUME Current = I("ADDI", d, 0, -1) PROVE Moves(d, WordSpace - 1, q)
  <2>1. Current.op = "ADDI" /\ Current.rt = d /\ Current.rs = 0 /\ SignedImm(Current.im) = -1
    BY <1>4, SmallImmediates DEF I
  <2>2. Sets(d, 0 + (-1))
    BY <1>1, <2>1 DEF Executes
  <2>3. ToWord(0 + (-1)) = WordSpace - 1
    <3>1. 0 + (-1) = -1
      OBVIOUS
    <3>2. \A w \in Nat : w >= 4096 => (-1) % w = w - 1
      OBVIOUS
    <3>3. PICK w \in Nat : w = WordSpace /\ w >= 4096
      BY ProgramWidths
    <3>4. (-1) % w = w - 1
      BY <3>2, <3>3
    <3>5. ToWord(-1) = (-1) % w
      BY <3>3 DEF ToWord
    <3> QED
      BY <3>1, <3>3, <3>4, <3>5
  <2> QED
    BY <1>1, <2>2, <2>3, SetsWord
<1> QED
  BY <1>2, <1>3, <1>4

(* A word is loaded, from an address behind the one in a register.         *)
LEMMA LoadsAt ==
  ASSUME Untranslated, Next, gpr[0] = 0, NEW p, NEW q \in Nat, q + 4 \in Word, Here(p, q),
         NEW t \in Regs, t # 0, NEW b \in Regs, NEW n \in 0..31,
         NEW a \in Nat, a = gpr[b] + n, a + 4 <= MemSize, Current = I("LW", t, b, n)
  PROVE  Moves(t, WordAt(mem, a), q)
<1>1. Follows /\ gpr' = [gpr EXCEPT ![t] = WordAt(mem, a)]
  BY LoadsWord
<1> QED
  BY <1>1, SetsOn

(* What a step that stores a parameter leaves alone.                       *)
LEMMA StoresOn ==
  ASSUME Advances, stop' = "no", NEW p, NEW q \in Nat, q + 4 \in Word, Here(p, q)
  PROVE  Here(q, q + 4)' /\ cpr' = cpr /\ gpr' = gpr
<1>1. ToWord(q + 4) = q + 4
  BY Widths DEF ToWord, Word
<1> QED
  BY <1>1 DEF Advances, Here

(* The registers of the requests.                                          *)
LEMMA RequestRegisters ==
  /\ 0 \in Regs /\ T0 \in Regs /\ T2 \in Regs /\ S0 \in Regs /\ S1 \in Regs /\ S2 \in Regs
  /\ V0 \in Regs /\ FP \in Regs
  /\ 0 \notin {T0, T2, S0, S1, S2, V0, FP} /\ T0 \notin {T2, S0, S1, S2, V0, FP}
  /\ V0 \notin {S1, S2, FP} /\ FP \notin {T2, S0, S1, S2} /\ T2 # S0
BY RegisterNumbers, FilesAssumption, RequestsAssumption DEF T2, S0, S1, S2, FP

(* The code of a read.                                                     *)
LEMMA ReadCode ==
  ASSUME MInv, start.name = "FS_READ"
  PROVE  /\ CodeAt(0) = I("LW", T0, V0, 0) /\ CodeAt(4) = I("BEQ", 0, T0, 17 + 1)
         /\ CodeAt(8) = Nop /\ CodeAt(12) = I("LUI", FP, 0, PROC \div Half)
         /\ CodeAt(16) = I("ORI", FP, FP, PROC % Half) /\ CodeAt(20) = I("LW", T0, FP, 0)
         /\ CodeAt(24) = Shift("SLL", T0, T0, PROC_USRSPACE_LOG_SIZE)
         /\ CodeAt(28) = R("ADD", T0, T0, S1) /\ CodeAt(32) = I("LUI", FP, 0, HddPort \div Half)
         /\ CodeAt(36) = I("ORI", FP, FP, HddPort % Half) /\ CodeAt(40) = I("SW", T0, FP, 4)
         /\ CodeAt(44) = I("LW", T0, V0, 4) /\ CodeAt(48) = I("SW", T0, FP, 8)
         /\ CodeAt(52) = Shift("SRL", T0, S2, HDD_SECT_LOG_SIZE)
         /\ CodeAt(56) = I("SW", T0, FP, 12) /\ CodeAt(60) = I("ORI", T0, 0, 1)
         /\ CodeAt(64) = I("SW", T0, FP, 0) /\ CodeAt(68) = R("AND", V0, 0, 0)
         /\ CodeAt(72) = [Nop EXCEPT !.op = "J", !.im = 21] /\ CodeAt(76) = Nop
         /\ CodeAt(80) = I("ADDI", V0, 0, -1) /\ CodeAt(84) = Reserved
<1> DEFINE code == FS_READ
<1>1. start.code = Placed(0, code)
  BY NamedRequests DEF MInv, Begins
<1>2. /\ DOMAIN code = 1..21 /\ code[1] = I("LW", T0, V0, 0) /\ code[2] = I("BEQ", 0, T0, 17 + 1)
      /\ code[3] = Nop /\ code[4] = I("LUI", FP, 0, PROC \div Half)
      /\ code[5] = I("ORI", FP, FP, PROC % Half) /\ code[6] = I("LW", T0, FP, 0)
      /\ code[7] = Shift("SLL", T0, T0, PROC_USRSPACE_LOG_SIZE) /\ code[8] = R("ADD", T0, T0, S1)
      /\ code[9] = I("LUI", FP, 0, HddPort \div Half)
      /\ code[10] = I("ORI", FP, FP, HddPort % Half) /\ code[11] = I("SW", T0, FP, 4)
      /\ code[12] = I("LW", T0, V0, 4) /\ code[13] = I("SW", T0, FP, 8)
      /\ code[14] = Shift("SRL", T0, S2, HDD_SECT_LOG_SIZE) /\ code[15] = I("SW", T0, FP, 12)
      /\ code[16] = I("ORI", T0, 0, 1) /\ code[17] = I("SW", T0, FP, 0)
      /\ code[18] = R("AND", V0, 0, 0) /\ code[19] = [Nop EXCEPT !.op = "J", !.im = 21]
      /\ code[20] = Nop /\ code[21] = I("ADDI", V0, 0, -1)
  BY DEF FS_READ, Branch, lli, J
<1> HIDE DEF code
<1>3. /\ \A k \in 1..21 : CodeAt(4 * k - 4) = code[k]
      /\ CodeAt(84) = Reserved
  <2>1. PICK n \in Nat : n = 21 /\ DOMAIN code = 1..n
    BY <1>2
  <2>2. /\ \A k \in 1..n : CodeAt(4 * k - 4) = code[k]
        /\ \A p \in Nat : p >= 4 * n => CodeAt(p) = Reserved
    BY <1>1, <2>1, PlacedCode
  <2> QED
    BY <2>1, <2>2
<1>4. /\ CodeAt(0) = code[1] /\ CodeAt(4) = code[2] /\ CodeAt(8) = code[3] /\ CodeAt(12) = code[4]
      /\ CodeAt(16) = code[5] /\ CodeAt(20) = code[6] /\ CodeAt(24) = code[7]
      /\ CodeAt(28) = code[8] /\ CodeAt(32) = code[9] /\ CodeAt(36) = code[10]
      /\ CodeAt(40) = code[11] /\ CodeAt(44) = code[12] /\ CodeAt(48) = code[13]
      /\ CodeAt(52) = code[14] /\ CodeAt(56) = code[15] /\ CodeAt(60) = code[16]
      /\ CodeAt(64) = code[17] /\ CodeAt(68) = code[18] /\ CodeAt(72) = code[19]
      /\ CodeAt(76) = code[20] /\ CodeAt(80) = code[21]
  BY <1>3
<1> QED
  BY <1>2, <1>3, <1>4

(* The code of a fork.                                                     *)
LEMMA ForkCode ==
  ASSUME MInv, start.name = "PROC_FORK"
  PROVE  /\ CodeAt(0) = Shift("SLL", T2, T2, PROC_USRSPACE_LOG_SIZE)
         /\ CodeAt(4) = Shift("SLL", T0, S0, PROC_USRSPACE_LOG_SIZE)
         /\ CodeAt(8) = I("LUI", FP, 0, DmaPort \div Half)
         /\ CodeAt(12) = I("ORI", FP, FP, DmaPort % Half) /\ CodeAt(16) = I("SW", T0, FP, 4)
         /\ CodeAt(20) = I("SW", T2, FP, 8)
         /\ CodeAt(24) = I("LUI", T0, 0, PROC_USRSPACE_SIZE \div Half)
         /\ CodeAt(28) = I("ORI", T0, T0, PROC_USRSPACE_SIZE % Half)
         /\ CodeAt(32) = I("SW", T0, FP, 12) /\ CodeAt(36) = I("ORI", T0, 0, 1)
         /\ CodeAt(40) = I("SW", T0, FP, 0) /\ CodeAt(44) = Reserved
<1> DEFINE code == PROC_FORK
<1>1. start.code = Placed(0, code)
  BY NamedRequests DEF MInv, Begins
<1>2. /\ DOMAIN code = 1..11 /\ code[1] = Shift("SLL", T2, T2, PROC_USRSPACE_LOG_SIZE)
      /\ code[2] = Shift("SLL", T0, S0, PROC_USRSPACE_LOG_SIZE)
      /\ code[3] = I("LUI", FP, 0, DmaPort \div Half) /\ code[4] = I("ORI", FP, FP, DmaPort % Half)
      /\ code[5] = I("SW", T0, FP, 4) /\ code[6] = I("SW", T2, FP, 8)
      /\ code[7] = I("LUI", T0, 0, PROC_USRSPACE_SIZE \div Half)
      /\ code[8] = I("ORI", T0, T0, PROC_USRSPACE_SIZE % Half) /\ code[9] = I("SW", T0, FP, 12)
      /\ code[10] = I("ORI", T0, 0, 1) /\ code[11] = I("SW", T0, FP, 0)
  BY DEF PROC_FORK, lli
<1> HIDE DEF code
<1>3. /\ \A k \in 1..11 : CodeAt(4 * k - 4) = code[k]
      /\ CodeAt(44) = Reserved
  <2>1. PICK n \in Nat : n = 11 /\ DOMAIN code = 1..n
    BY <1>2
  <2>2. /\ \A k \in 1..n : CodeAt(4 * k - 4) = code[k]
        /\ \A p \in Nat : p >= 4 * n => CodeAt(p) = Reserved
    BY <1>1, <2>1, PlacedCode
  <2> QED
    BY <2>1, <2>2
<1>4. /\ CodeAt(0) = code[1] /\ CodeAt(4) = code[2] /\ CodeAt(8) = code[3] /\ CodeAt(12) = code[4]
      /\ CodeAt(16) = code[5] /\ CodeAt(20) = code[6] /\ CodeAt(24) = code[7]
      /\ CodeAt(28) = code[8] /\ CodeAt(32) = code[9] /\ CodeAt(36) = code[10]
      /\ CodeAt(40) = code[11]
  BY <1>3
<1> QED
  BY <1>2, <1>3, <1>4

(* The addresses of the requests and the size of a process are words.      *)
LEMMA RequestWords ==
  /\ HddPort \in Word /\ DmaPort \in Word /\ PROC \in Word /\ PROC + 4 <= MemSize /\ PROC \in Nat
  /\ PROC_USRSPACE_SIZE \in Word /\ PROC_USRSPACE_SIZE # 0
  /\ Power2[PROC_USRSPACE_LOG_SIZE] = PROC_USRSPACE_SIZE
  /\ Power2[HDD_SECT_LOG_SIZE] = SectorSize /\ SectorSize \in Nat \ {0}
<1>1. MemSize \in Nat /\ WordSpace \in Nat /\ MemSize <= WordSpace
  BY Widths, MemoryAssumption
<1>2. HddPort \in Word /\ DmaPort \in Word
  BY <1>1, Ports DEF Word
<1>3. PROC \in Word /\ PROC \in Nat /\ PROC + 4 <= MemSize
  BY <1>1, RequestsAssumption DEF Word
<1>4. PROC_USRSPACE_SIZE \in Word /\ PROC_USRSPACE_SIZE # 0
  <2>1. WordBits \in Nat /\ WordBits # 0
    BY Powers
  <2>2. PICK j \in 1..WordBits : j = PROC_USRSPACE_LOG_SIZE + 1
    BY <2>1, RequestsAssumption
  <2>3. PICK x \in Nat : x = Power2[j - 1] /\ x # 0 /\ Power2[j] = 2 * x /\ x = PROC_USRSPACE_SIZE
    <3>1. j - 1 \in 0..WordBits /\ j - 1 = PROC_USRSPACE_LOG_SIZE
      BY <2>1, <2>2, RequestsAssumption
    <3>2. Power2[j - 1] \in Nat /\ Power2[j - 1] # 0 /\ Power2[j] = 2 * Power2[j - 1]
      BY <3>1, Powers
    <3> QED
      BY <3>1, <3>2 DEF PROC_USRSPACE_SIZE
  <2>4. PICK m \in Nat : m # 0 /\ Power2[WordBits] = m * Power2[j]
    <3>1. j \in 0..WordBits /\ WordBits \in 0..WordBits /\ j <= WordBits
      BY <2>1, <2>2
    <3> QED
      BY <3>1, PowersDivide
  <2>5. WordSpace = m * (2 * x)
    BY <2>3, <2>4, MachineAssumption
  <2>6. PICK e \in Nat : m = 1 + e
    <3>1. m - 1 \in Nat
      BY <2>4
    <3> QED
      BY <3>1
  <2>7. m * (2 * x) = 2 * x + e * (2 * x) /\ e * (2 * x) \in Nat
    BY <2>6
  <2> QED
    BY <1>1, <2>3, <2>5, <2>7 DEF Word
<1> QED
  BY <1>2, <1>3, <1>4, RequestsAssumption, MemoryAssumption DEF PROC_USRSPACE_SIZE

-----------------------------------------------------------------------------
(* A file is read.                                                         *)

(* The item of the file, the name in it, who reads, where to, and what.    *)
ReadItem == start.gpr[V0]
ReadName == WordAt(start.mem, ReadItem)
Caller == WordAt(start.mem, PROC)
Buffer == ToWord(UserSpace(Caller) + start.gpr[S1])
FirstSector == WordAt(start.mem, ReadItem + 4)
Sectors == start.gpr[S2] \div SectorSize
Brought == Copy(start.mem, Buffer, start.disk, FirstSector * SectorSize, Sectors * SectorSize)

(* Memory is as it was but for the words of a port.                        *)
SameApart(port, m, n) == \A x \in 0..MemSize - 1 : x \notin port..port + 15 => m[x] = n[x]

Reading ==
  /\ gpr[0] = 0 /\ gpr[V0] = ReadItem /\ disk = start.disk
  /\ \A r \in {S1, S2} : gpr[r] = start.gpr[r]

(* Until the first store to the port.                                      *)
Finding ==
  /\ Reading /\ mem = start.mem
  /\ \/ Here(0, 4)
     \/ Here(4, 8) /\ gpr[T0] = ReadName
     \/ Here(8, IF ReadName = 0 THEN 80 ELSE 12)
     \/ ReadName = 0 /\ Here(80, 84)
     \/ ReadName # 0 /\
          \/ Here(12, 16)
          \/ Here(16, 20) /\ gpr[FP] = UpperHalf(PROC)
          \/ Here(20, 24) /\ gpr[FP] = PROC
          \/ Here(24, 28) /\ gpr[T0] = Caller
          \/ Here(28, 32) /\ gpr[T0] = UserSpace(Caller)
          \/ gpr[T0] = Buffer /\
               \/ Here(32, 36)
               \/ Here(36, 40) /\ gpr[FP] = UpperHalf(HddPort)
               \/ Here(40, 44) /\ gpr[FP] = HddPort

(* Until the store of the command.                                         *)
Demanding ==
  /\ Reading /\ ReadName # 0 /\ gpr[FP] = HddPort
  /\ SameApart(HddPort, mem, start.mem) /\ Port(mem, HddPort, 1) = Buffer
  /\ \/ Here(44, 48)
     \/ Here(48, 52) /\ gpr[T0] = FirstSector
     \/ Port(mem, HddPort, 2) = FirstSector /\
          \/ Here(52, 56)
          \/ Here(56, 60) /\ gpr[T0] = Sectors
          \/ Port(mem, HddPort, 3) = Sectors /\ (Here(60, 64) \/ (Here(64, 68) /\ gpr[T0] = 1))

Outcome ==
  /\ disk = start.disk
  /\ IF ReadName # 0 THEN SameApart(HddPort, mem, Brought) ELSE mem = start.mem

Told == Outcome /\ gpr[V0] = IF ReadName # 0 THEN 0 ELSE WordSpace - 1

(* Until the end.                                                          *)
Concluding ==
  /\ gpr[0] = 0
  /\ \/ Outcome /\ ReadName # 0 /\ Here(68, 72)
     \/ Told /\ ReadName # 0 /\ (Here(72, 76) \/ Here(76, 84))
     \/ Told /\ Here(84, 88)

ReadInv ==
  start.name = "FS_READ" =>
    /\ cpr[GDTBASE] = 0
    /\ Finding \/ Demanding \/ Concluding \/ stop = "crash" \/ (stop = "exception" /\ Told)

(* What is read depends on the program alone.                              *)
LEMMA ReadStays ==
  ASSUME start' = start
  PROVE  /\ ReadItem' = ReadItem /\ ReadName' = ReadName /\ Caller' = Caller /\ Buffer' = Buffer
         /\ FirstSector' = FirstSector /\ Sectors' = Sectors /\ Brought' = Brought
         /\ start'.gpr = start.gpr /\ start'.mem = start.mem /\ start'.disk = start.disk
<1>1. ReadItem' = ReadItem /\ Caller' = Caller /\ Sectors' = Sectors
  BY DEF ReadItem, Caller, Sectors
<1>2. ReadName' = ReadName /\ Buffer' = Buffer /\ FirstSector' = FirstSector
  BY <1>1 DEF ReadName, Buffer, FirstSector
<1> QED
  BY <1>1, <1>2 DEF Brought

(* The operands of a read: the item is in memory, and not in the port.     *)
LEMMA ReadOperands ==
  ASSUME MInv, start.name = "FS_READ"
  PROVE  /\ ReadItem \in Nat /\ ReadItem + 8 <= MemSize /\ MemSize \in Nat
         /\ start.mem \in Bytes(MemSize) /\ start.disk \in Bytes(DiskSize)
         /\ Caller \in Word /\ UserSpace(Caller) \in Word /\ Buffer \in Word /\ FirstSector \in Word
         /\ ReadName \in Word /\ Sectors \in Word
         /\ \A m : SameApart(HddPort, m, start.mem) => WordAt(m, ReadItem + 4) = FirstSector
<1>1. /\ start.mem \in Bytes(MemSize) /\ start.disk \in Bytes(DiskSize) /\ start.gpr \in [Regs -> Word]
  BY StartsAssumption DEF MInv, Bytes
<1>2. MemSize \in Nat /\ WordSpace \in Nat /\ MemSize <= WordSpace /\ WordSpace >= 16
  BY Widths, MemoryAssumption
<1>3. ReadItem + 8 <= MemSize /\ Apart(ReadItem, 8)
  BY NamedRequests DEF MInv, ReadItem
<1>4. ReadItem \in Nat /\ start.gpr[S1] \in Nat /\ start.gpr[S2] \in Nat /\ start.gpr[S2] < WordSpace
  BY <1>1, <1>2, RequestRegisters DEF ReadItem, Word
<1>5. Caller \in Word
  BY <1>1, <1>2, RequestWords, WordRead DEF Caller
<1>6. ReadName \in Word
  <2>1. ReadItem + 4 <= MemSize
    BY <1>2, <1>3, <1>4
  <2> QED
    BY <1>1, <1>2, <1>4, <2>1, WordRead DEF ReadName
<1>7. PICK a \in Nat : a = ReadItem + 4 /\ a + 4 <= MemSize
  BY <1>2, <1>3, <1>4
<1>8. FirstSector \in Word
  BY <1>1, <1>2, <1>7, WordRead DEF FirstSector
<1>9. UserSpace(Caller) \in Word
  <2>1. Caller \in Int /\ PROC_USRSPACE_SIZE \in Int
    BY <1>2, <1>5, RequestWords DEF Word
  <2>2. Caller * PROC_USRSPACE_SIZE \in Int
    BY <2>1
  <2> QED
    BY <2>2, WordOf DEF UserSpace
<1>10. Buffer \in Word
  <2>1. UserSpace(Caller) + start.gpr[S1] \in Int
    BY <1>2, <1>4, <1>9 DEF Word
  <2> QED
    BY <2>1, WordOf DEF Buffer
<1>11. Sectors \in Word
  <2>1. PICK d \in Nat, n \in Nat : d = SectorSize /\ d # 0 /\ n = start.gpr[S2] /\ n < WordSpace
    BY <1>4, RequestWords
  <2>2. n \div d \in Nat /\ n \div d <= n
    <3>1. PICK k \in Nat : d = k + 1
      <4>1. d - 1 \in Nat
        BY <2>1
      <4> QED
        BY <4>1
    <3>2. PICK q \in Int, r \in Nat : q = n \div d /\ r = n % d /\ r < d /\ n = q * d + r
      BY <2>1, Division
    <3>3. q \in Nat
      <4> SUFFICES ASSUME q < 0 PROVE FALSE
        BY <3>2
      <4>1. PICK e \in Nat : q = -1 - e
        <5>1. -1 - q \in Nat
          BY <3>2
        <5> QED
          BY <5>1
      <4>2. PICK y \in Nat : q * d = -d - y
        <5>1. q * d = -d - e * d /\ e * d \in Nat
          BY <4>1
        <5> QED
          BY <5>1
      <4>3. n = (-d - y) + r /\ r < d
        BY <3>2, <4>2
      <4> QED
        BY <2>1, <4>3
    <3>4. q * d = q + q * k /\ q * k \in Nat
      BY <3>1, <3>3
    <3> QED
      BY <3>2, <3>3, <3>4
  <2> QED
    BY <1>2, <2>1, <2>2 DEF Sectors, Word
<1>12. ASSUME NEW m, SameApart(HddPort, m, start.mem) PROVE WordAt(m, ReadItem + 4) = FirstSector
  <2>1. \A x \in ReadItem..ReadItem + 8 - 1 : x \in 0..MemSize - 1 /\ x \notin HddPort..HddPort + 15
    BY <1>2, <1>3, <1>4 DEF Apart
  <2>2. \A x \in ReadItem..ReadItem + 8 - 1 : m[x] = start.mem[x]
    BY <1>12, <2>1 DEF SameApart
  <2>3. /\ a \in ReadItem..ReadItem + 8 - 1 /\ a + 1 \in ReadItem..ReadItem + 8 - 1
        /\ a + 2 \in ReadItem..ReadItem + 8 - 1 /\ a + 3 \in ReadItem..ReadItem + 8 - 1
    BY <1>4, <1>7
  <2>4. WordAt(m, a) = WordAt(start.mem, a)
    BY <2>2, <2>3 DEF WordAt
  <2> QED
    BY <1>7, <2>4 DEF FirstSector
<1> QED
  BY <1>1, <1>2, <1>3, <1>4, <1>5, <1>6, <1>8, <1>9, <1>10, <1>11, <1>12

(* Setting $t0 or the frame register leaves the operands alone.            *)
LEMMA ReadMoves ==
  ASSUME start' = start, Reading, NEW r \in {T0, FP}, NEW x, NEW q, Moves(r, x, q)
  PROVE  /\ Reading' /\ Here(q, q + 4)' /\ cpr' = cpr /\ mem' = mem /\ gpr'[r] = x
         /\ \A s \in {T0, FP} : s # r => gpr'[s] = gpr[s]
<1>1. /\ \A s \in {0, V0, S1, S2} : s \in Regs /\ s # r
      /\ T0 \in Regs /\ FP \in Regs
  BY RequestRegisters
<1>2. \A s \in {0, V0, S1, S2} : gpr'[s] = gpr[s]
  BY <1>1 DEF Moves
<1>3. ReadItem' = ReadItem
  BY ReadStays
<1> QED
  BY <1>1, <1>2, <1>3 DEF Moves, Reading

(* The item is looked at, and the address of the buffer computed.          *)
LEMMA FindingSteps ==
  ASSUME Untranslated, Next, start' = start, start.name = "FS_READ", Finding
  PROVE  cpr' = cpr /\ (Finding' \/ Demanding' \/ Concluding')
<1>1. /\ ReadItem' = ReadItem /\ ReadName' = ReadName /\ Caller' = Caller /\ Buffer' = Buffer
      /\ FirstSector' = FirstSector /\ Sectors' = Sectors /\ Brought' = Brought
      /\ UserSpace(Caller)' = UserSpace(Caller)
      /\ start'.gpr = start.gpr /\ start'.mem = start.mem /\ start'.disk = start.disk
  BY ReadStays
<1>2. \A q \in 0..128 : q \in Nat /\ q + 4 \in Word
  BY ProgramWidths
<1>3. Reading /\ mem = start.mem /\ gpr[0] = 0
  BY DEF Finding, Reading
<1>4. /\ 0 \in Regs /\ T0 \in Regs /\ FP \in Regs /\ V0 \in Regs /\ S1 \in Regs /\ S2 \in Regs
      /\ T0 # 0 /\ FP # 0 /\ V0 # 0
  BY RequestRegisters
<1>5. PICK n \in 0..31 : n = 0
  OBVIOUS
<1>6. CASE Here(0, 4)
  <2>1. PICK p, q \in Nat : p = 0 /\ q = 4 /\ Here(p, q) /\ q + 4 \in Word
    BY <1>2, <1>6
  <2>2. Current = I("LW", T0, V0, n)
    BY <1>5, <2>1, ReadCode DEF Current, Here, Untranslated
  <2>3. PICK a \in Nat : a = ReadItem /\ a = gpr[V0] + n /\ a + 4 <= MemSize
    BY <1>3, <1>5, ReadOperands DEF Reading, Untranslated
  <2>4. Moves(T0, WordAt(mem, a), q)
    BY <1>3, <1>4, <2>1, <2>2, <2>3, LoadsAt
  <2>5. WordAt(mem, a) = ReadName
    BY <1>3, <2>3 DEF ReadName
  <2>6. Reading' /\ Here(q, q + 4)' /\ cpr' = cpr /\ mem' = mem /\ gpr'[T0] = ReadName
    BY <1>3, <2>4, <2>5, ReadMoves
  <2>7. q + 4 = 8
    BY <2>1
  <2>8. Here(4, 8)'
    BY <2>1, <2>6, <2>7
  <2> QED
    BY <1>1, <1>3, <2>6, <2>8 DEF Finding
<1>7. CASE Here(4, 8) /\ gpr[T0] = ReadName
  <2>1. PICK a \in 0..128, b \in 1..31, op \in {"BEQ", "BNE"}, z \in Regs :
          a = 4 /\ b = 17 + 1 /\ op = "BEQ" /\ z = 0 /\ adv1 = a /\ adv2 = a + 4
    BY <1>4, <1>7 DEF Here
  <2>2. Current = I(op, z, T0, b)
    BY <2>1, ReadCode DEF Current, Untranslated
  <2>3. /\ adv1' = a + 4 /\ gpr' = gpr /\ cpr' = cpr /\ stop' = stop /\ mem' = mem /\ disk' = disk
        /\ adv2' = IF gpr[T0] = gpr[z] THEN a + 4 + 4 * b ELSE a + 8
    BY <1>4, <2>1, <2>2, Branches
  <2>4. a + 4 = 8 /\ a + 4 + 4 * b = 80 /\ a + 8 = 12
    BY <2>1
  <2>5. Here(8, IF ReadName = 0 THEN 80 ELSE 12)'
    BY <1>1, <1>3, <1>7, <2>1, <2>3, <2>4 DEF Here
  <2>6. Reading'
    BY <1>1, <1>3, <2>3 DEF Reading
  <2> QED
    BY <1>1, <1>3, <2>3, <2>5, <2>6 DEF Finding
<1>8. CASE Here(8, IF ReadName = 0 THEN 80 ELSE 12)
  <2>1. PICK p, q \in Nat :
          p = 8 /\ q = (IF ReadName = 0 THEN 80 ELSE 12) /\ Here(p, q) /\ q + 4 \in Word
    <3>1. 80 \in 0..128 /\ 12 \in 0..128
      OBVIOUS
    <3> QED
      BY <1>2, <1>8, <3>1
  <2>2. Current = Nop
    BY <2>1, ReadCode DEF Current, Here, Untranslated
  <2>3. Here(q, q + 4)' /\ cpr' = cpr /\ mem' = mem /\ disk' = disk /\ gpr' = gpr
    BY <1>3, <2>1, <2>2, WaitsAt
  <2>4. IF ReadName = 0 THEN q = 80 /\ q + 4 = 84 ELSE q = 12 /\ q + 4 = 16
    BY <2>1
  <2>5. IF ReadName = 0 THEN Here(80, 84)' ELSE Here(12, 16)'
    BY <2>3, <2>4
  <2>6. Reading'
    BY <1>1, <1>3, <2>3 DEF Reading
  <2> QED
    BY <1>1, <1>3, <2>3, <2>5, <2>6 DEF Finding
<1>9. CASE ReadName = 0 /\ Here(80, 84)
  <2>1. PICK p, q \in Nat : p = 80 /\ q = 84 /\ Here(p, q) /\ q + 4 \in Word
    BY <1>2, <1>9
  <2>2. Current = I("ADDI", V0, 0, -1)
    BY <2>1, ReadCode DEF Current, Here, Untranslated
  <2>3. Moves(V0, WordSpace - 1, q)
    BY <1>3, <1>4, <2>1, <2>2, SumsAndResults
  <2>4. q + 4 = 88
    BY <2>1
  <2>5. /\ Here(84, 88)' /\ gpr'[V0] = WordSpace - 1 /\ gpr'[0] = 0
        /\ cpr' = cpr /\ mem' = mem /\ disk' = disk
    BY <1>3, <1>4, <2>1, <2>3, <2>4 DEF Moves
  <2>6. Told'
    BY <1>1, <1>3, <1>9, <2>5 DEF Told, Outcome, Reading
  <2> QED
    BY <2>5, <2>6 DEF Concluding
<1>10. CASE ReadName # 0 /\ Here(12, 16)
  <2>1. PICK p, q \in Nat : p = 12 /\ q = 16 /\ Here(p, q) /\ q + 4 \in Word
    BY <1>2, <1>10
  <2>2. Current = I("LUI", FP, 0, PROC \div Half)
    BY <2>1, ReadCode DEF Current, Here, Untranslated
  <2>3. Moves(FP, UpperHalf(PROC), q)
    BY <1>3, <1>4, <2>1, <2>2, SetsUpper, RequestWords
  <2>4. q + 4 = 20
    BY <2>1
  <2>5. Here(16, 20)' /\ gpr'[FP] = UpperHalf(PROC)
    BY <2>1, <2>3, <2>4 DEF Moves
  <2>6. /\ Reading' /\ cpr' = cpr /\ mem' = mem
        /\ \A s \in {T0, FP} : s # FP => gpr'[s] = gpr[s]
    BY <1>3, <2>3, ReadMoves
  <2> QED
    BY <1>1, <1>10, <2>5, <2>6, RequestRegisters DEF Finding
<1>11. CASE ReadName # 0 /\ Here(16, 20) /\ gpr[FP] = UpperHalf(PROC)
  <2>1. PICK p, q \in Nat : p = 16 /\ q = 20 /\ Here(p, q) /\ q + 4 \in Word
    BY <1>2, <1>11
  <2>2. Current = I("ORI", FP, FP, PROC % Half)
    BY <2>1, ReadCode DEF Current, Here, Untranslated
  <2>3. Moves(FP, PROC, q)
    BY <1>3, <1>4, <1>11, <2>1, <2>2, SetsLower, RequestWords
  <2>4. q + 4 = 24
    BY <2>1
  <2>5. Here(20, 24)' /\ gpr'[FP] = PROC
    BY <2>1, <2>3, <2>4 DEF Moves
  <2>6. /\ Reading' /\ cpr' = cpr /\ mem' = mem
        /\ \A s \in {T0, FP} : s # FP => gpr'[s] = gpr[s]
    BY <1>3, <2>3, ReadMoves
  <2> QED
    BY <1>1, <1>11, <2>5, <2>6, RequestRegisters DEF Finding
<1>12. CASE ReadName # 0 /\ Here(20, 24) /\ gpr[FP] = PROC
  <2>1. PICK p, q \in Nat : p = 20 /\ q = 24 /\ Here(p, q) /\ q + 4 \in Word
    BY <1>2, <1>12
  <2>2. Current = I("LW", T0, FP, n)
    BY <1>5, <2>1, ReadCode DEF Current, Here, Untranslated
  <2>3. PICK a \in Nat : a = PROC /\ a = gpr[FP] + n /\ a + 4 <= MemSize
    BY <1>5, <1>12, RequestWords
  <2>4. Moves(T0, WordAt(mem, a), q)
    BY <1>3, <1>4, <2>1, <2>2, <2>3, LoadsAt
  <2>5. WordAt(mem, a) = Caller
    BY <1>3, <2>3 DEF Caller
  <2>6. Reading' /\ Here(q, q + 4)' /\ cpr' = cpr /\ mem' = mem /\ gpr'[T0] = Caller
    BY <1>3, <2>4, <2>5, ReadMoves
  <2>7. q + 4 = 28
    BY <2>1
  <2>8. Here(24, 28)'
    BY <2>1, <2>6, <2>7
  <2> QED
    BY <1>1, <1>3, <1>12, <2>6, <2>8 DEF Finding
<1>13. CASE ReadName # 0 /\ Here(24, 28) /\ gpr[T0] = Caller
  <2>1. PICK p, q \in Nat : p = 24 /\ q = 28 /\ Here(p, q) /\ q + 4 \in Word
    BY <1>2, <1>13
  <2>2. Current = Shift("SLL", T0, T0, PROC_USRSPACE_LOG_SIZE)
    BY <2>1, ReadCode DEF Current, Here, Untranslated
  <2>3. Moves(T0, ToWord(gpr[T0] * Power2[PROC_USRSPACE_LOG_SIZE]), q)
    BY <1>3, <1>4, <2>1, <2>2, ShiftsBits
  <2>4. ToWord(gpr[T0] * Power2[PROC_USRSPACE_LOG_SIZE]) = UserSpace(Caller)
    BY <1>13, RequestWords DEF UserSpace
  <2>5. q + 4 = 32
    BY <2>1
  <2>6. Here(28, 32)' /\ gpr'[T0] = UserSpace(Caller)
    BY <2>1, <2>3, <2>4, <2>5 DEF Moves
  <2>7. /\ Reading' /\ cpr' = cpr /\ mem' = mem
        /\ \A s \in {T0, FP} : s # T0 => gpr'[s] = gpr[s]
    BY <1>3, <2>3, ReadMoves
  <2> QED
    BY <1>1, <1>13, <1>3, <2>6, <2>7, RequestRegisters DEF Finding
<1>14. CASE ReadName # 0 /\ Here(28, 32) /\ gpr[T0] = UserSpace(Caller)
  <2>1. PICK p, q \in Nat : p = 28 /\ q = 32 /\ Here(p, q) /\ q + 4 \in Word
    BY <1>2, <1>14
  <2>2. Current = R("ADD", T0, T0, S1)
    BY <2>1, ReadCode DEF Current, Here, Untranslated
  <2>3. Moves(T0, ToWord(gpr[T0] + gpr[S1]), q)
    BY <1>3, <1>4, <2>1, <2>2, SumsAndResults
  <2>4. ToWord(gpr[T0] + gpr[S1]) = Buffer
    BY <1>3, <1>14 DEF Buffer, Reading
  <2>5. q + 4 = 36
    BY <2>1
  <2>6. Here(32, 36)' /\ gpr'[T0] = Buffer
    BY <2>1, <2>3, <2>4, <2>5 DEF Moves
  <2>7. /\ Reading' /\ cpr' = cpr /\ mem' = mem
        /\ \A s \in {T0, FP} : s # T0 => gpr'[s] = gpr[s]
    BY <1>3, <2>3, ReadMoves
  <2> QED
    BY <1>1, <1>14, <1>3, <2>6, <2>7, RequestRegisters DEF Finding
<1>15. CASE ReadName # 0 /\ gpr[T0] = Buffer /\ Here(32, 36)
  <2>1. PICK p, q \in Nat : p = 32 /\ q = 36 /\ Here(p, q) /\ q + 4 \in Word
    BY <1>2, <1>15
  <2>2. Current = I("LUI", FP, 0, HddPort \div Half)
    BY <2>1, ReadCode DEF Current, Here, Untranslated
  <2>3. Moves(FP, UpperHalf(HddPort), q)
    BY <1>3, <1>4, <2>1, <2>2, SetsUpper, RequestWords
  <2>4. q + 4 = 40
    BY <2>1
  <2>5. Here(36, 40)' /\ gpr'[FP] = UpperHalf(HddPort)
    BY <2>1, <2>3, <2>4 DEF Moves
  <2>6. /\ Reading' /\ cpr' = cpr /\ mem' = mem
        /\ \A s \in {T0, FP} : s # FP => gpr'[s] = gpr[s]
    BY <1>3, <2>3, ReadMoves
  <2> QED
    BY <1>1, <1>15, <2>5, <2>6, RequestRegisters DEF Finding
<1>16. CASE ReadName # 0 /\ gpr[T0] = Buffer /\ Here(36, 40) /\ gpr[FP] = UpperHalf(HddPort)
  <2>1. PICK p, q \in Nat : p = 36 /\ q = 40 /\ Here(p, q) /\ q + 4 \in Word
    BY <1>2, <1>16
  <2>2. Current = I("ORI", FP, FP, HddPort % Half)
    BY <2>1, ReadCode DEF Current, Here, Untranslated
  <2>3. Moves(FP, HddPort, q)
    BY <1>3, <1>4, <1>16, <2>1, <2>2, SetsLower, RequestWords
  <2>4. q + 4 = 44
    BY <2>1
  <2>5. Here(40, 44)' /\ gpr'[FP] = HddPort
    BY <2>1, <2>3, <2>4 DEF Moves
  <2>6. /\ Reading' /\ cpr' = cpr /\ mem' = mem
        /\ \A s \in {T0, FP} : s # FP => gpr'[s] = gpr[s]
    BY <1>3, <2>3, ReadMoves
  <2> QED
    BY <1>1, <1>16, <2>5, <2>6, RequestRegisters DEF Finding
<1>17. CASE ReadName # 0 /\ gpr[T0] = Buffer /\ Here(40, 44) /\ gpr[FP] = HddPort
  <2>1. PICK p, q \in Nat : p = 40 /\ q = 44 /\ Here(p, q) /\ q + 4 \in Word
    BY <1>2, <1>17
  <2>2. PICK k \in 1..3, port \in {HddPort, DmaPort} : k = 1 /\ 4 * k = 4 /\ port = HddPort
    OBVIOUS
  <2>3. Current = I("SW", T0, FP, 4 * k)
    BY <2>1, <2>2, ReadCode DEF Current, Here, Untranslated
  <2>4. /\ stop' = "no" /\ Advances /\ disk' = disk
        /\ \A x \in 0..MemSize - 1 : x \notin port..port + 15 => mem'[x] = mem[x]
        /\ Port(mem', port, k) = gpr[T0]
    BY <1>4, <1>17, <2>2, <2>3, StoresParameter
  <2>5. Here(q, q + 4)' /\ cpr' = cpr /\ gpr' = gpr
    BY <2>1, <2>4, StoresOn
  <2>6. q + 4 = 48
    BY <2>1
  <2>7. Here(44, 48)'
    BY <2>1, <2>5, <2>6
  <2>8. Reading'
    BY <1>1, <1>3, <2>4, <2>5 DEF Reading
  <2>9. SameApart(HddPort, mem, start.mem)' /\ Port(mem', HddPort, 1) = Buffer
    BY <1>1, <1>3, <1>17, <2>2, <2>4 DEF SameApart
  <2> QED
    BY <1>1, <1>17, <2>5, <2>7, <2>8, <2>9 DEF Demanding
<1> QED
  BY <1>6, <1>7, <1>8, <1>9, <1>10, <1>11, <1>12, <1>13, <1>14, <1>15, <1>16, <1>17 DEF Finding

(* The sector and the number of sectors are stored, and then the command:  *)
(* the sectors come to the buffer.                                         *)
LEMMA DemandingSteps ==
  ASSUME Untranslated, Next, start' = start, start.name = "FS_READ", Demanding
  PROVE  cpr' = cpr /\ (Demanding' \/ Concluding' \/ stop' = "crash")
<1>1. /\ ReadItem' = ReadItem /\ ReadName' = ReadName /\ Caller' = Caller /\ Buffer' = Buffer
      /\ FirstSector' = FirstSector /\ Sectors' = Sectors /\ Brought' = Brought
      /\ start'.gpr = start.gpr /\ start'.mem = start.mem /\ start'.disk = start.disk
  BY ReadStays
<1>2. \A q \in 0..128 : q \in Nat /\ q + 4 \in Word
  BY ProgramWidths
<1>3. /\ Reading /\ gpr[0] = 0 /\ ReadName # 0 /\ gpr[FP] = HddPort
      /\ SameApart(HddPort, mem, start.mem) /\ Port(mem, HddPort, 1) = Buffer
  BY DEF Demanding, Reading
<1>4. /\ 0 \in Regs /\ T0 \in Regs /\ FP \in Regs /\ V0 \in Regs /\ S1 \in Regs /\ S2 \in Regs
      /\ T0 # 0 /\ FP # 0 /\ V0 # 0 /\ T0 # FP
  BY RequestRegisters
<1>5. ASSUME NEW x, NEW q, Moves(T0, x, q)
      PROVE  /\ Reading' /\ Here(q, q + 4)' /\ cpr' = cpr /\ gpr'[T0] = x /\ gpr'[FP] = HddPort
             /\ SameApart(HddPort, mem, start.mem)' /\ mem' = mem
  <2>1. /\ Reading' /\ Here(q, q + 4)' /\ cpr' = cpr /\ mem' = mem /\ gpr'[T0] = x
        /\ \A s \in {T0, FP} : s # T0 => gpr'[s] = gpr[s]
    BY <1>3, <1>5, ReadMoves
  <2> QED
    BY <1>1, <1>3, <1>4, <2>1 DEF SameApart
<1>6. ASSUME NEW p, NEW q \in Nat, q + 4 \in Word, Here(p, q), NEW k \in 1..3,
             Current = I("SW", T0, FP, 4 * k)
      PROVE  /\ Reading' /\ Here(q, q + 4)' /\ cpr' = cpr /\ gpr' = gpr
             /\ SameApart(HddPort, mem, start.mem)' /\ Port(mem', HddPort, k) = gpr[T0]
             /\ \A j \in 0..3 : j # k => Port(mem', HddPort, j) = Port(mem, HddPort, j)
  <2>1. PICK port \in {HddPort, DmaPort} : port = HddPort
    OBVIOUS
  <2>2. /\ stop' = "no" /\ Advances /\ disk' = disk
        /\ \A x \in 0..MemSize - 1 : x \notin port..port + 15 => mem'[x] = mem[x]
        /\ Port(mem', port, k) = gpr[T0]
        /\ \A j \in 0..3 : j # k => Port(mem', port, j) = Port(mem, port, j)
    BY <1>3, <1>4, <1>6, <2>1, StoresParameter
  <2>3. Here(q, q + 4)' /\ cpr' = cpr /\ gpr' = gpr
    BY <1>6, <2>2, StoresOn
  <2>4. Reading'
    BY <1>1, <1>3, <2>2, <2>3 DEF Reading
  <2>5. SameApart(HddPort, mem, start.mem)'
    BY <1>1, <1>3, <2>1, <2>2 DEF SameApart
  <2> QED
    BY <2>1, <2>2, <2>3, <2>4, <2>5
<1>7. CASE Here(44, 48)
  <2>1. PICK p, q \in Nat : p = 44 /\ q = 48 /\ Here(p, q) /\ q + 4 \in Word
    BY <1>2, <1>7
  <2>2. PICK n \in 0..31 : n = 4
    OBVIOUS
  <2>3. Current = I("LW", T0, V0, n)
    BY <2>1, <2>2, ReadCode DEF Current, Here, Untranslated
  <2>4. PICK a \in Nat : a = ReadItem + 4 /\ a = gpr[V0] + n /\ a + 4 <= MemSize
    <3>1. PICK i \in Nat, s \in Nat : i = ReadItem /\ s = MemSize /\ i + 8 <= s /\ gpr[V0] = i
      BY <1>3, ReadOperands DEF Reading, Untranslated
    <3>2. i + 4 \in Nat /\ (i + 4) + 4 <= s
      BY <3>1
    <3> QED
      BY <2>2, <3>1, <3>2
  <2>5. Moves(T0, WordAt(mem, a), q)
    BY <1>3, <1>4, <2>1, <2>3, <2>4, LoadsAt
  <2>6. WordAt(mem, a) = FirstSector
    BY <1>3, <2>4, ReadOperands DEF Untranslated
  <2>7. q + 4 = 52
    BY <2>1
  <2>8. Here(48, 52)' /\ gpr'[T0] = FirstSector
    BY <2>1, <2>5, <2>6, <2>7 DEF Moves
  <2> QED
    BY <1>1, <1>3, <1>5, <2>5, <2>8 DEF Demanding
<1>8. CASE Here(48, 52) /\ gpr[T0] = FirstSector
  <2>1. PICK p, q \in Nat : p = 48 /\ q = 52 /\ Here(p, q) /\ q + 4 \in Word
    BY <1>2, <1>8
  <2>2. PICK k \in 1..3 : k = 2 /\ 4 * k = 8 /\ 1 \in 0..3 /\ 1 # k
    OBVIOUS
  <2>3. Current = I("SW", T0, FP, 4 * k)
    BY <2>1, <2>2, ReadCode DEF Current, Here, Untranslated
  <2>4. q + 4 = 56
    BY <2>1
  <2>5. Here(52, 56)' /\ Port(mem', HddPort, 2) = FirstSector /\ Port(mem', HddPort, 1) = Buffer
    BY <1>3, <1>6, <1>8, <2>1, <2>2, <2>3, <2>4
  <2> QED
    BY <1>1, <1>3, <1>6, <2>1, <2>3, <2>5 DEF Demanding
<1>9. CASE Port(mem, HddPort, 2) = FirstSector /\ Here(52, 56)
  <2>1. PICK p, q \in Nat : p = 52 /\ q = 56 /\ Here(p, q) /\ q + 4 \in Word
    BY <1>2, <1>9
  <2>2. Current = Shift("SRL", T0, S2, HDD_SECT_LOG_SIZE)
    BY <2>1, ReadCode DEF Current, Here, Untranslated
  <2>3. Moves(T0, ToWord(gpr[S2] \div Power2[HDD_SECT_LOG_SIZE]), q)
    BY <1>3, <1>4, <2>1, <2>2, ShiftsBits
  <2>4. ToWord(gpr[S2] \div Power2[HDD_SECT_LOG_SIZE]) = Sectors
    <3>1. gpr[S2] \div Power2[HDD_SECT_LOG_SIZE] = Sectors
      BY <1>3, RequestWords DEF Sectors, Reading
    <3>2. Sectors \in Word
      BY ReadOperands DEF Untranslated
    <3>3. ToWord(Sectors) = Sectors
      BY <3>2, Widths DEF ToWord, Word
    <3> QED
      BY <3>1, <3>3
  <2>5. q + 4 = 60
    BY <2>1
  <2>6. Here(56, 60)' /\ gpr'[T0] = Sectors
    BY <2>1, <2>3, <2>4, <2>5 DEF Moves
  <2> QED
    BY <1>1, <1>3, <1>5, <1>9, <2>3, <2>6 DEF Demanding
<1>10. CASE Port(mem, HddPort, 2) = FirstSector /\ Here(56, 60) /\ gpr[T0] = Sectors
  <2>1. PICK p, q \in Nat : p = 56 /\ q = 60 /\ Here(p, q) /\ q + 4 \in Word
    BY <1>2, <1>10
  <2>2. PICK k \in 1..3 : k = 3 /\ 4 * k = 12 /\ 1 \in 0..3 /\ 1 # k /\ 2 \in 0..3 /\ 2 # k
    OBVIOUS
  <2>3. Current = I("SW", T0, FP, 4 * k)
    BY <2>1, <2>2, ReadCode DEF Current, Here, Untranslated
  <2>4. q + 4 = 64
    BY <2>1
  <2>5. /\ Here(60, 64)' /\ Port(mem', HddPort, 3) = Sectors
        /\ Port(mem', HddPort, 2) = FirstSector /\ Port(mem', HddPort, 1) = Buffer
    BY <1>3, <1>6, <1>10, <2>1, <2>2, <2>3, <2>4
  <2> QED
    BY <1>1, <1>3, <1>6, <2>1, <2>3, <2>5 DEF Demanding
<1>11. CASE Port(mem, HddPort, 2) = FirstSector /\ Port(mem, HddPort, 3) = Sectors /\ Here(60, 64)
  <2>1. PICK p, q \in Nat : p = 60 /\ q = 64 /\ Here(p, q) /\ q + 4 \in Word
    BY <1>2, <1>11
  <2>2. PICK w \in 0..Half - 1 : w = 1
    BY ProgramWidths
  <2>3. Current = I("ORI", T0, 0, w)
    BY <2>1, <2>2, ReadCode DEF Current, Here, Untranslated
  <2>4. Moves(T0, w, q)
    BY <1>3, <1>4, <2>1, <2>3, SetsNumber
  <2>5. q + 4 = 68
    BY <2>1
  <2>6. Here(64, 68)' /\ gpr'[T0] = 1
    BY <2>1, <2>2, <2>4, <2>5 DEF Moves
  <2> QED
    BY <1>1, <1>3, <1>5, <1>11, <2>4, <2>6 DEF Demanding
<1>12. CASE /\ Port(mem, HddPort, 2) = FirstSector /\ Port(mem, HddPort, 3) = Sectors
            /\ Here(64, 68) /\ gpr[T0] = 1
  <2>1. PICK p, q \in Nat : p = 64 /\ q = 68 /\ Here(p, q) /\ q + 4 \in Word
    BY <1>2, <1>12
  <2>2. PICK port \in {HddPort, DmaPort} : port = HddPort /\ HddPort # DmaPort
    BY Ports
  <2>3. Current = I("SW", T0, FP, 0)
    BY <2>1, ReadCode DEF Current, Here, Untranslated
  <2>4. /\ stop = "no" /\ Advances
        /\ \E m \in Bytes(MemSize) :
             /\ \A x \in 0..MemSize - 1 : x \notin port..port + 15 => m[x] = mem[x]
             /\ Port(m, port, 0) = gpr[T0]
             /\ \A j \in 1..3 : Port(m, port, j) = Port(mem, port, j)
             /\ \/ stop' = "crash"
                \/ stop' = "no" /\ port = HddPort /\ gpr[T0] = 1 /\ HddRead(m)
                \/ stop' = "no" /\ port = HddPort /\ gpr[T0] = 2 /\ HddWrite(m)
                \/ stop' = "no" /\ port = DmaPort /\ gpr[T0] = 1 /\ DmaCopy(m)
                \/ gpr[T0] \notin {1, 2} \/ (port = DmaPort /\ gpr[T0] # 1)
    BY <1>3, <1>4, <2>2, <2>3, StoresCommand
  <2>5. PICK m \in Bytes(MemSize) :
          /\ \A x \in 0..MemSize - 1 : x \notin HddPort..HddPort + 15 => m[x] = mem[x]
          /\ \A j \in 1..3 : Port(m, HddPort, j) = Port(mem, HddPort, j)
          /\ stop' = "crash" \/ (stop' = "no" /\ HddRead(m))
    BY <1>12, <2>2, <2>4
  <2>6. cpr' = cpr
    BY <2>4 DEF Advances
  <2>7. CASE stop' = "no" /\ HddRead(m)
    <3>1. mem' = Copy(m, Buffer, disk, FirstSector * SectorSize, Sectors * SectorSize) /\ disk' = disk
      <4>1. 1 \in 1..3 /\ 2 \in 1..3 /\ 3 \in 1..3
        OBVIOUS
      <4>2. /\ Port(m, HddPort, 1) = Buffer /\ Port(m, HddPort, 2) = FirstSector
            /\ Port(m, HddPort, 3) = Sectors
        BY <1>3, <1>12, <2>5, <4>1
      <4> QED
        BY <2>7, <4>2 DEF HddRead, HddRequest
    <3>2. Here(68, 72)' /\ gpr' = gpr
      <4>1. Here(q, q + 4)' /\ gpr' = gpr
        BY <2>1, <2>4, <2>7, StoresOn
      <4>2. q + 4 = 72
        BY <2>1
      <4> QED
        BY <2>1, <4>1, <4>2
    <3>3. SameApart(HddPort, mem', Brought)
      <4> SUFFICES ASSUME NEW x \in 0..MemSize - 1, x \notin HddPort..HddPort + 15
                   PROVE  mem'[x] = Brought[x]
        BY DEF SameApart
      <4>1. m[x] = start.mem[x]
        BY <1>3, <2>5 DEF SameApart
      <4>2. x \in DOMAIN m /\ x \in DOMAIN start.mem
        BY ReadOperands DEF Bytes, Untranslated
      <4>3. disk = start.disk
        BY <1>3 DEF Reading
      <4> QED
        BY <3>1, <4>1, <4>2, <4>3 DEF Copy, Brought
    <3>4. Outcome'
      BY <1>1, <1>3, <3>1, <3>3 DEF Outcome, SameApart, Reading
    <3> QED
      BY <1>1, <1>3, <2>6, <3>2, <3>4 DEF Concluding
  <2> QED
    BY <2>5, <2>6, <2>7
<1> QED
  BY <1>7, <1>8, <1>9, <1>10, <1>11, <1>12 DEF Demanding

(* The result is told, at the end of the read.                             *)
LEMMA ConcludingSteps ==
  ASSUME Untranslated, Next, start' = start, start.name = "FS_READ", Concluding
  PROVE  cpr' = cpr /\ (Concluding' \/ (stop' = "exception" /\ Told'))
<1>1. ReadName' = ReadName /\ Brought' = Brought /\ start'.mem = start.mem /\ start'.disk = start.disk
  BY ReadStays
<1>2. \A q \in 0..128 : q \in Nat /\ q + 4 \in Word
  BY ProgramWidths
<1>3. gpr[0] = 0 /\ 0 \in Regs /\ V0 \in Regs /\ V0 # 0
  BY RequestRegisters DEF Concluding
<1>4. ASSUME Outcome, mem' = mem, disk' = disk PROVE Outcome'
  BY <1>1, <1>4 DEF Outcome, SameApart
<1>5. ASSUME Told, mem' = mem, disk' = disk, gpr' = gpr PROVE Told'
  BY <1>1, <1>4, <1>5 DEF Told
<1>6. CASE Outcome /\ ReadName # 0 /\ Here(68, 72)
  <2>1. PICK p, q \in Nat : p = 68 /\ q = 72 /\ Here(p, q) /\ q + 4 \in Word
    BY <1>2, <1>6
  <2>2. Current = R("AND", V0, 0, 0)
    BY <2>1, ReadCode DEF Current, Here, Untranslated
  <2>3. Moves(V0, 0, q)
    BY <1>3, <2>1, <2>2, SumsAndResults
  <2>4. q + 4 = 76
    BY <2>1
  <2>5. /\ Here(72, 76)' /\ gpr'[V0] = 0 /\ gpr'[0] = 0
        /\ cpr' = cpr /\ mem' = mem /\ disk' = disk
    BY <1>3, <2>1, <2>3, <2>4 DEF Moves
  <2>6. Told'
    BY <1>1, <1>4, <1>6, <2>5 DEF Told
  <2> QED
    BY <1>1, <1>6, <2>5, <2>6 DEF Concluding
<1>7. CASE Told /\ ReadName # 0 /\ Here(72, 76)
  <2>1. PICK n \in 0..31 : n = 21 /\ 4 * n = 84
    OBVIOUS
  <2>2. Current = [Nop EXCEPT !.op = "J", !.im = n]
    BY <1>7, <2>1, ReadCode DEF Current, Here, Untranslated
  <2>3. /\ adv1' = adv2 /\ adv2' = 4 * n /\ gpr' = gpr /\ cpr' = cpr /\ stop' = stop
        /\ mem' = mem /\ disk' = disk
    BY <2>2, Jumps
  <2>4. Here(76, 84)' /\ Told'
    BY <1>5, <1>7, <2>1, <2>3 DEF Here
  <2> QED
    BY <1>1, <1>3, <1>7, <2>3, <2>4 DEF Concluding
<1>8. CASE Told /\ ReadName # 0 /\ Here(76, 84)
  <2>1. PICK p, q \in Nat : p = 76 /\ q = 84 /\ Here(p, q) /\ q + 4 \in Word
    BY <1>2, <1>8
  <2>2. Current = Nop
    BY <2>1, ReadCode DEF Current, Here, Untranslated
  <2>3. Here(q, q + 4)' /\ cpr' = cpr /\ mem' = mem /\ disk' = disk /\ gpr' = gpr
    BY <1>3, <2>1, <2>2, WaitsAt
  <2>4. q + 4 = 88
    BY <2>1
  <2>5. Here(84, 88)' /\ Told'
    BY <1>5, <1>8, <2>1, <2>3, <2>4
  <2> QED
    BY <1>3, <2>3, <2>5 DEF Concluding
<1>9. CASE Told /\ Here(84, 88)
  <2>1. Current = Reserved
    BY <1>9, ReadCode DEF Current, Here, Untranslated
  <2>2. stop' = "exception" /\ cpr' = cpr /\ gpr' = gpr /\ mem' = mem /\ disk' = disk
    BY <2>1, Ending DEF storage
  <2> QED
    BY <1>5, <1>9, <2>2
<1> QED
  BY <1>6, <1>7, <1>8, <1>9 DEF Concluding

(* Every step of a read keeps to it.                                       *)
LEMMA ReadSteps == MInv /\ ReadInv /\ [Next]_vars => ReadInv'
<1>1. CASE UNCHANGED vars
  <2>1. /\ start' = start /\ gpr' = gpr /\ mem' = mem /\ disk' = disk /\ cpr' = cpr /\ stop' = stop
        /\ adv1' = adv1 /\ adv2' = adv2
    BY <1>1 DEF vars, pipeline, storage
  <2>2. /\ ReadItem' = ReadItem /\ ReadName' = ReadName /\ Caller' = Caller /\ Buffer' = Buffer
        /\ FirstSector' = FirstSector /\ Sectors' = Sectors /\ Brought' = Brought
        /\ UserSpace(Caller)' = UserSpace(Caller)
        /\ start'.gpr = start.gpr /\ start'.mem = start.mem /\ start'.disk = start.disk
    BY <2>1, ReadStays
  <2>3. \A a, b : Here(a, b)' = Here(a, b)
    BY <2>1 DEF Here
  <2>4. Reading' = Reading /\ Outcome' = Outcome /\ Told' = Told
    BY <2>1, <2>2 DEF Reading, Outcome, Told, SameApart
  <2>5. Finding' = Finding /\ Demanding' = Demanding /\ Concluding' = Concluding
    BY <2>1, <2>2, <2>3, <2>4 DEF Finding, Demanding, Concluding, SameApart
  <2> QED
    BY <2>1, <2>4, <2>5 DEF ReadInv
<1>2. ASSUME MInv, ReadInv, Next PROVE ReadInv'
  <2> SUFFICES ASSUME start'.name = "FS_READ" PROVE ReadInv'
    BY DEF ReadInv
  <2>1. start' = start
    BY <1>2, StartStays
  <2>2. start.name = "FS_READ" /\ Untranslated
    BY <1>2, <2>1 DEF ReadInv, Untranslated
  <2>3. stop = "no"
    BY <1>2, <2>2, ExecutesCurrent
  <2>4. CASE Finding
    <3>1. cpr' = cpr /\ (Finding' \/ Demanding' \/ Concluding')
      BY <1>2, <2>1, <2>2, <2>4, FindingSteps
    <3> QED
      BY <2>2, <3>1 DEF ReadInv, Untranslated
  <2>5. CASE Demanding
    <3>1. cpr' = cpr /\ (Demanding' \/ Concluding' \/ stop' = "crash")
      BY <1>2, <2>1, <2>2, <2>5, DemandingSteps
    <3> QED
      BY <2>2, <3>1 DEF ReadInv, Untranslated
  <2>6. CASE Concluding
    <3>1. cpr' = cpr /\ (Concluding' \/ (stop' = "exception" /\ Told'))
      BY <1>2, <2>1, <2>2, <2>6, ConcludingSteps
    <3> QED
      BY <2>2, <3>1 DEF ReadInv, Untranslated
  <2> QED
    BY <1>2, <2>2, <2>3, <2>4, <2>5, <2>6 DEF ReadInv
<1> QED
  BY <1>1, <1>2

(* A read brings the first sectors of the file, as many as are whole in    *)
(* the count of bytes, to the buffer in the memory of the caller and       *)
(* returns 0, or returns -1 and changes nothing if there is no such file   *)
(* (filesystem.lib:170-188), for sectors, memories and disks of any size;  *)
(* a request beyond memory or disk is a crash.                             *)
THEOREM FilesAreRead == Spec => []ReadsFile
<1>1. Init => ReadInv
  <2> SUFFICES ASSUME Init, start.name = "FS_READ" PROVE ReadInv
    BY DEF ReadInv
  <2>1. MInv
    BY MInvInit
  <2>2. Begins(start, FS_READ)
    BY <2>1, NamedRequests DEF MInv
  <2>3. /\ Untranslated /\ stop = "no" /\ adv1 = 0 /\ adv2 = 4
        /\ gpr = start.gpr /\ mem = start.mem /\ disk = start.disk
    BY <2>2, Beginning
  <2>4. start.gpr[0] = 0
    BY <2>2 DEF Begins
  <2>5. Finding
    BY <2>3, <2>4 DEF Finding, Reading, ReadItem, Here
  <2> QED
    BY <2>3, <2>5 DEF ReadInv, Untranslated
<1>2. MInv /\ ReadInv => ReadsFile
  <2> SUFFICES ASSUME MInv, ReadInv, Ended("FS_READ") PROVE ReadsFile
    BY DEF ReadsFile
  <2>1. Told /\ start.name = "FS_READ"
    BY DEF Ended, ReadInv, Finding, Demanding, Concluding, Here
  <2>2. DOMAIN mem = 0..MemSize - 1 /\ DOMAIN Brought = 0..MemSize - 1
    BY <2>1, Storage, ReadOperands DEF Bytes, Brought, Copy
  <2>3. ReadName # 0 => Elsewhere(HddPort, mem) = Elsewhere(HddPort, Brought)
    <3> SUFFICES ASSUME ReadName # 0 PROVE Elsewhere(HddPort, mem) = Elsewhere(HddPort, Brought)
      OBVIOUS
    <3>1. \A a \in 0..MemSize - 1 : a \notin HddPort..HddPort + 15 => mem[a] = Brought[a]
      BY <2>1 DEF Told, Outcome, SameApart
    <3> HIDE DEF Brought
    <3> QED
      BY <2>2, <3>1 DEF Elsewhere
  <2>4. /\ gpr[V0] = IF ReadName # 0 THEN 0 ELSE WordSpace - 1
        /\ IF ReadName # 0 THEN Elsewhere(HddPort, mem) = Elsewhere(HddPort, Brought) ELSE mem = start.mem
        /\ disk = start.disk
    BY <2>1, <2>3 DEF Told, Outcome
  <2> QED
    BY <2>4, Zenon DEF ReadsFile, ReadName, ReadItem, Brought, Buffer, Caller, FirstSector, Sectors
<1> QED
  BY <1>1, <1>2, ReadSteps, MInvInit, MInvNext, PTL DEF Spec

-----------------------------------------------------------------------------
(* A process is forked.                                                    *)

(* Where the memory of the two processes begins.                           *)
Parent == start.gpr[T2] * PROC_USRSPACE_SIZE
Child == start.gpr[S0] * PROC_USRSPACE_SIZE

Forking == gpr[0] = 0 /\ gpr[S0] = start.gpr[S0] /\ disk = start.disk

(* Until the first store to the port.                                      *)
Placing ==
  /\ Forking /\ mem = start.mem
  /\ \/ gpr[T2] = start.gpr[T2] /\ Here(0, 4)
     \/ gpr[T2] = Parent /\
          \/ Here(4, 8)
          \/ gpr[T0] = Child /\
               \/ Here(8, 12)
               \/ Here(12, 16) /\ gpr[FP] = UpperHalf(DmaPort)
               \/ Here(16, 20) /\ gpr[FP] = DmaPort

(* Until the store of the command.                                         *)
Ordering ==
  /\ Forking /\ gpr[FP] = DmaPort
  /\ SameApart(DmaPort, mem, start.mem) /\ Port(mem, DmaPort, 1) = Child
  /\ \/ gpr[T2] = Parent /\ Here(20, 24)
     \/ Port(mem, DmaPort, 2) = Parent /\
          \/ Here(24, 28)
          \/ Here(28, 32) /\ gpr[T0] = UpperHalf(PROC_USRSPACE_SIZE)
          \/ Here(32, 36) /\ gpr[T0] = PROC_USRSPACE_SIZE
          \/ Port(mem, DmaPort, 3) = PROC_USRSPACE_SIZE /\
               (Here(36, 40) \/ (Here(40, 44) /\ gpr[T0] = 1))

Twins ==
  /\ \A k \in 0..PROC_USRSPACE_SIZE - 1 : mem[Child + k] = mem[Parent + k]
  /\ \A x \in 0..MemSize - 1 :
       x \notin DmaPort..DmaPort + 15 /\ x \notin Child..Child + PROC_USRSPACE_SIZE - 1 =>
         mem[x] = start.mem[x]
  /\ disk = start.disk

ForkInv ==
  start.name = "PROC_FORK" =>
    /\ cpr[GDTBASE] = 0
    /\ \/ Placing \/ Ordering \/ (Twins /\ Here(44, 48))
       \/ stop = "crash" \/ (stop = "exception" /\ Twins)

(* The memories of two processes are in memory and do not overlap.         *)
LEMMA ForkOperands ==
  ASSUME MInv, start.name = "PROC_FORK"
  PROVE  /\ Parent \in Word /\ Child \in Word /\ Parent \in Nat /\ Child \in Nat /\ MemSize \in Nat
         /\ PROC_USRSPACE_SIZE \in Nat
         /\ Parent + PROC_USRSPACE_SIZE <= MemSize /\ Child + PROC_USRSPACE_SIZE <= MemSize
         /\ Parent + PROC_USRSPACE_SIZE <= Child \/ Child + PROC_USRSPACE_SIZE <= Parent
         /\ start.mem \in Bytes(MemSize)
<1>1. /\ start.mem \in Bytes(MemSize) /\ start.gpr \in [Regs -> Word]
  BY StartsAssumption DEF MInv, Bytes
<1>2. MemSize \in Nat /\ WordSpace \in Nat /\ MemSize <= WordSpace
  BY Widths, MemoryAssumption
<1>3. PICK s \in Nat : s = PROC_USRSPACE_SIZE /\ s # 0
  BY <1>2, RequestWords DEF Word
<1>4. PICK p \in Nat, c \in Nat : p = start.gpr[T2] /\ c = start.gpr[S0] /\ p # c
  <2>1. start.gpr[T2] \in Nat /\ start.gpr[S0] \in Nat
    BY <1>1, <1>2, RequestRegisters DEF Word
  <2> QED
    BY <2>1, NamedRequests DEF MInv
<1>5. (p + 1) * s <= MemSize /\ (c + 1) * s <= MemSize
  BY <1>3, <1>4, NamedRequests DEF MInv
<1>6. (p + 1) * s = p * s + s /\ (c + 1) * s = c * s + s /\ p * s \in Nat /\ c * s \in Nat
  OBVIOUS
<1>7. \A i, j \in Nat : i < j => i * s + s <= j * s
  <2> SUFFICES ASSUME NEW i \in Nat, NEW j \in Nat, i < j PROVE i * s + s <= j * s
    OBVIOUS
  <2>1. PICK d \in Nat : j = i + 1 + d
    <3>1. j - i - 1 \in Nat
      OBVIOUS
    <3> QED
      BY <3>1
  <2>2. j * s = i * s + s + d * s /\ d * s \in Nat /\ i * s \in Nat
    BY <2>1
  <2> QED
    BY <2>2
<1>8. p * s + s <= c * s \/ c * s + s <= p * s
  <2>1. p < c \/ c < p
    BY <1>4
  <2> QED
    BY <1>7, <2>1
<1>9. Parent = p * s /\ Child = c * s
  BY <1>3, <1>4 DEF Parent, Child
<1>10. PICK u \in Nat, v \in Nat :
         /\ u = Parent /\ v = Child /\ u + s <= MemSize /\ v + s <= MemSize
         /\ u + s <= v \/ v + s <= u
  BY <1>5, <1>6, <1>8, <1>9
<1>11. u \in Word /\ v \in Word
  BY <1>2, <1>3, <1>10 DEF Word
<1> QED
  BY <1>1, <1>2, <1>3, <1>10, <1>11

(* The memories of the processes depend on the program alone.              *)
LEMMA ForkStays ==
  ASSUME start' = start
  PROVE  /\ Parent' = Parent /\ Child' = Child
         /\ start'.gpr = start.gpr /\ start'.mem = start.mem /\ start'.disk = start.disk
BY DEF Parent, Child

(* Setting a register leaves the rest of a fork alone.                     *)
LEMMA ForkMoves ==
  ASSUME start' = start, Forking, NEW r \in {T0, T2, FP}, NEW x, NEW q, Moves(r, x, q)
  PROVE  /\ Forking' /\ Here(q, q + 4)' /\ cpr' = cpr /\ mem' = mem /\ gpr'[r] = x
         /\ \A s \in {T0, T2, FP} : s # r => gpr'[s] = gpr[s]
<1>1. /\ \A s \in {0, S0} : s \in Regs /\ s # r
      /\ T0 \in Regs /\ T2 \in Regs /\ FP \in Regs
  BY RequestRegisters
<1>2. \A s \in {0, S0} : gpr'[s] = gpr[s]
  BY <1>1 DEF Moves
<1> QED
  BY <1>1, <1>2 DEF Moves, Forking

(* The addresses are computed from the numbers of the processes.           *)
LEMMA PlacingSteps ==
  ASSUME Untranslated, Next, start' = start, start.name = "PROC_FORK", Placing
  PROVE  cpr' = cpr /\ (Placing' \/ Ordering')
<1>1. /\ Parent' = Parent /\ Child' = Child
      /\ start'.gpr = start.gpr /\ start'.mem = start.mem /\ start'.disk = start.disk
  BY ForkStays
<1>2. \A q \in 0..128 : q \in Nat /\ q + 4 \in Word
  BY ProgramWidths
<1>3. Forking /\ mem = start.mem /\ gpr[0] = 0 /\ gpr[S0] = start.gpr[S0]
  BY DEF Placing, Forking
<1>4. /\ 0 \in Regs /\ T0 \in Regs /\ T2 \in Regs /\ FP \in Regs /\ S0 \in Regs
      /\ T0 # 0 /\ FP # 0 /\ T2 # 0 /\ T0 # FP /\ T0 # T2 /\ T2 # FP
  BY RequestRegisters
<1>5. ASSUME NEW r \in {T0, T2, FP}, NEW x, NEW q, Moves(r, x, q)
      PROVE  /\ Forking' /\ cpr' = cpr /\ mem' = mem
             /\ \A s \in {T0, T2, FP} : s # r => gpr'[s] = gpr[s]
  BY <1>3, <1>5, ForkMoves
<1>6. CASE gpr[T2] = start.gpr[T2] /\ Here(0, 4)
  <2>1. PICK p, q \in Nat : p = 0 /\ q = 4 /\ Here(p, q) /\ q + 4 \in Word
    BY <1>2, <1>6
  <2>2. Current = Shift("SLL", T2, T2, PROC_USRSPACE_LOG_SIZE)
    BY <2>1, ForkCode DEF Current, Here, Untranslated
  <2>3. Moves(T2, ToWord(gpr[T2] * Power2[PROC_USRSPACE_LOG_SIZE]), q)
    BY <1>3, <1>4, <2>1, <2>2, ShiftsBits
  <2>4. ToWord(gpr[T2] * Power2[PROC_USRSPACE_LOG_SIZE]) = Parent
    <3>1. gpr[T2] * Power2[PROC_USRSPACE_LOG_SIZE] = Parent
      BY <1>6, RequestWords DEF Parent
    <3>2. Parent \in Word
      BY ForkOperands DEF Untranslated
    <3>3. ToWord(Parent) = Parent
      BY <3>2, Widths DEF ToWord, Word
    <3> QED
      BY <3>1, <3>3
  <2>5. q + 4 = 8
    BY <2>1
  <2>6. Here(4, 8)' /\ gpr'[T2] = Parent
    BY <2>1, <2>3, <2>4, <2>5 DEF Moves
  <2> QED
    BY <1>1, <1>3, <1>4, <1>5, <1>6, <2>3, <2>6 DEF Placing
<1>7. CASE gpr[T2] = Parent /\ Here(4, 8)
  <2>1. PICK p, q \in Nat : p = 4 /\ q = 8 /\ Here(p, q) /\ q + 4 \in Word
    BY <1>2, <1>7
  <2>2. Current = Shift("SLL", T0, S0, PROC_USRSPACE_LOG_SIZE)
    BY <2>1, ForkCode DEF Current, Here, Untranslated
  <2>3. Moves(T0, ToWord(gpr[S0] * Power2[PROC_USRSPACE_LOG_SIZE]), q)
    BY <1>3, <1>4, <2>1, <2>2, ShiftsBits
  <2>4. ToWord(gpr[S0] * Power2[PROC_USRSPACE_LOG_SIZE]) = Child
    <3>1. gpr[S0] * Power2[PROC_USRSPACE_LOG_SIZE] = Child
      BY <1>3, RequestWords DEF Child
    <3>2. Child \in Word
      BY ForkOperands DEF Untranslated
    <3>3. ToWord(Child) = Child
      BY <3>2, Widths DEF ToWord, Word
    <3> QED
      BY <3>1, <3>3
  <2>5. q + 4 = 12
    BY <2>1
  <2>6. Here(8, 12)' /\ gpr'[T0] = Child
    BY <2>1, <2>3, <2>4, <2>5 DEF Moves
  <2> QED
    BY <1>1, <1>3, <1>4, <1>5, <1>7, <2>3, <2>6 DEF Placing
<1>8. CASE gpr[T2] = Parent /\ gpr[T0] = Child /\ Here(8, 12)
  <2>1. PICK p, q \in Nat : p = 8 /\ q = 12 /\ Here(p, q) /\ q + 4 \in Word
    BY <1>2, <1>8
  <2>2. Current = I("LUI", FP, 0, DmaPort \div Half)
    BY <2>1, ForkCode DEF Current, Here, Untranslated
  <2>3. Moves(FP, UpperHalf(DmaPort), q)
    BY <1>3, <1>4, <2>1, <2>2, SetsUpper, RequestWords
  <2>4. q + 4 = 16
    BY <2>1
  <2>5. Here(12, 16)' /\ gpr'[FP] = UpperHalf(DmaPort)
    BY <2>1, <2>3, <2>4 DEF Moves
  <2> QED
    BY <1>1, <1>3, <1>4, <1>5, <1>8, <2>3, <2>5 DEF Placing
<1>9. CASE gpr[T2] = Parent /\ gpr[T0] = Child /\ Here(12, 16) /\ gpr[FP] = UpperHalf(DmaPort)
  <2>1. PICK p, q \in Nat : p = 12 /\ q = 16 /\ Here(p, q) /\ q + 4 \in Word
    BY <1>2, <1>9
  <2>2. Current = I("ORI", FP, FP, DmaPort % Half)
    BY <2>1, ForkCode DEF Current, Here, Untranslated
  <2>3. Moves(FP, DmaPort, q)
    BY <1>3, <1>4, <1>9, <2>1, <2>2, SetsLower, RequestWords
  <2>4. q + 4 = 20
    BY <2>1
  <2>5. Here(16, 20)' /\ gpr'[FP] = DmaPort
    BY <2>1, <2>3, <2>4 DEF Moves
  <2> QED
    BY <1>1, <1>3, <1>4, <1>5, <1>9, <2>3, <2>5 DEF Placing
<1>10. CASE gpr[T2] = Parent /\ gpr[T0] = Child /\ Here(16, 20) /\ gpr[FP] = DmaPort
  <2>1. PICK p, q \in Nat : p = 16 /\ q = 20 /\ Here(p, q) /\ q + 4 \in Word
    BY <1>2, <1>10
  <2>2. PICK k \in 1..3, port \in {HddPort, DmaPort} : k = 1 /\ 4 * k = 4 /\ port = DmaPort
    OBVIOUS
  <2>3. Current = I("SW", T0, FP, 4 * k)
    BY <2>1, <2>2, ForkCode DEF Current, Here, Untranslated
  <2>4. /\ stop' = "no" /\ Advances /\ disk' = disk
        /\ \A x \in 0..MemSize - 1 : x \notin port..port + 15 => mem'[x] = mem[x]
        /\ Port(mem', port, k) = gpr[T0]
    BY <1>4, <1>10, <2>2, <2>3, StoresParameter
  <2>5. Here(q, q + 4)' /\ cpr' = cpr /\ gpr' = gpr
    BY <2>1, <2>4, StoresOn
  <2>6. q + 4 = 24
    BY <2>1
  <2>7. Here(20, 24)'
    BY <2>1, <2>5, <2>6
  <2>8. Forking'
    BY <1>1, <1>3, <2>4, <2>5 DEF Forking
  <2>9. SameApart(DmaPort, mem, start.mem)' /\ Port(mem', DmaPort, 1) = Child
    BY <1>1, <1>3, <1>10, <2>2, <2>4 DEF SameApart
  <2> QED
    BY <1>1, <1>10, <2>5, <2>7, <2>8, <2>9 DEF Ordering
<1> QED
  BY <1>6, <1>7, <1>8, <1>9, <1>10 DEF Placing

(* The parameters are stored, and then the command, which copies.          *)
LEMMA OrderingSteps ==
  ASSUME Untranslated, Next, start' = start, start.name = "PROC_FORK", Ordering
  PROVE  cpr' = cpr /\ (Ordering' \/ (Twins /\ Here(44, 48))' \/ stop' = "crash")
<1>1. /\ Parent' = Parent /\ Child' = Child
      /\ start'.gpr = start.gpr /\ start'.mem = start.mem /\ start'.disk = start.disk
  BY ForkStays
<1>2. \A q \in 0..128 : q \in Nat /\ q + 4 \in Word
  BY ProgramWidths
<1>3. /\ Forking /\ gpr[0] = 0 /\ gpr[FP] = DmaPort
      /\ SameApart(DmaPort, mem, start.mem) /\ Port(mem, DmaPort, 1) = Child
  BY DEF Ordering, Forking
<1>4. /\ 0 \in Regs /\ T0 \in Regs /\ T2 \in Regs /\ FP \in Regs /\ S0 \in Regs
      /\ T0 # 0 /\ FP # 0 /\ T2 # 0 /\ T0 # FP /\ T0 # T2 /\ T2 # FP
  BY RequestRegisters
<1>5. ASSUME NEW x, NEW q, Moves(T0, x, q)
      PROVE  /\ Forking' /\ cpr' = cpr /\ mem' = mem /\ gpr'[FP] = DmaPort
             /\ SameApart(DmaPort, mem, start.mem)'
  <2>1. Forking' /\ cpr' = cpr /\ mem' = mem /\ gpr'[FP] = gpr[FP]
    BY <1>3, <1>4, <1>5, ForkMoves
  <2> QED
    BY <1>1, <1>3, <2>1 DEF SameApart
<1>6. ASSUME NEW r \in {T0, T2}, NEW p, NEW q \in Nat, q + 4 \in Word, Here(p, q), NEW k \in 1..3,
             Current = I("SW", r, FP, 4 * k)
      PROVE  /\ Forking' /\ Here(q, q + 4)' /\ cpr' = cpr /\ gpr' = gpr
             /\ SameApart(DmaPort, mem, start.mem)' /\ Port(mem', DmaPort, k) = gpr[r]
             /\ \A j \in 0..3 : j # k => Port(mem', DmaPort, j) = Port(mem, DmaPort, j)
  <2>1. PICK port \in {HddPort, DmaPort} : port = DmaPort
    OBVIOUS
  <2>2. r \in Regs
    BY <1>4
  <2>3. /\ stop' = "no" /\ Advances /\ disk' = disk
        /\ \A x \in 0..MemSize - 1 : x \notin port..port + 15 => mem'[x] = mem[x]
        /\ Port(mem', port, k) = gpr[r]
        /\ \A j \in 0..3 : j # k => Port(mem', port, j) = Port(mem, port, j)
    BY <1>3, <1>4, <1>6, <2>1, <2>2, StoresParameter
  <2>4. Here(q, q + 4)' /\ cpr' = cpr /\ gpr' = gpr
    BY <1>6, <2>3, StoresOn
  <2>5. Forking'
    BY <1>1, <1>3, <2>3, <2>4 DEF Forking
  <2>6. SameApart(DmaPort, mem, start.mem)'
    BY <1>1, <1>3, <2>1, <2>3 DEF SameApart
  <2> QED
    BY <2>1, <2>3, <2>4, <2>5, <2>6
<1>7. CASE gpr[T2] = Parent /\ Here(20, 24)
  <2>1. PICK p, q \in Nat : p = 20 /\ q = 24 /\ Here(p, q) /\ q + 4 \in Word
    BY <1>2, <1>7
  <2>2. PICK k \in 1..3 : k = 2 /\ 4 * k = 8 /\ 1 \in 0..3 /\ 1 # k
    OBVIOUS
  <2>3. Current = I("SW", T2, FP, 4 * k)
    BY <2>1, <2>2, ForkCode DEF Current, Here, Untranslated
  <2>4. q + 4 = 28
    BY <2>1
  <2>5. Here(24, 28)' /\ Port(mem', DmaPort, 2) = Parent /\ Port(mem', DmaPort, 1) = Child
    BY <1>3, <1>6, <1>7, <2>1, <2>2, <2>3, <2>4
  <2> QED
    BY <1>1, <1>3, <1>6, <2>1, <2>3, <2>5 DEF Ordering
<1>8. CASE Port(mem, DmaPort, 2) = Parent /\ Here(24, 28)
  <2>1. PICK p, q \in Nat : p = 24 /\ q = 28 /\ Here(p, q) /\ q + 4 \in Word
    BY <1>2, <1>8
  <2>2. Current = I("LUI", T0, 0, PROC_USRSPACE_SIZE \div Half)
    BY <2>1, ForkCode DEF Current, Here, Untranslated
  <2>3. Moves(T0, UpperHalf(PROC_USRSPACE_SIZE), q)
    BY <1>3, <1>4, <2>1, <2>2, SetsUpper, RequestWords
  <2>4. q + 4 = 32
    BY <2>1
  <2>5. Here(28, 32)' /\ gpr'[T0] = UpperHalf(PROC_USRSPACE_SIZE)
    BY <2>1, <2>3, <2>4 DEF Moves
  <2> QED
    BY <1>1, <1>3, <1>4, <1>5, <1>8, <2>3, <2>5 DEF Ordering
<1>9. CASE /\ Port(mem, DmaPort, 2) = Parent /\ Here(28, 32)
           /\ gpr[T0] = UpperHalf(PROC_USRSPACE_SIZE)
  <2>1. PICK p, q \in Nat : p = 28 /\ q = 32 /\ Here(p, q) /\ q + 4 \in Word
    BY <1>2, <1>9
  <2>2. Current = I("ORI", T0, T0, PROC_USRSPACE_SIZE % Half)
    BY <2>1, ForkCode DEF Current, Here, Untranslated
  <2>3. Moves(T0, PROC_USRSPACE_SIZE, q)
    BY <1>3, <1>4, <1>9, <2>1, <2>2, SetsLower, RequestWords
  <2>4. q + 4 = 36
    BY <2>1
  <2>5. Here(32, 36)' /\ gpr'[T0] = PROC_USRSPACE_SIZE
    BY <2>1, <2>3, <2>4 DEF Moves
  <2> QED
    BY <1>1, <1>3, <1>4, <1>5, <1>9, <2>3, <2>5 DEF Ordering
<1>10. CASE Port(mem, DmaPort, 2) = Parent /\ Here(32, 36) /\ gpr[T0] = PROC_USRSPACE_SIZE
  <2>1. PICK p, q \in Nat : p = 32 /\ q = 36 /\ Here(p, q) /\ q + 4 \in Word
    BY <1>2, <1>10
  <2>2. PICK k \in 1..3 : k = 3 /\ 4 * k = 12 /\ 1 \in 0..3 /\ 1 # k /\ 2 \in 0..3 /\ 2 # k
    OBVIOUS
  <2>3. Current = I("SW", T0, FP, 4 * k)
    BY <2>1, <2>2, ForkCode DEF Current, Here, Untranslated
  <2>4. q + 4 = 40
    BY <2>1
  <2>5. /\ Here(36, 40)' /\ Port(mem', DmaPort, 3) = PROC_USRSPACE_SIZE
        /\ Port(mem', DmaPort, 2) = Parent /\ Port(mem', DmaPort, 1) = Child
    BY <1>3, <1>6, <1>10, <2>1, <2>2, <2>3, <2>4
  <2> QED
    BY <1>1, <1>3, <1>6, <2>1, <2>3, <2>5 DEF Ordering
<1>11. CASE /\ Port(mem, DmaPort, 2) = Parent /\ Port(mem, DmaPort, 3) = PROC_USRSPACE_SIZE
            /\ Here(36, 40)
  <2>1. PICK p, q \in Nat : p = 36 /\ q = 40 /\ Here(p, q) /\ q + 4 \in Word
    BY <1>2, <1>11
  <2>2. PICK w \in 0..Half - 1 : w = 1
    BY ProgramWidths
  <2>3. Current = I("ORI", T0, 0, w)
    BY <2>1, <2>2, ForkCode DEF Current, Here, Untranslated
  <2>4. Moves(T0, w, q)
    BY <1>3, <1>4, <2>1, <2>3, SetsNumber
  <2>5. q + 4 = 44
    BY <2>1
  <2>6. Here(40, 44)' /\ gpr'[T0] = 1
    BY <2>1, <2>2, <2>4, <2>5 DEF Moves
  <2> QED
    BY <1>1, <1>3, <1>5, <1>11, <2>4, <2>6 DEF Ordering
<1>12. CASE /\ Port(mem, DmaPort, 2) = Parent /\ Port(mem, DmaPort, 3) = PROC_USRSPACE_SIZE
            /\ Here(40, 44) /\ gpr[T0] = 1
  <2>1. PICK p, q \in Nat : p = 40 /\ q = 44 /\ Here(p, q) /\ q + 4 \in Word
    BY <1>2, <1>12
  <2>2. PICK port \in {HddPort, DmaPort} : port = DmaPort /\ HddPort # DmaPort
    BY Ports
  <2>3. Current = I("SW", T0, FP, 0)
    BY <2>1, ForkCode DEF Current, Here, Untranslated
  <2>4. /\ stop = "no" /\ Advances
        /\ \E m \in Bytes(MemSize) :
             /\ \A x \in 0..MemSize - 1 : x \notin port..port + 15 => m[x] = mem[x]
             /\ Port(m, port, 0) = gpr[T0]
             /\ \A j \in 1..3 : Port(m, port, j) = Port(mem, port, j)
             /\ \/ stop' = "crash"
                \/ stop' = "no" /\ port = HddPort /\ gpr[T0] = 1 /\ HddRead(m)
                \/ stop' = "no" /\ port = HddPort /\ gpr[T0] = 2 /\ HddWrite(m)
                \/ stop' = "no" /\ port = DmaPort /\ gpr[T0] = 1 /\ DmaCopy(m)
                \/ gpr[T0] \notin {1, 2} \/ (port = DmaPort /\ gpr[T0] # 1)
    BY <1>3, <1>4, <2>2, <2>3, StoresCommand
  <2>5. PICK m \in Bytes(MemSize) :
          /\ \A x \in 0..MemSize - 1 : x \notin DmaPort..DmaPort + 15 => m[x] = mem[x]
          /\ \A j \in 1..3 : Port(m, DmaPort, j) = Port(mem, DmaPort, j)
          /\ stop' = "crash" \/ (stop' = "no" /\ DmaCopy(m))
    BY <1>12, <2>2, <2>4
  <2>6. cpr' = cpr
    BY <2>4 DEF Advances
  <2>7. CASE stop' = "no" /\ DmaCopy(m)
    <3>1. PICK u \in Nat, v \in Nat, s \in Nat, z \in Nat :
            /\ u = Parent /\ v = Child /\ s = PROC_USRSPACE_SIZE /\ z = MemSize
            /\ u + s <= z /\ v + s <= z /\ (u + s <= v \/ v + s <= u)
      BY ForkOperands DEF Untranslated
    <3>2. mem' = Copy(m, v, m, u, s) /\ disk' = disk
      <4>1. 1 \in 1..3 /\ 2 \in 1..3 /\ 3 \in 1..3
        OBVIOUS
      <4>2. Port(m, DmaPort, 1) = v /\ Port(m, DmaPort, 2) = u /\ Port(m, DmaPort, 3) = s
        BY <1>3, <1>12, <2>5, <3>1, <4>1
      <4>3. ~(u < v /\ v < u + s)
        BY <3>1
      <4> QED
        BY <2>7, <4>2, <4>3 DEF DmaCopy
    <3>3. Here(44, 48)'
      <4>1. Here(q, q + 4)'
        BY <2>1, <2>4, <2>7, StoresOn
      <4>2. q + 4 = 48
        BY <2>1
      <4> QED
        BY <2>1, <4>1, <4>2
    <3>4. DOMAIN m = 0..z - 1
      BY <3>1 DEF Bytes
    <3>5. \A k \in 0..s - 1 : mem'[v + k] = m[u + k] /\ mem'[u + k] = m[u + k]
      <4> SUFFICES ASSUME NEW k \in 0..s - 1
                   PROVE  mem'[v + k] = m[u + k] /\ mem'[u + k] = m[u + k]
        OBVIOUS
      <4>1. /\ v + k \in 0..z - 1 /\ u + k \in 0..z - 1 /\ v + k \in v..v + s - 1
            /\ u + k \notin v..v + s - 1 /\ u + (v + k) - v = u + k
        BY <3>1
      <4> QED
        BY <3>2, <3>4, <4>1 DEF Copy
    <3>6. \A x \in 0..z - 1 : x \notin DmaPort..DmaPort + 15 /\ x \notin v..v + s - 1 =>
            mem'[x] = start.mem[x]
      <4> SUFFICES ASSUME NEW x \in 0..z - 1, x \notin DmaPort..DmaPort + 15, x \notin v..v + s - 1
                   PROVE  mem'[x] = start.mem[x]
        OBVIOUS
      <4>1. m[x] = start.mem[x]
        BY <1>3, <2>5, <3>1 DEF SameApart
      <4> QED
        BY <3>2, <3>4, <4>1 DEF Copy
    <3>7. Twins'
      BY <1>1, <1>3, <3>1, <3>2, <3>5, <3>6 DEF Twins, Forking
    <3> QED
      BY <2>6, <3>3, <3>7
  <2> QED
    BY <2>5, <2>6, <2>7
<1> QED
  BY <1>7, <1>8, <1>9, <1>10, <1>11, <1>12 DEF Ordering

(* Every step of a fork keeps to it.                                       *)
LEMMA ForkSteps == MInv /\ ForkInv /\ [Next]_vars => ForkInv'
<1>1. CASE UNCHANGED vars
  <2>1. /\ start' = start /\ gpr' = gpr /\ mem' = mem /\ disk' = disk /\ cpr' = cpr /\ stop' = stop
        /\ adv1' = adv1 /\ adv2' = adv2
    BY <1>1 DEF vars, pipeline, storage
  <2>2. /\ Parent' = Parent /\ Child' = Child
        /\ start'.gpr = start.gpr /\ start'.mem = start.mem /\ start'.disk = start.disk
    BY <2>1, ForkStays
  <2>3. \A a, b : Here(a, b)' = Here(a, b)
    BY <2>1 DEF Here
  <2>4. Forking' = Forking /\ Twins' = Twins
    BY <2>1, <2>2 DEF Forking, Twins
  <2>5. Placing' = Placing /\ Ordering' = Ordering
    BY <2>1, <2>2, <2>3, <2>4 DEF Placing, Ordering, SameApart
  <2> QED
    BY <2>1, <2>3, <2>4, <2>5 DEF ForkInv
<1>2. ASSUME MInv, ForkInv, Next PROVE ForkInv'
  <2> SUFFICES ASSUME start'.name = "PROC_FORK" PROVE ForkInv'
    BY DEF ForkInv
  <2>1. start' = start
    BY <1>2, StartStays
  <2>2. start.name = "PROC_FORK" /\ Untranslated
    BY <1>2, <2>1 DEF ForkInv, Untranslated
  <2>3. stop = "no"
    BY <1>2, <2>2, ExecutesCurrent
  <2>4. CASE Placing
    <3>1. cpr' = cpr /\ (Placing' \/ Ordering')
      BY <1>2, <2>1, <2>2, <2>4, PlacingSteps
    <3> QED
      BY <2>2, <3>1 DEF ForkInv, Untranslated
  <2>5. CASE Ordering
    <3>1. cpr' = cpr /\ (Ordering' \/ (Twins /\ Here(44, 48))' \/ stop' = "crash")
      BY <1>2, <2>1, <2>2, <2>5, OrderingSteps
    <3> QED
      BY <2>2, <3>1 DEF ForkInv, Untranslated
  <2>6. CASE Twins /\ Here(44, 48)
    <3>1. Current = Reserved
      BY <2>2, <2>6, ForkCode DEF Current, Here, Untranslated
    <3>2. stop' = "exception" /\ cpr' = cpr /\ mem' = mem /\ disk' = disk
      BY <1>2, <2>2, <3>1, Ending DEF storage
    <3>3. Twins'
      BY <2>1, <2>6, <3>2, ForkStays DEF Twins
    <3> QED
      BY <2>2, <3>2, <3>3 DEF ForkInv, Untranslated
  <2> QED
    BY <1>2, <2>2, <2>3, <2>4, <2>5, <2>6 DEF ForkInv
<1> QED
  BY <1>1, <1>2

(* After a fork the memory of the new process is that of its parent, and   *)
(* no other has changed (proc.lib:197-205), for any two processes and any  *)
(* size of their memories that is a power of two.                          *)
THEOREM SpacesAreCopied == Spec => []SpaceCopied
<1>1. Init => ForkInv
  <2> SUFFICES ASSUME Init, start.name = "PROC_FORK" PROVE ForkInv
    BY DEF ForkInv
  <2>1. MInv
    BY MInvInit
  <2>2. Begins(start, PROC_FORK)
    BY <2>1, NamedRequests DEF MInv
  <2>3. /\ Untranslated /\ stop = "no" /\ adv1 = 0 /\ adv2 = 4
        /\ gpr = start.gpr /\ mem = start.mem /\ disk = start.disk
    BY <2>2, Beginning
  <2>4. start.gpr[0] = 0
    BY <2>2 DEF Begins
  <2>5. Placing
    BY <2>3, <2>4 DEF Placing, Forking, Here
  <2> QED
    BY <2>3, <2>5 DEF ForkInv, Untranslated
<1>2. MInv /\ ForkInv => SpaceCopied
  <2> SUFFICES ASSUME MInv, ForkInv, Ended("PROC_FORK") PROVE SpaceCopied
    BY DEF SpaceCopied
  <2>1. Twins
    BY DEF Ended, ForkInv, Placing, Ordering, Here
  <2>2. DOMAIN mem = 0..MemSize - 1
    BY Storage DEF Bytes
  <2> QED
    BY <2>1, <2>2 DEF SpaceCopied, Twins, Parent, Child
<1> QED
  BY <1>1, <1>2, ForkSteps, MInvInit, MInvNext, PTL DEF Spec
===============================================================================
