-------------------------------- MODULE Memory --------------------------------
(***************************************************************************)
(* What the processor of the emulator reaches by loads and stores: the     *)
(* address translation of memu/mmu.c, the memory and the disk and copy     *)
(* ports of memu/mem.c, and the disk of memu/hdd.c.                        *)
(*                                                                         *)
(* Widths are parameters: a byte has values below Byte, an immediate two   *)
(* bytes and a word four.  In the emulator Byte is 256.  The speaker port, *)
(* which only starts another program, and the power port (module Cpu) are  *)
(* left out.                                                               *)
(***************************************************************************)
EXTENDS Integers

CONSTANTS
  Byte,          \* the number of values of a byte
  MemSize,       \* config.memsize
  GdtSize,       \* GDT_SIZE: the entries of a descriptor table
  HddPort,       \* sbase_offset + 0x80
  DmaPort,       \* sbase_offset + 0xA0
  SectorSize,    \* SECTOR_SIZE
  DiskSize       \* config.hdd_size

Half == Byte * Byte
WordSpace == Half * Half
Word == 0..WordSpace - 1

ASSUME MemoryAssumption ==
  /\ Byte \in Nat \ {0, 1} /\ GdtSize \in Nat /\ SectorSize \in Nat \ {0} /\ DiskSize \in Nat
  /\ MemSize \in 4..WordSpace
  /\ HddPort \in Nat /\ DmaPort \in HddPort + 16..MemSize - 16

VARIABLES
  mem,           \* the bytes of physical memory
  disk,          \* the bytes of the disk
  cpr            \* the coprocessor registers, by number

GDTBASE == 0
EPC == 1
EXL == 2
IE == 3
MMUD == 4
PFLA == 5
CprNumbers == 0..5

-----------------------------------------------------------------------------
(* Words in memory, lowest byte first.                                     *)

ByteOf(word, k) ==
  CASE k = 0 -> word % Byte
    [] k = 1 -> (word \div Byte) % Byte
    [] k = 2 -> (word \div Half) % Byte
    [] k = 3 -> word \div (Half * Byte)

WordAt(m, a) == m[a] + Byte * m[a + 1] + Half * m[a + 2] + Half * Byte * m[a + 3]

(* *(i32_t* )(paddr + membase), and *(i8_t* ) which extends the sign       *)
Read(m, paddr, len) ==
  IF len = 4 THEN WordAt(m, paddr)
  ELSE IF 2 * m[paddr] < Byte THEN m[paddr] ELSE WordSpace - Byte + m[paddr]

Put(m, paddr, len, word) ==
  [a \in DOMAIN m |-> IF a \in paddr..paddr + len - 1 THEN ByteOf(word, a - paddr) ELSE m[a]]

(* mem_read and mem_write return EXCEPTION_ADDRESS_ERROR.                  *)
AddressError(paddr, len) == paddr > MemSize - len

-----------------------------------------------------------------------------
(* mmu_addr_trans.                                                         *)

(* Word k of entry i of the descriptor table: paddr, vaddr, sz, attr.      *)
Gdt(i, k) == WordAt(mem, cpr[GDTBASE] + 16 * i + 4 * k)

(* The entry is read from memory, not from behind it.                      *)
InMemory(i) == cpr[GDTBASE] + 16 * (i + 1) <= MemSize

(* Variant: the end of a segment belongs to it. *)
MatchesEnd(i, vaddr) ==
  /\ InMemory(i)
  /\ Gdt(i, 1) <= vaddr
  /\ vaddr <= (Gdt(i, 1) + Gdt(i, 2)) % WordSpace
  /\ Gdt(i, 3) # 0

Matches(i, vaddr) ==
  /\ InMemory(i)
  /\ Gdt(i, 1) <= vaddr
  /\ vaddr < (Gdt(i, 1) + Gdt(i, 2)) % WordSpace
  /\ Gdt(i, 3) # 0

First(vaddr) ==
  CHOOSE i \in 0..GdtSize - 1 : Matches(i, vaddr) /\ \A j \in 0..i - 1 : ~Matches(j, vaddr)

Translated == cpr[GDTBASE] # 0 /\ cpr[MMUD] = 0

(* *paddr is not assigned: what is in it is undefined.                     *)
Unassigned == Translated /\ cpr[GDTBASE] >= MemSize

NoMatch(vaddr) == Translated /\ ~Unassigned /\ \A i \in 0..GdtSize - 1 : ~Matches(i, vaddr)

(* No entry matches: the address is recorded, and used as it is.           *)
PageFault(vaddr) == NoMatch(vaddr) /\ \A i \in 0..GdtSize - 1 : InMemory(i)

(* No entry in memory does, and what is behind the memory is undefined.    *)
Beyond(vaddr) == NoMatch(vaddr) /\ \E i \in 0..GdtSize - 1 : ~InMemory(i)

Paddrs(vaddr) ==
  IF Unassigned \/ Beyond(vaddr) THEN Word
  ELSE IF Translated /\ ~PageFault(vaddr)
       THEN {(vaddr + Gdt(First(vaddr), 0) - Gdt(First(vaddr), 1)) % WordSpace}
       ELSE {vaddr}

(* The coprocessor registers after the translation.                        *)
Recorded(c, vaddr) ==
  CASE PageFault(vaddr) -> {[c EXCEPT ![PFLA] = vaddr]}
    [] Beyond(vaddr) -> {c, [c EXCEPT ![PFLA] = vaddr]}
    [] OTHER -> {c}

-----------------------------------------------------------------------------
(* mem_write: the ports read their parameters behind the word written.     *)

Port(m, base, k) == WordAt(m, base + 4 * k)

(* memcpy from one range to another, and what it may do instead when the   *)
(* ranges overlap: read what it has just written.                          *)
Copy(m, dst, from, src, n) ==
  [a \in DOMAIN m |-> IF a \in dst..dst + n - 1 THEN from[src + a - dst] ELSE m[a]]

CopyOverlapped(m, dst, src, n) ==
  [a \in DOMAIN m |-> IF a \in dst..dst + n - 1 THEN m[src + ((a - dst) % (dst - src))] ELSE m[a]]

Fits(a, n, size) == a + n <= size

(* What the store leads to, with the memory m that holds the word already; *)
(* a copy that goes beyond memory or disk is undefined and ends the        *)
(* emulator.                                                               *)
HddRequest(m) ==
  LET memstart == Port(m, HddPort, 1)
      start == Port(m, HddPort, 2) * SectorSize
      n == Port(m, HddPort, 3) * SectorSize
  IN  [ok |-> Fits(memstart, n, MemSize) /\ Fits(start, n, DiskSize),
       memstart |-> memstart, start |-> start, n |-> n]

(* Variant: what is read is memory, not the disk. *)
HddReadSwapped(m) ==
  LET r == HddRequest(m) IN r.ok /\ mem' = Copy(m, r.memstart, m, r.start, r.n) /\ UNCHANGED disk

HddRead(m) ==
  LET r == HddRequest(m) IN r.ok /\ mem' = Copy(m, r.memstart, disk, r.start, r.n) /\ UNCHANGED disk

HddWrite(m) ==
  LET r == HddRequest(m) IN r.ok /\ disk' = Copy(disk, r.start, m, r.memstart, r.n) /\ mem' = m

DmaFits(m) ==
  Fits(Port(m, DmaPort, 1), Port(m, DmaPort, 3), MemSize)
    /\ Fits(Port(m, DmaPort, 2), Port(m, DmaPort, 3), MemSize)

(* Variant: source and destination are exchanged. *)
DmaCopySwapped(m) ==
  /\ DmaFits(m)
  /\ mem' = Copy(m, Port(m, DmaPort, 2), m, Port(m, DmaPort, 1), Port(m, DmaPort, 3))
  /\ UNCHANGED disk

DmaCopy(m) ==
  LET dst == Port(m, DmaPort, 1)
      src == Port(m, DmaPort, 2)
      n == Port(m, DmaPort, 3)
  IN  /\ DmaFits(m)
      /\ \/ mem' = Copy(m, dst, m, src, n)
         \/ src < dst /\ dst < src + n /\ mem' = CopyOverlapped(m, dst, src, n)
      /\ UNCHANGED disk

Store(paddr, len, word) ==
  LET m == Put(mem, paddr, len, word)
  IN  \/ paddr = HddPort /\ Port(m, HddPort, 0) = 1 /\ HddRead(m)
      \/ paddr = HddPort /\ Port(m, HddPort, 0) = 2 /\ HddWrite(m)
      \/ paddr = DmaPort /\ Port(m, DmaPort, 0) = 1 /\ DmaCopy(m)
      \/ /\ ~(paddr = HddPort /\ Port(m, HddPort, 0) \in {1, 2})
         /\ ~(paddr = DmaPort /\ Port(m, DmaPort, 0) = 1)
         /\ mem' = m /\ UNCHANGED disk

(* The copy asked for goes beyond memory or disk.                          *)
StoreUndefined(paddr, len, word) ==
  LET m == Put(mem, paddr, len, word)
  IN  \/ paddr = HddPort /\ Port(m, HddPort, 0) \in {1, 2} /\ ~HddRequest(m).ok
      \/ paddr = DmaPort /\ Port(m, DmaPort, 0) = 1 /\ ~DmaFits(m)
===============================================================================
