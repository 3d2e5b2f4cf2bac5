--------------------------------- MODULE Files --------------------------------
(***************************************************************************)
(* The file table of the kernel, os/filesystem.lib, as a program on        *)
(* Machine: FS_INIT adds files one by one, and a file is looked up.        *)
(*                                                                         *)
(* A name is the word its ELFHASH gives, and equal names are equal words:  *)
(* what collides is what is equal modulo the number of items.  An item is  *)
(* two words, the name and the first sector; the size and the reserved     *)
(* word, and the stack frames, are left out.                               *)
(***************************************************************************)
EXTENDS Programs

CONSTANTS
  FILE_TABLE,            \* its address
  FILE_TABLE_ITEM_CNT    \* its items

S1 == 9
S2 == 10
S3 == 11

FILE_TABLE_ITEM_LOG_SIZE == 3
FILE_TABLE_ITEM_SIZE == 2 * Power2[FILE_TABLE_ITEM_LOG_SIZE]
FILE_TABLE_SIZE == FILE_TABLE_ITEM_CNT * FILE_TABLE_ITEM_SIZE

ASSUME FilesAssumption ==
  /\ {S1, S2, S3} \subseteq Regs \ {Ra}
  /\ FILE_TABLE \in Nat /\ FILE_TABLE_ITEM_CNT \in Nat \ {0}
  /\ FILE_TABLE + FILE_TABLE_SIZE \in Word

(* The addresses of n items from the beginning of the table on, and the    *)
(* table as it is allocated.                                               *)
Items(n) == FILE_TABLE..FILE_TABLE + 8 * n - 1
Allocated == Items(FILE_TABLE_ITEM_CNT)

(* Variant: a name that is found is not recognized. *)
ProbeToFree ==
  <<I("LW", T1, S3, 0)>> \o Branch("BEQ", T1, 0, 8) \o Branch("BNE", 0, 0, 6)
    \o <<I("ADDI", S3, S3, FILE_TABLE_ITEM_SIZE)>> \o Branch("BNE", S3, S2, 1)
    \o <<R("OR", S3, 0, S1)>> \o J(11)

(* FS_GFBN1, at index 11: linear search from the item at $s3, for a name   *)
(* or an item without one.                                                 *)
Probe ==
  <<I("LW", T1, S3, 0)>> \o Branch("BEQ", T1, 0, 8) \o Branch("BEQ", T1, A0, 6)
    \o <<I("ADDI", S3, S3, FILE_TABLE_ITEM_SIZE)>> \o Branch("BNE", S3, S2, 1)
    \o <<R("OR", S3, 0, S1)>> \o J(11)

(* FS_GET_FILEITEM_BY_NAME with the end of ELFHASH, at index 0.            *)
FS_GET_FILEITEM_BY_NAME ==
  lli(T0, FILE_TABLE_ITEM_CNT)
    \o <<R("DIVU", 0, A0, T0), R("MFHI", V0, 0, 0)>>
    \o lli(S1, FILE_TABLE) \o lli(S2, FILE_TABLE_SIZE) \o <<R("ADD", S2, S2, S1)>>
    \o <<Shift("SLL", S3, V0, FILE_TABLE_ITEM_LOG_SIZE), R("ADD", S3, S3, S1)>>
    \o Probe
    \o <<R("OR", V0, 0, S3)>> \o Jr(Ra)

Lookup(name) ==
  <<I("ORI", A0, 0, name), [Reserved EXCEPT !.op = "JAL"], Nop>>

(* FS_ADDFILE of a file [name, sector].                                    *)
FS_ADDFILE(file) ==
  <<I("ORI", A1, 0, file.sector)>> \o Lookup(file.name)
    \o <<I("SW", A0, V0, 0), I("SW", A1, V0, 4)>>

FS_INIT(files) ==
  LET added[k \in 0..Len(files)] ==
        IF k = 0 THEN <<>> ELSE added[k - 1] \o FS_ADDFILE(files[k])
  IN  added[Len(files)]

(* Adds files and looks a name up; it begins behind the subroutine.        *)
FilesCode(files, name) == FS_GET_FILEITEM_BY_NAME \o FS_INIT(files) \o Lookup(name)
FilesBegin == 4 * Len(FS_GET_FILEITEM_BY_NAME)

(* Two names from the same item on.                                        *)
Collide(a, b) == a # b /\ a % FILE_TABLE_ITEM_CNT = b % FILE_TABLE_ITEM_CNT
Colliding(files) == \E j, k \in DOMAIN files : Collide(files[j].name, files[k].name)

(* Files whose names, however they collide, begin at items so far from the *)
(* end of the table that no probe gets there.                              *)
Sparse(files) ==
  \A k \in DOMAIN files : (files[k].name % FILE_TABLE_ITEM_CNT) + 2 * Len(files) < FILE_TABLE_ITEM_CNT

(* The items that may be looked at: a probe goes on over items twice as    *)
(* far apart, and past the end of the table from an odd one, but only      *)
(* where names collide near it.                                            *)
Reached(files, query) ==
  IF /\ Colliding(files) \/ \E k \in DOMAIN files : Collide(query, files[k].name)
     /\ ~Sparse(files)
  THEN 2 * (FILE_TABLE_ITEM_CNT + Len(files) + 1)
  ELSE FILE_TABLE_ITEM_CNT

(* The items begin without names.  The kernel clears those of the table    *)
(* (filesystem.lib:22); that those behind it are free as well is assumed,  *)
(* of the programs that get there.                                         *)
ASSUME NamedFiles ==
  \A s \in Starts :
    s.name = "files" =>
      /\ s.files \in Seq([name : 1..Half - 1, sector : 1..Half - 1]) /\ s.query \in 1..Half - 1
      /\ s.code = Placed(0, FilesCode(s.files, s.query)) /\ s.pc = FilesBegin
      /\ 4 * Len(FilesCode(s.files, s.query)) \in Word
      /\ s.cpr[GDTBASE] = 0 /\ s.gpr[0] = 0
      /\ LET n == Reached(s.files, s.query)
         IN  /\ FILE_TABLE + 8 * n <= MemSize /\ Apart(FILE_TABLE, 8 * n)
             /\ \A a \in Items(n) : s.mem[a] = 0

-----------------------------------------------------------------------------
(* What was added last under a name; 0 if there is no such file.           *)
Last(files, name) ==
  LET those == {k \in DOMAIN files : files[k].name = name}
  IN  IF those = {} THEN 0 ELSE files[CHOOSE k \in those : \A j \in those : j <= k].sector

(* A file is found with what was last added under its name, and a name     *)
(* that was never added is not found, however the names before collide     *)
(* (filesystem.lib:54-126).  As long as none do, or none near the end of   *)
(* the table, nothing but its items changes; else a probe may leave it, as *)
(* the end it looks for is at twice the length, and only met from an even  *)
(* item (filesystem.inc:2-4).                                              *)
FilesFound ==
  LET files == start.files
      name == start.query
  IN  Ended("files") =>
        /\ WordAt(mem, gpr[V0]) = IF Last(files, name) = 0 THEN 0 ELSE name
        /\ WordAt(mem, gpr[V0] + 4) = Last(files, name)
        /\ ~Colliding(files) \/ Sparse(files) => \A a \in DOMAIN mem \ Allocated : mem[a] = start.mem[a]
===============================================================================
