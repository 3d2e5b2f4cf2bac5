----------------------------- MODULE MachineProofs -----------------------------
(***************************************************************************)
(* Theorems about Machine with memories, words and descriptor tables of    *)
(* any size: the types, the relocation of processes, and what its          *)
(* instructions and the macros made from them compute.                     *)
(***************************************************************************)
EXTENDS Programs, WellFoundedInduction, FiniteSetTheorems, TLAPS

-----------------------------------------------------------------------------
(* Numbers.                                                                *)

(* A set of numbers has a least one.                                       *)
LEMMA LeastNumber ==
  ASSUME NEW T, T \subseteq Nat, T # {}
  PROVE  \E x \in T : \A y \in T : x <= y
<1> DEFINE Less == OpToRel(<, Nat)
<1>1. IsWellFoundedOn(Less, Nat)
  BY NatLessThanWellFounded, Zenon
<1> HIDE DEF Less
<1>2. PICK x \in T : \A y \in T : ~(<<y, x>> \in Less)
  BY <1>1, WFMin
<1>3. \A y \in T : y < x => <<y, x>> \in Less
  BY DEF Less, OpToRel
<1>4. \A y \in T : ~(y < x)
  BY <1>2, <1>3
<1>5. x \in Nat /\ \A y \in T : y \in Nat
  OBVIOUS
<1>6. \A y \in T : x <= y
  BY <1>4, <1>5
<1> QED BY <1>6

(* The sizes of a byte, of half a word and of a word.                      *)
LEMMA Widths ==
  /\ Byte \in Nat /\ Byte >= 2 /\ Half \in Nat /\ Half >= 4 /\ Half * Byte \in Nat
  /\ WordSpace \in Nat /\ WordSpace >= 16 /\ WordSpace = Half * Byte * Byte
<1>1. Byte \in Nat /\ Byte >= 2
  BY MemoryAssumption
<1>2. \A x, y \in Nat : x >= 2 /\ y >= 2 => x * y \in Nat /\ x * y >= 2 * x
  <2> SUFFICES ASSUME NEW x \in Nat, NEW y \in Nat, x >= 2, y >= 2
               PROVE  x * y \in Nat /\ x * y >= 2 * x
    OBVIOUS
  <2>1. PICK d \in Nat : y = 2 + d
    <3>1. y - 2 \in Nat
      OBVIOUS
    <3> QED
      BY <3>1
  <2>2. x * y = 2 * x + x * d /\ x * d \in Nat
    BY <2>1
  <2> QED
    BY <2>2
<1>3. Half \in Nat /\ Half >= 4
  BY <1>1, <1>2 DEF Half
<1>4. WordSpace \in Nat /\ WordSpace >= 16
  <2>1. \A h \in Nat : h >= 4 => h * h \in Nat /\ h * h >= 16
    <3> SUFFICES ASSUME NEW h \in Nat, h >= 4 PROVE h * h \in Nat /\ h * h >= 16
      OBVIOUS
    <3>1. PICK d \in Nat : h = 4 + d
      <4>1. h - 4 \in Nat
        OBVIOUS
      <4> QED
        BY <4>1
    <3>2. h * h = 16 + 8 * d + d * d /\ d * d \in Nat
      BY <3>1
    <3> QED
      BY <3>2
  <2> QED
    BY <1>3, <2>1 DEF WordSpace
<1>5. Half * Byte \in Nat
  BY <1>1, <1>3
<1>6. WordSpace = Half * Byte * Byte
  BY <1>1, <1>3 DEF WordSpace, Half
<1> QED
  BY <1>1, <1>3, <1>4, <1>5, <1>6

(* The result of an operation is cut to a word.                            *)
LEMMA WordOf == \A n \in Int : ToWord(n) \in Word
<1>1. \A n \in Int, w \in Nat : w >= 16 => n % w \in 0..w - 1
  OBVIOUS
<1> QED
  BY <1>1, Widths DEF ToWord, Word

(* Each value of g is computed from the one before.                        *)
Recurs(g, N, c, d) == g[0] = d[0] /\ \A k \in 1..N : g[k] = c[k] * g[k - 1] + d[k]

(* A linear recurrence has a solution.                                     *)
LEMMA LinearRecurrence ==
  ASSUME NEW N, NEW c, NEW d,
         N \in Nat, c \in [1..N -> Int], d \in [0..N -> Int]
  PROVE  \E g \in [0..N -> Int] : Recurs(g, N, c, d)
<1> DEFINE Solves(g, n) ==
             g \in [0..n -> Int] /\ g[0] = d[0] /\ \A k \in 1..n : g[k] = c[k] * g[k - 1] + d[k]
           Unsolved == {n \in 0..N : ~\E g : Solves(g, n)}
<1>1. 0 \notin Unsolved
  <2>1. Solves([k \in 0..0 |-> d[0]], 0)
    OBVIOUS
  <2> QED
    BY <2>1
<1>2. ASSUME NEW n \in Nat, n + 1 \in 0..N, n \notin Unsolved
      PROVE  n + 1 \notin Unsolved
  <2>0. n \in 0..N
    BY <1>2
  <2>1. PICK g : Solves(g, n)
    BY <1>2, <2>0
  <2> DEFINE h == [k \in 0..n + 1 |-> IF k = n + 1 THEN c[k] * g[n] + d[k] ELSE g[k]]
  <2>2. c[n + 1] \in Int /\ d[n + 1] \in Int /\ g[n] \in Int
    BY <1>2, <2>1
  <2>3. \A k \in 0..n : h[k] = g[k] /\ g[k] \in Int
    BY <2>1
  <2>4. h[n + 1] = c[n + 1] * g[n] + d[n + 1] /\ h[n + 1] \in Int
    BY <2>2, SMTT(30)
  <2>5. h = [k \in 0..n + 1 |-> h[k]]
    OBVIOUS
  <2> HIDE DEF h
  <2>6. ASSUME NEW k \in 0..n + 1 PROVE h[k] \in Int
    <3>1. k \in 0..n \/ k = n + 1
      OBVIOUS
    <3> QED
      BY <2>3, <2>4, <3>1
  <2>7. h \in [0..n + 1 -> Int] /\ h[0] = d[0]
    <3>1. 0 \in 0..n
      OBVIOUS
    <3>2. h[0] = d[0]
      BY <2>1, <2>3, <3>1
    <3> QED
      BY <2>5, <2>6, <3>2
  <2>8. \A k \in 1..n + 1 : h[k] = c[k] * h[k - 1] + d[k]
    <3> SUFFICES ASSUME NEW k \in 1..n + 1 PROVE h[k] = c[k] * h[k - 1] + d[k]
      OBVIOUS
    <3>1. CASE k = n + 1
      <4>1. k - 1 = n /\ n \in 0..n
        BY <3>1
      <4> QED
        BY <2>3, <2>4, <3>1, <4>1
    <3>2. CASE k \in 1..n
      <4>1. k - 1 \in 0..n /\ k \in 0..n
        BY <3>2
      <4> QED
        BY <2>1, <2>3, <3>2, <4>1
    <3> QED
      BY <3>1, <3>2
  <2>9. Solves(h, n + 1)
    BY <2>7, <2>8
  <2> QED
    BY <2>9
<1>3. Unsolved = {}
  <2> SUFFICES ASSUME Unsolved # {} PROVE FALSE
    OBVIOUS
  <2>1. Unsolved \subseteq 0..N /\ Unsolved \subseteq Nat
    OBVIOUS
  <2> HIDE DEF Unsolved
  <2>2. PICK m \in Unsolved : \A n \in Unsolved : m <= n
    BY <2>1, LeastNumber
  <2>3. m # 0 /\ m \in Nat /\ m \in 0..N
    BY <1>1, <2>1, <2>2
  <2>4. m - 1 \in Nat /\ m - 1 \notin Unsolved /\ (m - 1) + 1 = m
    BY <2>2, <2>3
  <2> QED
    BY <1>2, <2>2, <2>3, <2>4
<1>4. \E g : Solves(g, N)
  <2>1. N \in 0..N
    OBVIOUS
  <2> QED
    BY <1>3, <2>1
<1> QED
  BY <1>4 DEF Recurs

(* The powers of two.                                                      *)
LEMMA Powers ==
  /\ WordBits \in Nat \ {0} /\ Power2[0] = 1
  /\ \A k \in 1..WordBits : Power2[k] = 2 * Power2[k - 1]
  /\ \A k \in 0..WordBits : Power2[k] \in Nat \ {0}
<1> DEFINE N == WordBits
<1>1. N \in Nat /\ N # 0
  BY MachineAssumption
<1> DEFINE c == [m \in 1..N |-> 2]
           d == [m \in 0..N |-> IF m = 0 THEN 1 ELSE 0]
<1>0. /\ c \in [1..N -> Int] /\ d \in [0..N -> Int] /\ d[0] = 1
      /\ \A k \in 1..N : c[k] = 2 /\ d[k] = 0
  BY <1>1
<1> HIDE DEF c, d
<1>2. PICK g \in [0..N -> Int] : g[0] = 1 /\ \A k \in 1..N : g[k] = c[k] * g[k - 1] + d[k]
  <2>1. PICK g \in [0..N -> Int] : Recurs(g, N, c, d)
    BY <1>0, <1>1, LinearRecurrence
  <2> QED
    BY <1>0, <2>1 DEF Recurs
<1>3. \A k \in 0..N : g[k] = IF k = 0 THEN 1 ELSE 2 * g[k - 1]
  <2> SUFFICES ASSUME NEW k \in 0..N PROVE g[k] = IF k = 0 THEN 1 ELSE 2 * g[k - 1]
    OBVIOUS
  <2>1. CASE k = 0
    BY <1>2, <2>1
  <2>2. CASE k # 0
    <3>1. k \in 1..N /\ k - 1 \in 0..N
      BY <1>1, <2>2
    <3>2. g[k] = 2 * g[k - 1] + 0 /\ g[k - 1] \in Int
      BY <1>0, <1>2, <3>1
    <3> QED
      BY <2>2, <3>2
  <2> QED
    BY <2>1, <2>2
<1>4. g = [k \in 0..N |-> IF k = 0 THEN 1 ELSE 2 * g[k - 1]]
  BY <1>3
<1>5. Power2 = CHOOSE f : f = [k \in 0..N |-> IF k = 0 THEN 1 ELSE 2 * f[k - 1]]
  BY DEF Power2
<1>6. Power2 = [k \in 0..N |-> IF k = 0 THEN 1 ELSE 2 * Power2[k - 1]]
  BY <1>4, <1>5, Zenon
<1>7. /\ Power2[0] = 1
      /\ \A k \in 1..N : Power2[k] = 2 * Power2[k - 1]
  BY <1>1, <1>6
<1>8. \A k \in 0..N : Power2[k] \in Nat \ {0}
  <2> DEFINE Bad == {k \in 0..N : Power2[k] \notin Nat \ {0}}
  <2> SUFFICES ASSUME Bad # {} PROVE FALSE
    OBVIOUS
  <2>1. Bad \subseteq Nat /\ Bad \subseteq 0..N
    OBVIOUS
  <2>2. 0 \notin Bad
    BY <1>7
  <2> HIDE DEF Bad
  <2>3. PICK m \in Bad : \A n \in Bad : m <= n
    BY <2>1, LeastNumber
  <2>4. m \in 1..N /\ m - 1 \in 0..N /\ m - 1 \notin Bad
    <3>1. m \in 0..N /\ m # 0
      BY <2>1, <2>2, <2>3
    <3>2. m \in 1..N /\ m - 1 \in 0..N /\ ~(m <= m - 1)
      BY <1>1, <3>1
    <3> QED
      BY <2>3, <3>2
  <2>5. Power2[m - 1] \in Nat \ {0}
    BY <2>4 DEF Bad
  <2>6. Power2[m] \in Nat \ {0}
    BY <1>7, <2>4, <2>5
  <2> QED
    BY <2>3, <2>6 DEF Bad
<1> QED
  BY <1>1, <1>7, <1>8

(* The number with given bits: the sum of their powers of two.             *)
LEMMA SumOfBits ==
  ASSUME NEW b \in [Bits -> Int]
  PROVE  \E g \in [0..WordBits -> Int] :
           /\ g[0] = 0 /\ \A k \in 1..WordBits : g[k] = g[k - 1] + b[k - 1] * Power2[k - 1]
           /\ FromBits(b) = g[WordBits]
<1> DEFINE N == WordBits
           T(k) == b[k - 1] * Power2[k - 1]
<1>1. N \in Nat /\ N # 0
  BY MachineAssumption
<1>2. \A k \in 1..N : T(k) \in Int
  <2> SUFFICES ASSUME NEW k \in 1..N PROVE T(k) \in Int
    OBVIOUS
  <2>1. k - 1 \in Bits /\ k - 1 \in 0..N
    BY <1>1 DEF Bits
  <2>2. b[k - 1] \in Int /\ Power2[k - 1] \in Int
    BY <2>1, Powers
  <2> QED
    BY <2>2
<1> HIDE DEF T
<1> DEFINE c == [m \in 1..N |-> 1]
           d == [m \in 0..N |-> IF m = 0 THEN 0 ELSE T(m)]
<1>0. /\ c \in [1..N -> Int] /\ d \in [0..N -> Int] /\ d[0] = 0
      /\ \A k \in 1..N : c[k] = 1 /\ d[k] = T(k)
  <2>1. \A m \in 0..N : m # 0 => m \in 1..N
    BY <1>1
  <2>2. \A m \in 1..N : m \in 0..N /\ m # 0
    BY <1>1
  <2>3. 0 \in 0..N
    BY <1>1
  <2> QED
    BY <1>2, <2>1, <2>2, <2>3
<1> HIDE DEF c, d
<1>3. PICK g \in [0..N -> Int] : g[0] = 0 /\ \A k \in 1..N : g[k] = c[k] * g[k - 1] + d[k]
  <2>1. PICK g \in [0..N -> Int] : Recurs(g, N, c, d)
    BY <1>0, <1>1, LinearRecurrence
  <2> QED
    BY <1>0, <2>1 DEF Recurs
<1> DEFINE Sums(f) == f = [k \in 0..N |-> IF k = 0 THEN 0 ELSE f[k - 1] + b[k - 1] * Power2[k - 1]]
<1>4. Sums(g)
  <2>1. \A k \in 0..N : g[k] = IF k = 0 THEN 0 ELSE g[k - 1] + T(k)
    <3> SUFFICES ASSUME NEW k \in 0..N PROVE g[k] = IF k = 0 THEN 0 ELSE g[k - 1] + T(k)
      OBVIOUS
    <3>1. CASE k = 0
      BY <1>3, <3>1
    <3>2. CASE k # 0
      <4>1. k \in 1..N /\ k - 1 \in 0..N
        BY <1>1, <3>2
      <4>2. g[k] = 1 * g[k - 1] + T(k) /\ g[k - 1] \in Int
        BY <1>0, <1>3, <4>1
      <4> QED
        BY <3>2, <4>2
    <3> QED
      BY <3>1, <3>2
  <2> QED
    BY <2>1 DEF T
<1>5. FromBits(b) = (CHOOSE f : Sums(f))[N]
  BY DEF FromBits
<1> DEFINE h == CHOOSE f : Sums(f)
<1>6. Sums(h)
  BY <1>4, Zenon
<1> HIDE DEF h
<1>7. h = [k \in 0..N |-> IF k = 0 THEN 0 ELSE h[k - 1] + T(k)]
  BY <1>6 DEF T
<1> HIDE DEF Sums
<1>8. h[0] = 0 /\ \A k \in 1..N : h[k] = h[k - 1] + T(k)
  BY <1>1, <1>7
<1>9. \A k \in 0..N : h[k] = g[k]
  <2> DEFINE Bad == {k \in 0..N : h[k] # g[k]}
  <2> SUFFICES ASSUME Bad # {} PROVE FALSE
    OBVIOUS
  <2>1. Bad \subseteq Nat /\ Bad \subseteq 0..N
    OBVIOUS
  <2>2. 0 \notin Bad
    BY <1>3, <1>8
  <2> HIDE DEF Bad
  <2>3. PICK m \in Bad : \A n \in Bad : m <= n
    BY <2>1, LeastNumber
  <2>4. m \in 1..N /\ m - 1 \in 0..N /\ m - 1 \notin Bad
    <3>1. m \in 0..N /\ m # 0
      BY <2>1, <2>2, <2>3
    <3>2. m \in 1..N /\ m - 1 \in 0..N /\ ~(m <= m - 1)
      BY <1>1, <3>1
    <3> QED
      BY <2>3, <3>2
  <2>5. h[m - 1] = g[m - 1]
    BY <2>4 DEF Bad
  <2>6. g[m] = 1 * g[m - 1] + T(m) /\ g[m - 1] \in Int
    BY <1>0, <1>3, <2>4
  <2>7. h[m] = g[m]
    BY <1>8, <2>4, <2>5, <2>6
  <2> QED
    BY <2>3, <2>7 DEF Bad
<1>10. FromBits(b) = g[N]
  BY <1>1, <1>5, <1>9 DEF h
<1>11. \A k \in 1..N : g[k] = g[k - 1] + T(k)
  <2> SUFFICES ASSUME NEW k \in 1..N PROVE g[k] = g[k - 1] + T(k)
    OBVIOUS
  <2>1. k - 1 \in 0..N
    BY <1>1
  <2> QED
    BY <1>0, <1>3, <2>1
<1> QED
  BY <1>3, <1>10, <1>11 DEF T

-----------------------------------------------------------------------------
(* Operations on words.                                                    *)

(* A bit is 0 or 1.                                                        *)
LEMMA BitOf == \A w \in Int, k \in Bits : Bit(w, k) \in {0, 1}
<1> SUFFICES ASSUME NEW w \in Int, NEW k \in Bits PROVE Bit(w, k) \in {0, 1}
  OBVIOUS
<1>1. k \in 0..WordBits
  BY Powers DEF Bits
<1>2. Power2[k] \in Nat /\ Power2[k] # 0
  BY <1>1, Powers
<1>3. w \div Power2[k] \in Int
  BY <1>2
<1>4. \A n \in Int : n % 2 \in {0, 1}
  OBVIOUS
<1> QED
  BY <1>3, <1>4 DEF Bit

(* A sum of bits is a number, and so are the results of and, or and xor.   *)
LEMMA FromBitsNumber == ASSUME NEW b \in [Bits -> Int] PROVE FromBits(b) \in Int
<1>1. PICK g \in [0..WordBits -> Int] : FromBits(b) = g[WordBits]
  BY SumOfBits
<1>2. WordBits \in 0..WordBits
  BY Powers
<1> QED
  BY <1>1, <1>2

(* The results of and, or, xor and not are numbers.                        *)
LEMMA LogicNumbers ==
  ASSUME NEW v \in Int, NEW w \in Int
  PROVE  And(v, w) \in Int /\ Or(v, w) \in Int /\ Xor(v, w) \in Int /\ Not(v) \in Int
<1>1. \A k \in Bits : Bit(v, k) \in {0, 1} /\ Bit(w, k) \in {0, 1}
  BY BitOf
<1>2. [k \in Bits |-> Bit(v, k) * Bit(w, k)] \in [Bits -> Int]
  BY <1>1
<1>3. [k \in Bits |-> IF Bit(v, k) + Bit(w, k) > 0 THEN 1 ELSE 0] \in [Bits -> Int]
  BY <1>1
<1>4. [k \in Bits |-> (Bit(v, k) + Bit(w, k)) % 2] \in [Bits -> Int]
  <2>1. \A x, y \in {0, 1} : (x + y) % 2 \in Int
    OBVIOUS
  <2> QED
    BY <1>1, <2>1
<1> QED
  BY <1>2, <1>3, <1>4, FromBitsNumber, Widths DEF And, Or, Xor, Not

(* Signed numbers.                                                         *)
LEMMA SignedNumbers ==
  /\ \A w \in Int : Signed(w) \in Int
  /\ \A im \in Int : SignedImm(im) \in Int
BY Widths DEF Signed, SignedImm

(* Quotients and remainders of numbers are numbers.                        *)
LEMMA QuotientNumbers ==
  \A n \in Int, d \in Int : d # 0 => Quot(n, d) \in Int /\ Rem(n, d) \in Int
<1> SUFFICES ASSUME NEW n \in Int, NEW d \in Int, d # 0
             PROVE  Quot(n, d) \in Int /\ Rem(n, d) \in Int
  OBVIOUS
<1>1. Abs(n) \in Int /\ Abs(d) \in Nat /\ Abs(d) # 0
  BY DEF Abs
<1>2. Abs(n) \div Abs(d) \in Int
  BY <1>1
<1>3. Quot(n, d) \in Int
  BY <1>2 DEF Quot
<1>4. d * Quot(n, d) \in Int
  BY <1>3
<1> QED
  BY <1>3, <1>4 DEF Rem

(* Shifts of numbers are numbers.                                          *)
LEMMA ShiftNumbers ==
  \A w \in Int, k \in 0..WordBits : w * Power2[k] \in Int /\ w \div Power2[k] \in Int
<1> SUFFICES ASSUME NEW w \in Int, NEW k \in 0..WordBits
             PROVE  w * Power2[k] \in Int /\ w \div Power2[k] \in Int
  OBVIOUS
<1>1. Power2[k] \in Nat /\ Power2[k] # 0
  BY Powers
<1> QED
  BY <1>1

-----------------------------------------------------------------------------
(* Memory.                                                                 *)

(* Byte strings of length n.                                               *)
Bytes(n) == [0..n - 1 -> 0..Byte - 1]

(* A word in memory is a natural number.                                   *)
LEMMA WordAtNumber ==
  ASSUME NEW n \in Nat, NEW m \in Bytes(n), NEW a \in Nat, a + 4 <= n
  PROVE  WordAt(m, a) \in Nat
<1>1. /\ a \in 0..n - 1 /\ a + 1 \in 0..n - 1 /\ a + 2 \in 0..n - 1 /\ a + 3 \in 0..n - 1
  OBVIOUS
<1>2. \A k \in 0..n - 1 : m[k] \in Nat
  BY Widths DEF Bytes
<1>3. m[a] \in Nat /\ m[a + 1] \in Nat /\ m[a + 2] \in Nat /\ m[a + 3] \in Nat
  BY <1>1, <1>2
<1>4. \A x, y \in Nat : x * y \in Nat
  OBVIOUS
<1>5. /\ Byte * m[a + 1] \in Nat /\ Half * m[a + 2] \in Nat /\ Half * Byte * m[a + 3] \in Nat
  BY <1>3, <1>4, Widths
<1> QED
  BY <1>3, <1>5 DEF WordAt

(* Each byte of a word is one.                                             *)
LEMMA ByteOfWord == \A word \in Word, k \in 0..3 : ByteOf(word, k) \in 0..Byte - 1
<1>1. \A x \in Int, w \in Nat : w >= 2 => x % w \in 0..w - 1
  OBVIOUS
<1>2. \A x \in Int, w \in Nat : w >= 2 => x \div w \in Int
  OBVIOUS
<1> SUFFICES ASSUME NEW word \in Word, NEW k \in 0..3 PROVE ByteOf(word, k) \in 0..Byte - 1
  OBVIOUS
<1>3. word \in Int /\ word >= 0 /\ word < WordSpace
  BY Widths DEF Word
<1>4. word \div Byte \in Int /\ word \div Half \in Int
  BY <1>2, <1>3, Widths
<1>5. word \div (Half * Byte) \in 0..Byte - 1
  <2>1. \A p, b \in Nat : p >= 1 /\ word < p * b => word \div p >= 0 /\ word \div p < b
    BY <1>3
  <2>2. Half * Byte >= 1
    BY Widths
  <2>3. word < (Half * Byte) * Byte
    BY <1>3, Widths
  <2> QED
    BY <1>3, <2>1, <2>2, <2>3, Widths
<1>6. CASE k = 0
  BY <1>1, <1>3, <1>6, Widths DEF ByteOf
<1>7. CASE k = 1
  BY <1>1, <1>4, <1>7, Widths DEF ByteOf
<1>8. CASE k = 2
  BY <1>1, <1>4, <1>8, Widths DEF ByteOf
<1>9. CASE k = 3
  BY <1>5, <1>9 DEF ByteOf
<1> QED
  BY <1>6, <1>7, <1>8, <1>9

(* Memory with a word or a byte stored is memory.                          *)
LEMMA PutTyped ==
  ASSUME NEW n \in Nat, NEW m \in Bytes(n), NEW paddr \in Int, NEW len \in {1, 4},
         NEW word \in Word
  PROVE  Put(m, paddr, len, word) \in Bytes(n)
<1>1. DOMAIN m = 0..n - 1 /\ \A a \in 0..n - 1 : m[a] \in 0..Byte - 1
  BY DEF Bytes
<1>2. \A a \in 0..n - 1 : a \in paddr..paddr + len - 1 => ByteOf(word, a - paddr) \in 0..Byte - 1
  <2> SUFFICES ASSUME NEW a \in 0..n - 1, a \in paddr..paddr + len - 1
               PROVE  ByteOf(word, a - paddr) \in 0..Byte - 1
    OBVIOUS
  <2>1. a - paddr \in 0..3
    OBVIOUS
  <2> QED
    BY <2>1, ByteOfWord
<1>3. \A a \in 0..n - 1 :
        (IF a \in paddr..paddr + len - 1 THEN ByteOf(word, a - paddr) ELSE m[a]) \in 0..Byte - 1
  BY <1>1, <1>2, Zenon
<1> QED
  BY <1>1, <1>3, Zenon DEF Put, Bytes

(* Memory with a range copied into it is memory.                           *)
LEMMA CopyTyped ==
  ASSUME NEW n \in Nat, NEW m \in Bytes(n), NEW k \in Nat, NEW from \in Bytes(k),
         NEW dst \in Int, NEW src \in Nat, NEW len \in Int, src + len <= k
  PROVE  Copy(m, dst, from, src, len) \in Bytes(n)
<1>1. DOMAIN m = 0..n - 1 /\ \A a \in 0..n - 1 : m[a] \in 0..Byte - 1
  BY DEF Bytes
<1>2. \A a \in 0..n - 1 : a \in dst..dst + len - 1 => from[src + a - dst] \in 0..Byte - 1
  <2> SUFFICES ASSUME NEW a \in 0..n - 1, a \in dst..dst + len - 1
               PROVE  from[src + a - dst] \in 0..Byte - 1
    OBVIOUS
  <2>1. src + a - dst \in 0..k - 1
    OBVIOUS
  <2> QED
    BY <2>1 DEF Bytes
<1>3. \A a \in 0..n - 1 :
        (IF a \in dst..dst + len - 1 THEN from[src + a - dst] ELSE m[a]) \in 0..Byte - 1
  BY <1>1, <1>2, Zenon
<1> QED
  BY <1>1, <1>3, Zenon DEF Copy, Bytes

(* It is memory too when the copy reads what it has written.               *)
LEMMA CopyOverlappedTyped ==
  ASSUME NEW n \in Nat, NEW m \in Bytes(n), NEW dst \in Nat, NEW src \in Nat, NEW len \in Int,
         src < dst
  PROVE  CopyOverlapped(m, dst, src, len) \in Bytes(n)
<1>1. DOMAIN m = 0..n - 1 /\ \A a \in 0..n - 1 : m[a] \in 0..Byte - 1
  BY DEF Bytes
<1>0. \A x \in Int, w \in Nat : w # 0 => x % w \in 0..w - 1
  OBVIOUS
<1>2. \A a \in 0..n - 1 :
        a \in dst..dst + len - 1 => m[src + ((a - dst) % (dst - src))] \in 0..Byte - 1
  <2> SUFFICES ASSUME NEW a \in 0..n - 1, a \in dst..dst + len - 1
               PROVE  m[src + ((a - dst) % (dst - src))] \in 0..Byte - 1
    OBVIOUS
  <2>1. dst - src \in Nat /\ dst - src # 0 /\ a - dst \in Int
    OBVIOUS
  <2>2. PICK q \in 0..(dst - src) - 1 : q = (a - dst) % (dst - src)
    BY <1>0, <2>1
  <2>3. src + q \in 0..n - 1
    BY <2>2
  <2> QED
    BY <1>1, <2>2, <2>3
<1>3. \A a \in 0..n - 1 :
        (IF a \in dst..dst + len - 1 THEN m[src + ((a - dst) % (dst - src))] ELSE m[a])
          \in 0..Byte - 1
  BY <1>1, <1>2, Zenon
<1> QED
  BY <1>1, <1>3, Zenon DEF CopyOverlapped, Bytes

-----------------------------------------------------------------------------
(* Translation.                                                            *)

(* The state has the types of MachineTypeOK and runs one of the programs.  *)
MInv == MachineTypeOK /\ start \in Starts

(* Memory and disk are byte strings.                                       *)
LEMMA Storage ==
  ASSUME MInv
  PROVE  /\ MemSize \in Nat /\ MemSize >= 4 /\ DiskSize \in Nat
         /\ mem \in Bytes(MemSize) /\ disk \in Bytes(DiskSize)
<1>1. MemSize \in Nat /\ MemSize >= 4 /\ DiskSize \in Nat
  BY MemoryAssumption
<1> QED
  BY <1>1 DEF MInv, MachineTypeOK, Bytes

(* The coprocessor registers hold words.                                   *)
LEMMA Coprocessor ==
  ASSUME MInv
  PROVE  /\ cpr \in [CprNumbers -> Word] /\ DOMAIN cpr = CprNumbers
         /\ GDTBASE \in CprNumbers /\ MMUD \in CprNumbers /\ PFLA \in CprNumbers
         /\ cpr[GDTBASE] \in Nat /\ Word \subseteq Nat
<1>1. GDTBASE \in CprNumbers /\ MMUD \in CprNumbers /\ PFLA \in CprNumbers
  BY DEF GDTBASE, MMUD, PFLA, CprNumbers
<1>2. Word \subseteq Nat
  BY Widths DEF Word
<1>3. cpr \in [CprNumbers -> Word]
  BY DEF MInv, MachineTypeOK
<1> QED
  BY <1>1, <1>2, <1>3

(* The words of an entry of the descriptor table in memory are numbers.    *)
LEMMA GdtNumbers ==
  ASSUME MInv, NEW i \in 0..GdtSize - 1, InMemory(i), NEW k \in 0..3
  PROVE  Gdt(i, k) \in Nat
<1>1. cpr[GDTBASE] \in Nat
  BY Coprocessor
<1>2. i \in Nat
  BY MemoryAssumption
<1>3. cpr[GDTBASE] + 16 * i + 4 * k \in Nat /\ cpr[GDTBASE] + 16 * i + 4 * k + 4 <= MemSize
  BY <1>1, <1>2, MemoryAssumption, Storage DEF InMemory
<1> QED
  BY <1>3, Storage, WordAtNumber DEF Gdt

(* When an entry matches, First is the first that does.                    *)
LEMMA FirstMatches ==
  ASSUME NEW vaddr, NEW i \in 0..GdtSize - 1, Matches(i, vaddr)
  PROVE  /\ First(vaddr) \in 0..GdtSize - 1 /\ Matches(First(vaddr), vaddr)
         /\ \A j \in 0..First(vaddr) - 1 : ~Matches(j, vaddr)
<1> DEFINE M == {j \in 0..GdtSize - 1 : Matches(j, vaddr)}
<1>0. GdtSize \in Nat
  BY MemoryAssumption
<1>1. M \subseteq Nat /\ i \in M
  BY <1>0
<1>2. PICK f \in M : \A j \in M : f <= j
  BY <1>1, LeastNumber
<1>3. f \in 0..GdtSize - 1 /\ Matches(f, vaddr)
  BY <1>2
<1>4. \A j \in 0..f - 1 : ~Matches(j, vaddr)
  <2> SUFFICES ASSUME NEW j \in 0..f - 1, Matches(j, vaddr) PROVE FALSE
    OBVIOUS
  <2>1. j \in 0..GdtSize - 1 /\ ~(f <= j)
    BY <1>0, <1>3
  <2> QED
    BY <1>2, <2>1
<1> QED
  BY <1>3, <1>4, Zenon DEF First

(* An address is translated to words.                                      *)
LEMMA PaddrsWords ==
  ASSUME MInv, NEW vaddr \in Word
  PROVE  Paddrs(vaddr) \subseteq Word
<1>1. CASE Unassigned \/ Beyond(vaddr)
  BY <1>1 DEF Paddrs
<1>2. CASE ~(Unassigned \/ Beyond(vaddr)) /\ Translated /\ ~PageFault(vaddr)
  <2>1. PICK i \in 0..GdtSize - 1 : Matches(i, vaddr)
    BY <1>2 DEF NoMatch, PageFault, Beyond
  <2>2. First(vaddr) \in 0..GdtSize - 1 /\ InMemory(First(vaddr))
    BY <2>1, FirstMatches DEF Matches
  <2>3. Gdt(First(vaddr), 0) \in Nat /\ Gdt(First(vaddr), 1) \in Nat
    BY <2>2, GdtNumbers
  <2>4. vaddr + Gdt(First(vaddr), 0) - Gdt(First(vaddr), 1) \in Int
    BY <2>3, Coprocessor
  <2>5. (vaddr + Gdt(First(vaddr), 0) - Gdt(First(vaddr), 1)) % WordSpace \in Word
    BY <2>4, WordOf DEF ToWord
  <2>6. Paddrs(vaddr) = {(vaddr + Gdt(First(vaddr), 0) - Gdt(First(vaddr), 1)) % WordSpace}
    BY <1>2, Zenon DEF Paddrs
  <2> QED
    BY <2>5, <2>6
<1>3. CASE ~(Unassigned \/ Beyond(vaddr)) /\ ~(Translated /\ ~PageFault(vaddr))
  <2>1. Paddrs(vaddr) = {vaddr}
    BY <1>3, Zenon DEF Paddrs
  <2> QED
    BY <2>1
<1> QED
  BY <1>1, <1>2, <1>3

(* What a translation leaves in the coprocessor registers is words.        *)
LEMMA RecordedTyped ==
  ASSUME MInv, NEW vaddr \in Word, NEW c \in [CprNumbers -> Word]
  PROVE  Recorded(c, vaddr) \subseteq [CprNumbers -> Word]
<1>1. [c EXCEPT ![PFLA] = vaddr] \in [CprNumbers -> Word]
  OBVIOUS
<1>2. \/ Recorded(c, vaddr) = {[c EXCEPT ![PFLA] = vaddr]}
      \/ Recorded(c, vaddr) = {c, [c EXCEPT ![PFLA] = vaddr]}
      \/ Recorded(c, vaddr) = {c}
  BY Zenon DEF Recorded
<1> QED
  BY <1>1, <1>2

(* The addresses of the pipeline are words, and so is the address of a     *)
(* load or a store.                                                        *)
LEMMA Addresses ==
  ASSUME MInv
  PROVE  /\ pc \in Word /\ adv1 \in Word /\ adv2 \in Word
         /\ \A i : Instruction(i) => Vaddr(i) \in Word
<1>1. pc \in Word /\ adv1 \in Word /\ adv2 \in Word /\ gpr \in [Regs -> Word]
  BY DEF MInv, MachineTypeOK
<1>2. ASSUME NEW i, Instruction(i) PROVE Vaddr(i) \in Word
  <2>1. gpr[i.rs] \in Int /\ SignedImm(i.im) \in Int
    BY <1>1, <1>2, SignedNumbers, Coprocessor DEF Instruction
  <2> QED
    BY <2>1, WordOf DEF Vaddr
<1> QED
  BY <1>1, <1>2

(* What is fetched is an instruction.                                      *)
LEMMA FetchedTyped ==
  ASSUME MInv, NEW op, NEW i \in Fetched(op)
  PROVE  Instruction(i) /\ i.op = op /\ stop = "no"
<1>1. stop = "no" /\ i.op = op /\ \E paddr : i = CodeAt(paddr)
  BY DEF Fetched
<1>2. PICK paddr : i = CodeAt(paddr)
  BY <1>1
<1>3. CASE paddr \in DOMAIN start.code
  <2>1. i = start.code[paddr]
    BY <1>2, <1>3 DEF CodeAt
  <2> QED
    BY <1>1, <1>3, <2>1, StartsAssumption DEF MInv
<1>4. CASE paddr \notin DOMAIN start.code
  <2>1. i = Reserved
    BY <1>2, <1>4 DEF CodeAt
  <2> QED
    BY <1>1, <2>1, MachineAssumption DEF Reserved, Instruction
<1> QED
  BY <1>1, <1>3, <1>4

-----------------------------------------------------------------------------
(* Every step keeps the types.                                             *)

(* The operands of an instruction are numbers.                             *)
LEMMA OperandNumbers ==
  ASSUME MInv, NEW i, Instruction(i)
  PROVE  /\ i.rs \in Regs /\ i.rt \in Regs /\ i.rd \in Regs
         /\ gpr[i.rs] \in Word /\ gpr[i.rt] \in Word /\ gpr[i.rs] \in Nat /\ gpr[i.rt] \in Nat
         /\ Signed(gpr[i.rs]) \in Int /\ Signed(gpr[i.rt]) \in Int
         /\ i.im \in Int /\ SignedImm(i.im) \in Int /\ i.sa \in 0..WordBits
<1>1. gpr \in [Regs -> Word] /\ i.rs \in Regs /\ i.rt \in Regs /\ i.rd \in Regs /\ i.im \in Nat
  BY DEF MInv, MachineTypeOK, Instruction
<1>2. gpr[i.rs] \in Word /\ gpr[i.rt] \in Word /\ gpr[i.rs] \in Nat /\ gpr[i.rt] \in Nat
  BY <1>1, Coprocessor
<1>3. i.sa \in 0..WordBits
  BY Powers DEF Instruction
<1> QED
  BY <1>1, <1>2, <1>3, SignedNumbers

(* The pipeline advances to words, whether it branches or not.             *)
LEMMA PipelineTyped ==
  ASSUME MInv, Advance \/ \E target \in Word : BranchTo(target)
  PROVE  pc' \in Word /\ adv1' \in Word /\ adv2' \in Word
<1>1. pc \in Word /\ adv1 \in Word /\ adv2 \in Word
  BY Addresses
<1>2. ToWord(adv2 + 4) \in Word
  BY <1>1, Coprocessor, WordOf
<1> QED
  BY <1>1, <1>2 DEF Advance, BranchTo

(* A register written holds a word.                                        *)
LEMMA WriteTyped ==
  ASSUME MInv, NEW r \in Regs, NEW n \in Int, Write(r, n)
  PROVE  gpr' \in [Regs -> Word]
<1>1. gpr \in [Regs -> Word] /\ ToWord(n) \in Word /\ 0 \in Word
  BY WordOf, Widths DEF MInv, MachineTypeOK, Word
<1> QED
  BY <1>1 DEF Write

(* The coprocessor registers hold words after a fetch.                     *)
LEMMA RecordingTyped ==
  ASSUME MInv
  PROVE  Recorded(cpr, adv1) \subseteq [CprNumbers -> Word]
BY Addresses, Coprocessor, RecordedTyped

(* An instruction that computes a register keeps the types.                *)
LEMMA SetsKeeps ==
  ASSUME MInv, NEW r \in Regs, NEW n \in Int, Sets(r, n)
  PROVE  MInv'
<1>1. Advance /\ Write(r, n) /\ Recording
  BY DEF Sets
<1>2. cpr' \in [CprNumbers -> Word]
  BY <1>1, RecordingTyped DEF Recording
<1> QED
  BY <1>1, <1>2, PipelineTyped, WriteTyped DEF Sets, MInv, MachineTypeOK, storage

(* So does one that computes hi and lo.                                    *)
LEMMA SetsHiLoKeeps ==
  ASSUME MInv, NEW h \in Word, NEW l \in Word, SetsHiLo(h, l)
  PROVE  MInv'
<1>1. Advance /\ Recording
  BY DEF SetsHiLo
<1>2. cpr' \in [CprNumbers -> Word]
  BY <1>1, RecordingTyped DEF Recording
<1> QED
  BY <1>1, <1>2, PipelineTyped DEF SetsHiLo, MInv, MachineTypeOK, storage

(* Every instruction that computes a register writes a number to one.      *)
LEMMA ComputeSets ==
  ASSUME MInv, Compute
  PROVE  \E r \in Regs, n \in Int : Sets(r, n)
<1> DEFINE Computes == \E r \in Regs, n \in Int : Sets(r, n)
<1> SUFFICES Computes
  OBVIOUS
<1>1. \A b : Truth(b) \in Int
  BY DEF Truth
<1>2. ASSUME NEW op, NEW i \in Fetched(op), NEW n \in Int, Sets(i.rd, n) \/ Sets(i.rt, n)
      PROVE  Computes
  BY <1>2, FetchedTyped, OperandNumbers
<1> HIDE DEF Computes
<1>3. ASSUME NEW op, NEW i \in Fetched(op)
      PROVE  /\ gpr[i.rs] \in Int /\ gpr[i.rt] \in Int /\ i.im \in Int
             /\ SignedImm(i.im) \in Int /\ i.sa \in 0..WordBits
  BY FetchedTyped, OperandNumbers
<1>4. ASSUME inst_exec_add \/ inst_exec_addu \/ inst_exec_sub \/ inst_exec_subu PROVE Computes
  BY <1>2, <1>3, <1>4 DEF inst_exec_add, inst_exec_addu, inst_exec_sub, inst_exec_subu
<1>5. ASSUME inst_exec_addi \/ inst_exec_addiu PROVE Computes
  BY <1>2, <1>3, <1>5 DEF inst_exec_addi, inst_exec_addiu
<1>6. ASSUME inst_exec_and \/ inst_exec_or \/ inst_exec_xor \/ inst_exec_nor PROVE Computes
  <2>1. \A v, w \in Int : And(v, w) \in Int /\ Or(v, w) \in Int /\ Xor(v, w) \in Int
    BY LogicNumbers
  <2>2. \A v \in Int : Not(v) \in Int
    BY LogicNumbers
  <2> QED
    BY <1>2, <1>3, <1>6, <2>1, <2>2 DEF inst_exec_and, inst_exec_or, inst_exec_xor, inst_exec_nor
<1>7. ASSUME inst_exec_andi \/ inst_exec_ori \/ inst_exec_xori PROVE Computes
  <2>1. \A v, w \in Int : And(v, w) \in Int /\ Or(v, w) \in Int /\ Xor(v, w) \in Int
    BY LogicNumbers
  <2> QED
    BY <1>2, <1>3, <1>7, <2>1 DEF inst_exec_andi, inst_exec_ori, inst_exec_xori
<1>8. ASSUME inst_exec_lui PROVE Computes
  BY <1>2, <1>3, <1>8, Widths DEF inst_exec_lui
<1>9. ASSUME inst_exec_mfc0 PROVE Computes
  <2>1. PICK i \in Fetched("MFC0"), c \in Recorded(cpr, adv1) : Sets(i.rt, c[i.rd])
    BY <1>9 DEF inst_exec_mfc0
  <2>2. c \in [CprNumbers -> Word]
    BY RecordingTyped
  <2>3. i.rd \in CprNumbers
    BY FetchedTyped DEF Instruction
  <2>4. c[i.rd] \in Int
    BY <2>2, <2>3, Coprocessor
  <2> QED
    BY <1>2, <2>1, <2>4
<1>10. ASSUME inst_exec_mfhi \/ inst_exec_mflo PROVE Computes
  <2>1. hi \in Int /\ lo \in Int
    BY Coprocessor DEF MInv, MachineTypeOK
  <2> QED
    BY <1>2, <1>10, <2>1 DEF inst_exec_mfhi, inst_exec_mflo
<1>11. ASSUME inst_exec_sll \/ inst_exec_srl PROVE Computes
  BY <1>2, <1>3, <1>11, ShiftNumbers DEF inst_exec_sll, inst_exec_srl
<1>12. ASSUME inst_exec_sllv \/ inst_exec_srlv PROVE Computes
  <2>1. ASSUME NEW op, NEW i \in Fetched(op)
        PROVE  /\ gpr[i.rs] < WordBits => gpr[i.rs] \in 0..WordBits
               /\ gpr[i.rs] % WordBits \in 0..WordBits
    <3>1. gpr[i.rs] \in Nat
      BY FetchedTyped, OperandNumbers
    <3>2. WordBits \in Nat /\ WordBits # 0
      BY Powers
    <3>3. \A x \in Nat, w \in Nat : w # 0 => x % w \in 0..w - 1
      OBVIOUS
    <3>4. gpr[i.rs] % WordBits \in 0..WordBits - 1
      BY <3>1, <3>2, <3>3
    <3> QED
      BY <3>1, <3>2, <3>4
  <2>2. ASSUME inst_exec_sllv PROVE Computes
    <3>1. PICK i \in Fetched("SLLV") :
            \E n \in IF gpr[i.rs] < WordBits THEN {gpr[i.rt] * Power2[gpr[i.rs]]}
                      ELSE {gpr[i.rt] * Power2[gpr[i.rs] % WordBits], 0} : Sets(i.rd, n)
      BY <2>2 DEF inst_exec_sllv
    <3> DEFINE S == IF gpr[i.rs] < WordBits THEN {gpr[i.rt] * Power2[gpr[i.rs]]}
                    ELSE {gpr[i.rt] * Power2[gpr[i.rs] % WordBits], 0}
    <3>2. S \subseteq Int
      <4>1. gpr[i.rt] \in Int
        BY <1>3
      <4>2. CASE gpr[i.rs] < WordBits
        <5>1. gpr[i.rs] \in 0..WordBits
          BY <2>1, <4>2
        <5>2. gpr[i.rt] * Power2[gpr[i.rs]] \in Int
          BY <4>1, <5>1, ShiftNumbers, Zenon
        <5> QED
          BY <4>2, <5>2
      <4>3. CASE ~(gpr[i.rs] < WordBits)
        <5>1. gpr[i.rs] % WordBits \in 0..WordBits
          BY <2>1
        <5>2. gpr[i.rt] * Power2[gpr[i.rs] % WordBits] \in Int
          BY <4>1, <5>1, ShiftNumbers, Zenon
        <5> QED
          BY <4>3, <5>2
      <4> QED
        BY <4>2, <4>3
    <3> HIDE DEF S
    <3>3. PICK n \in S : Sets(i.rd, n)
      BY <3>1 DEF S
    <3> QED
      BY <1>2, <3>2, <3>3
  <2>3. ASSUME inst_exec_srlv PROVE Computes
    <3>1. PICK i \in Fetched("SRLV") :
            \E n \in IF gpr[i.rs] < WordBits THEN {gpr[i.rt] \div Power2[gpr[i.rs]]}
                      ELSE {gpr[i.rt] \div Power2[gpr[i.rs] % WordBits], 0} : Sets(i.rd, n)
      BY <2>3 DEF inst_exec_srlv
    <3> DEFINE S == IF gpr[i.rs] < WordBits THEN {gpr[i.rt] \div Power2[gpr[i.rs]]}
                    ELSE {gpr[i.rt] \div Power2[gpr[i.rs] % WordBits], 0}
    <3>2. S \subseteq Int
      <4>1. gpr[i.rt] \in Int
        BY <1>3
      <4>2. CASE gpr[i.rs] < WordBits
        <5>1. gpr[i.rs] \in 0..WordBits
          BY <2>1, <4>2
        <5>2. gpr[i.rt] \div Power2[gpr[i.rs]] \in Int
          BY <4>1, <5>1, ShiftNumbers, Zenon
        <5> QED
          BY <4>2, <5>2
      <4>3. CASE ~(gpr[i.rs] < WordBits)
        <5>1. gpr[i.rs] % WordBits \in 0..WordBits
          BY <2>1
        <5>2. gpr[i.rt] \div Power2[gpr[i.rs] % WordBits] \in Int
          BY <4>1, <5>1, ShiftNumbers, Zenon
        <5> QED
          BY <4>3, <5>2
      <4> QED
        BY <4>2, <4>3
    <3> HIDE DEF S
    <3>3. PICK n \in S : Sets(i.rd, n)
      BY <3>1 DEF S
    <3> QED
      BY <1>2, <3>2, <3>3
  <2> QED
    BY <1>12, <2>2, <2>3
<1>13. ASSUME inst_exec_slt \/ inst_exec_slti \/ inst_exec_sltiu \/ inst_exec_sltu PROVE Computes
  BY <1>1, <1>2, <1>13 DEF inst_exec_slt, inst_exec_slti, inst_exec_sltiu, inst_exec_sltu
<1> QED
  BY <1>4, <1>5, <1>6, <1>7, <1>8, <1>9, <1>10, <1>11, <1>12, <1>13 DEF Compute

(* Products, quotients and remainders are words.                           *)
LEMMA MultiplyDivideKeeps ==
  ASSUME MInv, MultiplyDivide
  PROVE  MInv'
<1>1. hi \in Word /\ lo \in Word
  BY DEF MInv, MachineTypeOK
<1>2. ASSUME NEW op, NEW i \in Fetched(op)
      PROVE  /\ gpr[i.rs] \in Word /\ gpr[i.rs] \in Int /\ gpr[i.rt] \in Int
             /\ Signed(gpr[i.rs]) \in Int /\ Signed(gpr[i.rt]) \in Int
  BY FetchedTyped, OperandNumbers
<1>3. ASSUME NEW n \in Int, Product(n) PROVE MInv'
  <2>1. n \div WordSpace \in Int
    BY Widths
  <2> QED
    BY <1>3, <2>1, WordOf, SetsHiLoKeeps DEF Product
<1>4. ASSUME NEW n \in Int, NEW d \in Int, Divide(n, d) PROVE MInv'
  <2>1. CASE d = 0
    BY <1>1, <1>4, <2>1, SetsHiLoKeeps DEF Divide
  <2>2. CASE d # 0
    BY <1>4, <2>2, QuotientNumbers, WordOf, SetsHiLoKeeps DEF Divide
  <2> QED
    BY <2>1, <2>2
<1>5. ASSUME inst_exec_mthi \/ inst_exec_mtlo PROVE MInv'
  BY <1>1, <1>2, <1>5, SetsHiLoKeeps DEF inst_exec_mthi, inst_exec_mtlo
<1>6. ASSUME inst_exec_mult PROVE MInv'
  <2>1. PICK i \in Fetched("MULT") : Product(Signed(gpr[i.rs]) * Signed(gpr[i.rt]))
    BY <1>6 DEF inst_exec_mult
  <2>2. Signed(gpr[i.rs]) * Signed(gpr[i.rt]) \in Int
    BY <1>2
  <2> QED
    BY <1>3, <2>1, <2>2
<1>7. ASSUME inst_exec_multu PROVE MInv'
  <2>1. PICK i \in Fetched("MULTU") : Product(gpr[i.rs] * gpr[i.rt])
    BY <1>7 DEF inst_exec_multu
  <2>2. gpr[i.rs] * gpr[i.rt] \in Int
    BY <1>2
  <2> QED
    BY <1>3, <2>1, <2>2
<1>8. ASSUME inst_exec_div \/ inst_exec_divu PROVE MInv'
  BY <1>2, <1>4, <1>8 DEF inst_exec_div, inst_exec_divu
<1> QED
  BY <1>5, <1>6, <1>7, <1>8 DEF MultiplyDivide

(* A branch, linked or not, keeps the types.                               *)
LEMMA BranchKeeps ==
  ASSUME MInv, NEW target \in Word, BranchTo(target), Linked \/ Unlinked
  PROVE  MInv'
<1>1. pc' \in Word /\ adv1' \in Word /\ adv2' \in Word
  BY PipelineTyped
<1>2. cpr' \in [CprNumbers -> Word]
  BY RecordingTyped DEF Linked, Unlinked, Recording
<1>3. gpr' \in [Regs -> Word]
  <2>1. Ra \in Regs /\ adv1 + 8 \in Int
    BY MachineAssumption, Addresses, Coprocessor
  <2> QED
    BY <2>1, WriteTyped DEF Linked, Unlinked, MInv, MachineTypeOK
<1> QED
  BY <1>1, <1>2, <1>3 DEF Linked, Unlinked, MInv, MachineTypeOK, storage

(* The target of a branch is a word.                                       *)
LEMMA BranchTargets ==
  ASSUME MInv, NEW i, Instruction(i), NEW taken, BranchIf(i, taken)
  PROVE  \E target \in Word : BranchTo(target)
<1>1. adv1 \in Int /\ adv2 \in Int /\ SignedImm(i.im) \in Int
  BY Addresses, Coprocessor, OperandNumbers
<1>2. adv1 + 4 + 4 * SignedImm(i.im) \in Int /\ adv2 + 4 \in Int
  BY <1>1
<1> QED
  BY <1>2, WordOf DEF BranchIf

(* The instructions that branch or jump.                                   *)
LEMMA TransferKeeps ==
  ASSUME MInv, Transfer
  PROVE  MInv'
<1>1. ASSUME NEW op, NEW i \in Fetched(op), NEW taken, BranchIf(i, taken), Linked \/ Unlinked
      PROVE  MInv'
  BY <1>1, FetchedTyped, BranchTargets, BranchKeeps
<1>2. ASSUME NEW op, NEW i \in Fetched(op)
      PROVE  /\ ToWord(4 * i.im) \in Word /\ gpr[i.rs] \in Word
             /\ Linked => gpr'[i.rs] \in Word
  <2>1. Instruction(i) /\ i.im \in Int /\ gpr[i.rs] \in Word /\ i.rs \in Regs
    BY FetchedTyped, OperandNumbers
  <2>2. ASSUME Linked PROVE gpr'[i.rs] \in Word
    <3>1. Ra \in Regs /\ adv1 + 8 \in Int
      BY MachineAssumption, Addresses, Coprocessor
    <3>2. gpr' \in [Regs -> Word]
      BY <2>2, <3>1, WriteTyped DEF Linked
    <3> QED
      BY <2>1, <3>2
  <2>3. 4 * i.im \in Int
    BY <2>1
  <2> QED
    BY <2>1, <2>2, <2>3, WordOf
<1>3. ASSUME inst_exec_beq \/ inst_exec_bne \/ inst_exec_bgez \/ inst_exec_bltz \/ inst_exec_bgezal
      PROVE  MInv'
  BY <1>1, <1>3
  DEF inst_exec_beq, inst_exec_bne, inst_exec_bgez, inst_exec_bltz, inst_exec_bgezal
<1>4. ASSUME inst_exec_j \/ inst_exec_jal \/ inst_exec_jr \/ inst_exec_jalr PROVE MInv'
  BY <1>2, <1>4, BranchKeeps DEF inst_exec_j, inst_exec_jal, inst_exec_jr, inst_exec_jalr
<1> QED
  BY <1>3, <1>4 DEF Transfer

(* What a load or a store leaves in the coprocessor registers is words.    *)
LEMMA AfterAccessTyped ==
  ASSUME MInv, NEW i, Instruction(i)
  PROVE  AfterAccess(i) \subseteq [CprNumbers -> Word]
<1>1. \A c \in Recorded(cpr, adv1) : Recorded(c, Vaddr(i)) \subseteq [CprNumbers -> Word]
  BY RecordingTyped, Addresses, RecordedTyped
<1> QED
  BY <1>1 DEF AfterAccess

(* A load gives a number.                                                  *)
LEMMA ReadNumber ==
  ASSUME MInv, NEW paddr \in Word, NEW len \in {1, 4}, ~AddressError(paddr, len)
  PROVE  Read(mem, paddr, len) \in Int
<1>1. paddr \in Nat /\ paddr + len <= MemSize
  BY Storage, Coprocessor DEF AddressError
<1>2. CASE len = 4
  BY <1>1, <1>2, Storage, WordAtNumber DEF Read
<1>3. CASE len = 1
  <2>1. paddr \in 0..MemSize - 1
    BY <1>1, <1>3, Storage
  <2>2. mem[paddr] \in Int
    BY <2>1, Storage, Widths DEF Bytes
  <2> QED
    BY <1>3, <2>2, Widths DEF Read
<1> QED
  BY <1>2, <1>3

(* The parameters of a port are numbers.                                   *)
LEMMA PortNumbers ==
  ASSUME NEW m \in Bytes(MemSize), NEW k \in 0..3
  PROVE  Port(m, HddPort, k) \in Nat /\ Port(m, DmaPort, k) \in Nat
<1>1. /\ MemSize \in Nat /\ HddPort + 4 * k \in Nat /\ DmaPort + 4 * k \in Nat
      /\ HddPort + 4 * k + 4 <= MemSize /\ DmaPort + 4 * k + 4 <= MemSize
  BY MemoryAssumption
<1> QED
  BY <1>1, WordAtNumber DEF Port

(* A store leaves memory and disk byte strings of the same length.         *)
LEMMA StoreTyped ==
  ASSUME MInv, NEW paddr \in Word, NEW len \in {1, 4}, NEW word \in Word,
         Store(paddr, len, word)
  PROVE  mem' \in Bytes(MemSize) /\ disk' \in Bytes(DiskSize)
<1> DEFINE m == Put(mem, paddr, len, word)
<1>1. m \in Bytes(MemSize)
  <2>1. mem \in Bytes(MemSize) /\ MemSize \in Nat /\ paddr \in Int
    BY Storage, Coprocessor
  <2> QED
    BY <2>1, PutTyped
<1> HIDE DEF m
<1>2. /\ \A k \in 0..3 : Port(m, HddPort, k) \in Nat /\ Port(m, DmaPort, k) \in Nat
  BY <1>1, PortNumbers
<1>3. MemSize \in Nat /\ DiskSize \in Nat /\ disk \in Bytes(DiskSize)
  BY Storage
<1>4. SectorSize \in Nat
  BY MemoryAssumption
<1>5. \A x, y \in Nat : x * y \in Nat
  OBVIOUS
<1> DEFINE at == HddRequest(m).memstart
           from == HddRequest(m).start
           size == HddRequest(m).n
<1>6. /\ at \in Nat /\ from \in Nat /\ size \in Nat
      /\ HddRequest(m).ok => at + size <= MemSize /\ from + size <= DiskSize
  <2>1. Port(m, HddPort, 1) \in Nat /\ Port(m, HddPort, 2) \in Nat /\ Port(m, HddPort, 3) \in Nat
    BY <1>2
  <2>2. Port(m, HddPort, 2) * SectorSize \in Nat /\ Port(m, HddPort, 3) * SectorSize \in Nat
    BY <1>4, <1>5, <2>1
  <2> QED
    BY <2>1, <2>2 DEF HddRequest, Fits
<1>7. ASSUME HddRead(m) PROVE mem' \in Bytes(MemSize) /\ disk' \in Bytes(DiskSize)
  <2>1. HddRequest(m).ok /\ disk' = disk /\ mem' = Copy(m, at, disk, from, size)
    BY <1>7 DEF HddRead
  <2> HIDE DEF at, from, size
  <2> QED
    BY <1>1, <1>3, <1>6, <2>1, CopyTyped
<1>8. ASSUME HddWrite(m) PROVE mem' \in Bytes(MemSize) /\ disk' \in Bytes(DiskSize)
  <2>1. HddRequest(m).ok /\ mem' = m /\ disk' = Copy(disk, from, m, at, size)
    BY <1>8 DEF HddWrite
  <2> HIDE DEF at, from, size
  <2> QED
    BY <1>1, <1>3, <1>6, <2>1, CopyTyped
<1>9. ASSUME DmaCopy(m) PROVE mem' \in Bytes(MemSize) /\ disk' \in Bytes(DiskSize)
  <2> DEFINE dst == Port(m, DmaPort, 1)
             src == Port(m, DmaPort, 2)
             n == Port(m, DmaPort, 3)
  <2>1. dst \in Nat /\ src \in Nat /\ n \in Nat
    BY <1>2
  <2>2. /\ src + n <= MemSize /\ disk' = disk
        /\ \/ mem' = Copy(m, dst, m, src, n)
           \/ src < dst /\ mem' = CopyOverlapped(m, dst, src, n)
    BY <1>9 DEF DmaCopy, DmaFits, Fits
  <2> HIDE DEF dst, src, n
  <2>3. CASE mem' = Copy(m, dst, m, src, n)
    BY <1>1, <1>3, <2>1, <2>2, <2>3, CopyTyped
  <2>4. CASE src < dst /\ mem' = CopyOverlapped(m, dst, src, n)
    BY <1>1, <1>3, <2>1, <2>2, <2>4, CopyOverlappedTyped
  <2> QED
    BY <1>3, <2>2, <2>3, <2>4
<1>10. HddRead(m) \/ HddWrite(m) \/ DmaCopy(m) \/ (mem' = m /\ UNCHANGED disk)
  BY DEF Store, m
<1> QED
  BY <1>1, <1>3, <1>7, <1>8, <1>9, <1>10

(* The instructions that load or store.                                    *)
LEMMA AccessKeeps ==
  ASSUME MInv, Access
  PROVE  MInv'
<1>1. ASSUME NEW i, Instruction(i), NEW len \in {1, 4}, Load(i, len) PROVE MInv'
  <2>1. cpr' \in [CprNumbers -> Word] /\ pc' \in Word /\ adv1' \in Word /\ adv2' \in Word
    BY <1>1, AfterAccessTyped, PipelineTyped DEF Load
  <2>2. PICK paddr \in Paddrs(Vaddr(i)) :
          \/ ~AddressError(paddr, len) /\ Write(i.rt, Read(mem, paddr, len)) /\ UNCHANGED stop
          \/ AddressError(paddr, len) /\ stop' = "exception" /\ UNCHANGED gpr
    BY <1>1 DEF Load
  <2>3. paddr \in Word
    BY <1>1, <2>2, Addresses, PaddrsWords
  <2>4. gpr' \in [Regs -> Word] /\ stop' \in {"no", "exception", "crash"}
    <3>1. CASE Write(i.rt, Read(mem, paddr, len)) /\ UNCHANGED stop /\ ~AddressError(paddr, len)
      BY <1>1, <2>3, <3>1, ReadNumber, OperandNumbers, WriteTyped DEF MInv, MachineTypeOK
    <3>2. CASE stop' = "exception" /\ UNCHANGED gpr
      BY <3>2 DEF MInv, MachineTypeOK
    <3> QED
      BY <2>2, <3>1, <3>2
  <2> QED
    BY <1>1, <2>1, <2>4 DEF Load, MInv, MachineTypeOK, storage
<1>2. ASSUME NEW i, Instruction(i), NEW len \in {1, 4}, StoreIn(i, len) PROVE MInv'
  <2>1. cpr' \in [CprNumbers -> Word] /\ pc' \in Word /\ adv1' \in Word /\ adv2' \in Word
    BY <1>2, AfterAccessTyped, PipelineTyped DEF StoreIn
  <2>2. PICK paddr \in Paddrs(Vaddr(i)) :
          \/ Store(paddr, len, gpr[i.rt]) /\ UNCHANGED stop
          \/ stop' \in {"exception", "crash"} /\ UNCHANGED storage
    BY <1>2 DEF StoreIn
  <2>3. paddr \in Word /\ gpr[i.rt] \in Word
    BY <1>2, <2>2, Addresses, PaddrsWords, OperandNumbers
  <2>4. /\ mem' \in Bytes(MemSize) /\ disk' \in Bytes(DiskSize)
        /\ stop' \in {"no", "exception", "crash"}
    <3>1. CASE Store(paddr, len, gpr[i.rt]) /\ UNCHANGED stop
      BY <1>2, <2>3, <3>1, StoreTyped DEF MInv, MachineTypeOK
    <3>2. CASE stop' \in {"exception", "crash"} /\ UNCHANGED storage
      BY <3>2, Storage DEF storage
    <3> QED
      BY <2>2, <3>1, <3>2
  <2> QED
    BY <1>2, <2>1, <2>4 DEF StoreIn, MInv, MachineTypeOK, Bytes
<1>3. ASSUME inst_exec_lb \/ inst_exec_lw PROVE MInv'
  BY <1>1, <1>3, FetchedTyped DEF inst_exec_lb, inst_exec_lw
<1>4. ASSUME inst_exec_sb \/ inst_exec_sw PROVE MInv'
  BY <1>2, <1>4, FetchedTyped DEF inst_exec_sb, inst_exec_sw
<1> QED
  BY <1>3, <1>4 DEF Access

(* The instructions that move between sets of registers.                   *)
LEMMA MoveKeeps ==
  ASSUME MInv, Move
  PROVE  MInv'
<1> USE DEF MInv, MachineTypeOK, storage
<1>1. ASSUME inst_exec_mtc0 PROVE MInv'
  <2>1. PICK i \in Fetched("MTC0"), c \in Recorded(cpr, adv1) :
          /\ cpr' = [c EXCEPT ![i.rd] = gpr[i.rt]] /\ Advance
          /\ UNCHANGED <<start, gpr, shadow, hi, lo, stop, storage>>
    BY <1>1 DEF inst_exec_mtc0
  <2>2. gpr[i.rt] \in Word /\ c \in [CprNumbers -> Word]
    BY <2>1, FetchedTyped, OperandNumbers, RecordingTyped
  <2>3. cpr' \in [CprNumbers -> Word]
    BY <2>1, <2>2
  <2> QED
    BY <2>1, <2>3, PipelineTyped
<1>2. ASSUME inst_exec_rdpgpr PROVE MInv'
  <2>1. PICK i \in Fetched("RDPGPR") :
          /\ gpr' = [gpr EXCEPT ![i.rd] = shadow[i.rt]] /\ Advance /\ Recording
          /\ UNCHANGED <<start, shadow, hi, lo, stop, storage>>
    BY <1>2 DEF inst_exec_rdpgpr
  <2>2. shadow[i.rt] \in Word
    BY <2>1, FetchedTyped, OperandNumbers
  <2>3. gpr' \in [Regs -> Word] /\ cpr' \in [CprNumbers -> Word]
    BY <2>1, <2>2, RecordingTyped DEF Recording
  <2> QED
    BY <2>1, <2>3, PipelineTyped
<1>3. ASSUME inst_exec_wrpgpr PROVE MInv'
  <2>1. PICK i \in Fetched("WRPGPR") :
          /\ shadow' = [shadow EXCEPT ![i.rd] = gpr[i.rt]] /\ Advance /\ Recording
          /\ UNCHANGED <<start, gpr, hi, lo, stop, storage>>
    BY <1>3 DEF inst_exec_wrpgpr
  <2>2. gpr[i.rt] \in Word
    BY <2>1, FetchedTyped, OperandNumbers
  <2>3. shadow' \in [Regs -> Word] /\ cpr' \in [CprNumbers -> Word]
    BY <2>1, <2>2, RecordingTyped DEF Recording
  <2> QED
    BY <2>1, <2>3, PipelineTyped
<1>4. ASSUME inst_exec_sync PROVE MInv'
  <2>1. Advance /\ cpr' \in [CprNumbers -> Word]
    BY <1>4, RecordingTyped DEF inst_exec_sync, Recording
  <2> QED
    BY <1>4, <2>1, PipelineTyped DEF inst_exec_sync
<1> QED
  BY <1>1, <1>2, <1>3, <1>4 DEF Move

(* What ends the loop.                                                     *)
LEMMA StopKeeps ==
  ASSUME MInv, NEW how \in {"exception", "crash"}, Stop(how)
  PROVE  MInv'
<1>1. Advance /\ cpr' \in [CprNumbers -> Word]
  BY RecordingTyped DEF Stop, Recording
<1> QED
  BY <1>1, PipelineTyped DEF Stop, MInv, MachineTypeOK, storage

(* The invariant holds at first.                                           *)
LEMMA MInvInit == Init => MInv
<1> SUFFICES ASSUME Init PROVE MInv
  OBVIOUS
<1>1. 0 \in Word
  BY Widths DEF Word
<1> QED
  BY <1>1, StartsAssumption DEF Init, MInv, MachineTypeOK

(* Every step keeps it.                                                    *)
LEMMA MInvNext == MInv /\ [Next]_vars => MInv'
<1> SUFFICES ASSUME MInv, [Next]_vars PROVE MInv'
  OBVIOUS
<1>1. CASE Compute
  BY <1>1, ComputeSets, SetsKeeps
<1>2. CASE MultiplyDivide
  BY <1>2, MultiplyDivideKeeps
<1>3. CASE Transfer
  BY <1>3, TransferKeeps
<1>4. CASE Access
  BY <1>4, AccessKeeps
<1>5. CASE Move
  BY <1>5, MoveKeeps
<1>6. CASE inst_not_implemented \/ DivisionTraps \/ TableCrashes
  <2>1. Stop("exception") \/ Stop("crash")
    BY <1>6 DEF inst_not_implemented, DivisionTraps, TableCrashes
  <2> QED
    BY <2>1, StopKeeps
<1>7. CASE UNCHANGED vars
  BY <1>7 DEF vars, pipeline, storage, MInv, MachineTypeOK
<1> QED
  BY <1>1, <1>2, <1>3, <1>4, <1>5, <1>6, <1>7 DEF Next

(* Which program runs does not change.                                     *)
LEMMA StartStays == ASSUME MInv, Next PROVE start' = start
<1>1. CASE Compute
  BY <1>1, ComputeSets DEF Sets
<1>2. CASE MultiplyDivide
  BY <1>2
  DEF MultiplyDivide, SetsHiLo, Product, Divide, inst_exec_mthi, inst_exec_mtlo, inst_exec_mult,
      inst_exec_multu, inst_exec_div, inst_exec_divu
<1>3. CASE Transfer
  BY <1>3
  DEF Transfer, Linked, Unlinked, inst_exec_beq, inst_exec_bne, inst_exec_bgez, inst_exec_bltz,
      inst_exec_bgezal, inst_exec_j, inst_exec_jal, inst_exec_jr, inst_exec_jalr
<1>4. CASE Access
  BY <1>4 DEF Access, Load, StoreIn, inst_exec_lb, inst_exec_lw, inst_exec_sb, inst_exec_sw
<1>5. CASE Move
  BY <1>5 DEF Move, inst_exec_mtc0, inst_exec_rdpgpr, inst_exec_wrpgpr, inst_exec_sync
<1>6. CASE inst_not_implemented \/ DivisionTraps \/ TableCrashes
  BY <1>6 DEF inst_not_implemented, DivisionTraps, TableCrashes, Stop
<1> QED
  BY <1>1, <1>2, <1>3, <1>4, <1>5, <1>6 DEF Next

(* Every register is a word wide whatever is computed, stored, translated  *)
(* or jumped to, and memory and disk stay as long as they are: nothing is  *)
(* written before or behind them (inst.c:500-1522, reg.c:56-202,           *)
(* mem.c:98-236, mmu.c:46-91).                                             *)
THEOREM RegistersAreWords == Spec => []MachineTypeOK
<1>1. MInv => MachineTypeOK
  BY DEF MInv
<1> QED
  BY <1>1, MInvInit, MInvNext, PTL DEF Spec

-----------------------------------------------------------------------------
(* A process behind a descriptor table, of any size and at any place, runs *)
(* as it would alone.                                                      *)

(* The table that is in use places each address of the process where Home  *)
(* says, without a fault.                                                  *)
TableInPlace ==
  \A v \in 0..Space - 1 : Paddrs(v) = {Home[v]} /\ ~PageFault(v)

(* The addresses of a process.                                             *)
LEMMA Homes ==
  /\ Space \in Nat /\ Space >= 4 /\ Space <= MemSize /\ MemSize \in Nat /\ Space <= WordSpace
  /\ \A v \in 0..Space - 1 : Home[v] \in 0..MemSize - 1 /\ v \in Word
  /\ \A u, v \in 0..Space - 1 : Home[u] = Home[v] => u = v
  /\ \A v \in 0..Space - 1 : Home[v] # HddPort /\ Home[v] # DmaPort
<1>1. /\ MemSize \in Nat /\ MemSize <= WordSpace /\ Space \in Nat /\ Space >= 4 /\ Space <= MemSize
      /\ Space <= WordSpace
  BY MemoryAssumption, ProgramsAssumption, Widths
<1>2. \A v \in 0..Space - 1 : v \in Word
  BY <1>1, Widths DEF Word
<1>3. \A v \in 0..Space - 1 : Home[v] # HddPort /\ Home[v] # DmaPort
  BY ProgramsAssumption
<1>4. \A v \in 0..Space - 1 : Home[v] \in 0..MemSize - 1
  BY ProgramsAssumption
<1>5. \A u, v \in 0..Space - 1 : Home[u] = Home[v] => u = v
  BY ProgramsAssumption, Zenon
<1> QED
  BY <1>1, <1>2, <1>3, <1>4, <1>5, Zenon

(* Alone, a process is not translated.                                     *)
LEMMA AloneUntranslated ==
  ASSUME MInv
  PROVE  /\ \A v : Alone!Paddrs(v) = {v}
         /\ \A c, v : Alone!Recorded(c, v) = {c}
<1>1. ~Alone!Translated
  BY Coprocessor DEF Alone!Translated, Alone!GDTBASE, GDTBASE
<1> QED
  BY <1>1, Zenon DEF Alone!Paddrs, Alone!Recorded, Alone!PageFault, Alone!Beyond, Alone!NoMatch,
                     Alone!Unassigned

(* What is at the addresses of the process is translated without a trace.  *)
LEMMA InPlaceTranslated ==
  ASSUME MInv, TableInPlace, NEW v \in 0..Space - 1
  PROVE  Paddrs(v) = {Home[v]} /\ ~Beyond(v) /\ \A c : Recorded(c, v) = {c}
<1>1. Paddrs(v) = {Home[v]} /\ ~PageFault(v)
  BY DEF TableInPlace
<1>2. ~Beyond(v)
  <2> SUFFICES ASSUME Beyond(v) PROVE FALSE
    OBVIOUS
  <2>1. Word = {Home[v]}
    BY <1>1 DEF Paddrs
  <2>2. 0 \in Word /\ 1 \in Word
    BY Widths DEF Word
  <2> QED
    BY <2>1, <2>2
<1> QED
  BY <1>1, <1>2, Zenon DEF Recorded

(* The instruction fetched is the same.                                    *)
LEMMA SameFetch ==
  ASSUME MInv, TableInPlace, Whole(adv1, 4), NEW op
  PROVE  Alone!Fetched(op) = Fetched(op)
<1>1. adv1 \in 0..Space - 1
  BY Addresses, Coprocessor DEF Whole
<1>2. Paddrs(adv1) = {Home[adv1]} /\ Alone!Paddrs(adv1) = {adv1}
  BY <1>1, InPlaceTranslated, AloneUntranslated
<1> DEFINE C == [v \in {w \in 0..Space - 1 : Home[w] \in DOMAIN start.code} |-> start.code[Home[v]]]
<1>3. [start EXCEPT !.code = C].code = C
  BY StartsAssumption, Zenon DEF MInv
<1>4. Alone!CodeAt(adv1) = CodeAt(Home[adv1])
  <2>1. adv1 \in DOMAIN C <=> Home[adv1] \in DOMAIN start.code
    BY <1>1
  <2>2. Home[adv1] \in DOMAIN start.code => C[adv1] = start.code[Home[adv1]]
    BY <1>1
  <2>3. Alone!Reserved = Reserved
    BY DEF Alone!Reserved, Reserved
  <2>4. Alone!CodeAt(adv1) = IF adv1 \in DOMAIN C THEN C[adv1] ELSE Alone!Reserved
    BY <1>3, Zenon DEF Alone!CodeAt
  <2> HIDE DEF C
  <2> QED
    BY <2>1, <2>2, <2>3, <2>4, Zenon DEF CodeAt
<1>5. /\ {CodeAt(paddr) : paddr \in Paddrs(adv1)} = {CodeAt(Home[adv1])}
      /\ {Alone!CodeAt(paddr) : paddr \in Alone!Paddrs(adv1)} = {CodeAt(Home[adv1])}
  BY <1>2, <1>4
<1> QED
  BY <1>5, Zenon DEF Alone!Fetched, Fetched

-----------------------------------------------------------------------------
(* Each instruction is one of the process alone.                           *)

(* Operators that do not look at memory are the same.                      *)
LEMMA SameNumbers ==
  /\ \A v, w : Alone!And(v, w) = And(v, w) /\ Alone!Or(v, w) = Or(v, w) /\ Alone!Xor(v, w) = Xor(v, w)
  /\ \A w : Alone!Not(w) = Not(w) /\ Alone!Signed(w) = Signed(w) /\ Alone!SignedImm(w) = SignedImm(w)
  /\ \A n, d : Alone!Quot(n, d) = Quot(n, d) /\ Alone!Rem(n, d) = Rem(n, d)
  /\ \A n : Alone!ToWord(n) = ToWord(n) /\ Alone!Truth(n) = Truth(n)
  /\ Alone!Power2 = Power2 /\ Alone!Half = Half /\ Alone!WordSpace = WordSpace
<1> USE Zenon DEF WordSpace, Alone!WordSpace, Half, Alone!Half
<1>1. /\ Alone!Power2 = Power2 /\ Alone!Half = Half /\ Alone!WordSpace = WordSpace
  BY DEF Power2, Alone!Power2
<1>2. \A v, w : Alone!And(v, w) = And(v, w) /\ Alone!Or(v, w) = Or(v, w) /\ Alone!Xor(v, w) = Xor(v, w)
  BY DEF And, Alone!And, Or, Alone!Or, Xor, Alone!Xor, FromBits, Alone!FromBits, Bit, Alone!Bit,
         Bits, Alone!Bits, Power2, Alone!Power2
<1>3. \A w : Alone!Not(w) = Not(w) /\ Alone!Signed(w) = Signed(w) /\ Alone!SignedImm(w) = SignedImm(w)
  BY DEF Not, Alone!Not, Signed, Alone!Signed, SignedImm, Alone!SignedImm
<1>4. \A n, d : Alone!Quot(n, d) = Quot(n, d) /\ Alone!Rem(n, d) = Rem(n, d)
  BY DEF Quot, Alone!Quot, Rem, Alone!Rem, Abs, Alone!Abs
<1>5. \A n : Alone!ToWord(n) = ToWord(n) /\ Alone!Truth(n) = Truth(n)
  BY DEF ToWord, Alone!ToWord, Truth, Alone!Truth
<1> QED
  BY <1>1, <1>2, <1>3, <1>4, <1>5

(* A step of a process in its place.                                       *)
Inside == MInv /\ TableInPlace /\ StaysInside

(* A fetch leaves no trace, and what does not change, does not change for  *)
(* the process.                                                            *)
LEMMA Unseen ==
  ASSUME Inside
  PROVE  /\ Recorded(cpr, adv1) = {cpr}
         /\ \A op : Alone!Fetched(op) = Fetched(op)
         /\ Recording => cpr' = cpr /\ Alone!Recording
         /\ Advance => Alone!Advance
         /\ UNCHANGED storage => UNCHANGED Alone!storage
         /\ UNCHANGED start =>
              [start EXCEPT !.code =
                [v \in {w \in 0..Space - 1 : Home[w] \in DOMAIN start.code} |-> start.code[Home[v]]]]'
              = [start EXCEPT !.code =
                [v \in {w \in 0..Space - 1 : Home[w] \in DOMAIN start.code} |-> start.code[Home[v]]]]
<1>1. MInv /\ TableInPlace /\ Whole(adv1, 4) /\ adv1 \in 0..Space - 1
  BY Addresses, Coprocessor DEF Inside, StaysInside, Whole
<1>2. Recorded(cpr, adv1) = {cpr} /\ \A op : Alone!Fetched(op) = Fetched(op)
  BY <1>1, InPlaceTranslated, SameFetch
<1>3. Recording => cpr' = cpr /\ Alone!Recording
  BY <1>1, <1>2, AloneUntranslated DEF Recording, Alone!Recording
<1>4. Advance => Alone!Advance
  BY SameNumbers DEF Advance, Alone!Advance
<1>5. UNCHANGED storage => UNCHANGED Alone!storage
  BY DEF storage, Alone!storage
<1> QED
  BY <1>2, <1>3, <1>4, <1>5

(* An instruction that computes a register does the same alone.            *)
LEMMA SetsAlone ==
  ASSUME Inside, NEW r, NEW n, Sets(r, n)
  PROVE  Alone!Sets(r, n) /\ UNCHANGED mem
<1>1. Alone!Write(r, n)
  BY SameNumbers DEF Sets, Write, Alone!Write
<1> QED
  BY <1>1, Unseen DEF Sets, Alone!Sets, storage

(* So does one that computes hi and lo.                                    *)
LEMMA SetsHiLoAlone ==
  ASSUME Inside, NEW h, NEW l, SetsHiLo(h, l)
  PROVE  Alone!SetsHiLo(h, l) /\ UNCHANGED mem
BY Unseen DEF SetsHiLo, Alone!SetsHiLo, storage

(* A process does not reach its table through the coprocessor registers.   *)
LEMMA NoTableAccess ==
  ASSUME MInv, start.name = "process", NEW op \in {"MFC0", "MTC0"}, NEW i \in Fetched(op)
  PROVE  i.rd # GDTBASE /\ i.rd # MMUD
<1>1. PICK paddr : i = CodeAt(paddr) /\ i.op = op
  BY DEF Fetched
<1>2. i # Reserved
  BY <1>1 DEF Reserved
<1>3. paddr \in DOMAIN start.code /\ i = start.code[paddr]
  BY <1>1, <1>2 DEF CodeAt
<1> QED
  BY <1>1, <1>3, ProcessAssumption DEF MInv

(* The instructions that compute a register.                               *)
LEMMA ComputeAlone ==
  ASSUME Inside, Compute, start.name = "process"
  PROVE  Alone!Compute /\ UNCHANGED mem
<1>1. \A op : Alone!Fetched(op) = Fetched(op)
  BY Unseen
<1>2. \A r, n : Sets(r, n) => Alone!Sets(r, n) /\ UNCHANGED mem
  BY SetsAlone
<1>3. ASSUME inst_exec_add \/ inst_exec_addu \/ inst_exec_sub \/ inst_exec_subu
      PROVE  Alone!Compute /\ UNCHANGED mem
  <2>1. ASSUME inst_exec_add PROVE Alone!inst_exec_add /\ UNCHANGED mem
    BY <1>1, <1>2, <2>1, SameNumbers, Zenon DEF inst_exec_add, Alone!inst_exec_add
  <2>2. ASSUME inst_exec_addu PROVE Alone!inst_exec_addu /\ UNCHANGED mem
    BY <1>1, <1>2, <2>2, SameNumbers, Zenon DEF inst_exec_addu, Alone!inst_exec_addu
  <2>3. ASSUME inst_exec_sub PROVE Alone!inst_exec_sub /\ UNCHANGED mem
    BY <1>1, <1>2, <2>3, SameNumbers, Zenon DEF inst_exec_sub, Alone!inst_exec_sub
  <2>4. ASSUME inst_exec_subu PROVE Alone!inst_exec_subu /\ UNCHANGED mem
    BY <1>1, <1>2, <2>4, SameNumbers, Zenon DEF inst_exec_subu, Alone!inst_exec_subu
  <2> QED
    BY <1>3, <2>1, <2>2, <2>3, <2>4, Zenon DEF Alone!Compute
<1>4. ASSUME inst_exec_addi \/ inst_exec_addiu \/ inst_exec_slti \/ inst_exec_sltiu
      PROVE  Alone!Compute /\ UNCHANGED mem
  <2>1. ASSUME inst_exec_addi PROVE Alone!inst_exec_addi /\ UNCHANGED mem
    BY <1>1, <1>2, <2>1, SameNumbers, Zenon DEF inst_exec_addi, Alone!inst_exec_addi
  <2>2. ASSUME inst_exec_addiu PROVE Alone!inst_exec_addiu /\ UNCHANGED mem
    BY <1>1, <1>2, <2>2, SameNumbers, Zenon DEF inst_exec_addiu, Alone!inst_exec_addiu
  <2>3. ASSUME inst_exec_slti PROVE Alone!inst_exec_slti /\ UNCHANGED mem
    BY <1>1, <1>2, <2>3, SameNumbers, Zenon DEF inst_exec_slti, Alone!inst_exec_slti
  <2>4. ASSUME inst_exec_sltiu PROVE Alone!inst_exec_sltiu /\ UNCHANGED mem
    BY <1>1, <1>2, <2>4, SameNumbers, Zenon DEF inst_exec_sltiu, Alone!inst_exec_sltiu
  <2> QED
    BY <1>4, <2>1, <2>2, <2>3, <2>4, Zenon DEF Alone!Compute
<1>5. ASSUME inst_exec_and \/ inst_exec_or \/ inst_exec_xor \/ inst_exec_nor
      PROVE  Alone!Compute /\ UNCHANGED mem
  <2>1. ASSUME inst_exec_and PROVE Alone!inst_exec_and /\ UNCHANGED mem
    BY <1>1, <1>2, <2>1, SameNumbers, Zenon DEF inst_exec_and, Alone!inst_exec_and
  <2>2. ASSUME inst_exec_or PROVE Alone!inst_exec_or /\ UNCHANGED mem
    BY <1>1, <1>2, <2>2, SameNumbers, Zenon DEF inst_exec_or, Alone!inst_exec_or
  <2>3. ASSUME inst_exec_xor PROVE Alone!inst_exec_xor /\ UNCHANGED mem
    BY <1>1, <1>2, <2>3, SameNumbers, Zenon DEF inst_exec_xor, Alone!inst_exec_xor
  <2>4. ASSUME inst_exec_nor PROVE Alone!inst_exec_nor /\ UNCHANGED mem
    BY <1>1, <1>2, <2>4, SameNumbers, Zenon DEF inst_exec_nor, Alone!inst_exec_nor
  <2> QED
    BY <1>5, <2>1, <2>2, <2>3, <2>4, Zenon DEF Alone!Compute
<1>6. ASSUME inst_exec_andi \/ inst_exec_ori \/ inst_exec_xori \/ inst_exec_lui
      PROVE  Alone!Compute /\ UNCHANGED mem
  <2>1. ASSUME inst_exec_andi PROVE Alone!inst_exec_andi /\ UNCHANGED mem
    BY <1>1, <1>2, <2>1, SameNumbers, Zenon DEF inst_exec_andi, Alone!inst_exec_andi
  <2>2. ASSUME inst_exec_ori PROVE Alone!inst_exec_ori /\ UNCHANGED mem
    BY <1>1, <1>2, <2>2, SameNumbers, Zenon DEF inst_exec_ori, Alone!inst_exec_ori
  <2>3. ASSUME inst_exec_xori PROVE Alone!inst_exec_xori /\ UNCHANGED mem
    BY <1>1, <1>2, <2>3, SameNumbers, Zenon DEF inst_exec_xori, Alone!inst_exec_xori
  <2>4. ASSUME inst_exec_lui PROVE Alone!inst_exec_lui /\ UNCHANGED mem
    BY <1>1, <1>2, <2>4, SameNumbers, Zenon DEF inst_exec_lui, Alone!inst_exec_lui
  <2> QED
    BY <1>6, <2>1, <2>2, <2>3, <2>4, Zenon DEF Alone!Compute
<1>7. ASSUME inst_exec_mfhi \/ inst_exec_mflo PROVE Alone!Compute /\ UNCHANGED mem
  <2>1. ASSUME inst_exec_mfhi PROVE Alone!inst_exec_mfhi /\ UNCHANGED mem
    BY <1>1, <1>2, <2>1, SameNumbers, Zenon DEF inst_exec_mfhi, Alone!inst_exec_mfhi
  <2>2. ASSUME inst_exec_mflo PROVE Alone!inst_exec_mflo /\ UNCHANGED mem
    BY <1>1, <1>2, <2>2, SameNumbers, Zenon DEF inst_exec_mflo, Alone!inst_exec_mflo
  <2> QED
    BY <1>7, <2>1, <2>2, Zenon DEF Alone!Compute
<1>8. ASSUME inst_exec_sll \/ inst_exec_srl PROVE Alone!Compute /\ UNCHANGED mem
  <2>1. ASSUME inst_exec_sll PROVE Alone!inst_exec_sll /\ UNCHANGED mem
    BY <1>1, <1>2, <2>1, SameNumbers, Zenon DEF inst_exec_sll, Alone!inst_exec_sll
  <2>2. ASSUME inst_exec_srl PROVE Alone!inst_exec_srl /\ UNCHANGED mem
    BY <1>1, <1>2, <2>2, SameNumbers, Zenon DEF inst_exec_srl, Alone!inst_exec_srl
  <2> QED
    BY <1>8, <2>1, <2>2, Zenon DEF Alone!Compute
<1>9. ASSUME inst_exec_sllv \/ inst_exec_srlv PROVE Alone!Compute /\ UNCHANGED mem
  <2>1. ASSUME inst_exec_sllv PROVE Alone!inst_exec_sllv /\ UNCHANGED mem
    BY <1>1, <1>2, <2>1, SameNumbers, Zenon DEF inst_exec_sllv, Alone!inst_exec_sllv
  <2>2. ASSUME inst_exec_srlv PROVE Alone!inst_exec_srlv /\ UNCHANGED mem
    BY <1>1, <1>2, <2>2, SameNumbers, Zenon DEF inst_exec_srlv, Alone!inst_exec_srlv
  <2> QED
    BY <1>9, <2>1, <2>2, Zenon DEF Alone!Compute
<1>10. ASSUME inst_exec_slt \/ inst_exec_sltu PROVE Alone!Compute /\ UNCHANGED mem
  <2>1. ASSUME inst_exec_slt PROVE Alone!inst_exec_slt /\ UNCHANGED mem
    BY <1>1, <1>2, <2>1, SameNumbers, Zenon DEF inst_exec_slt, Alone!inst_exec_slt
  <2>2. ASSUME inst_exec_sltu PROVE Alone!inst_exec_sltu /\ UNCHANGED mem
    BY <1>1, <1>2, <2>2, SameNumbers, Zenon DEF inst_exec_sltu, Alone!inst_exec_sltu
  <2> QED
    BY <1>10, <2>1, <2>2, Zenon DEF Alone!Compute
<1>11. ASSUME inst_exec_mfc0 PROVE Alone!Compute /\ UNCHANGED mem
  <2>1. PICK i \in Fetched("MFC0"), c \in Recorded(cpr, adv1) : cpr' = c /\ Sets(i.rt, c[i.rd])
    BY <1>11 DEF inst_exec_mfc0
  <2>2. c = cpr /\ i.rd # GDTBASE
    BY <2>1, Unseen, NoTableAccess DEF Inside
  <2>3. [cpr EXCEPT ![GDTBASE] = 0][i.rd] = cpr[i.rd]
    BY <2>1, <2>2, FetchedTyped, Coprocessor DEF Inside, Instruction
  <2>4. Alone!Sets(i.rt, [cpr EXCEPT ![GDTBASE] = 0][i.rd]) /\ UNCHANGED mem
    BY <1>2, <2>1, <2>2, <2>3
  <2>5. [cpr' EXCEPT ![GDTBASE] = 0] = [cpr EXCEPT ![GDTBASE] = 0]
    BY <2>1, <2>2
  <2>6. Alone!inst_exec_mfc0
    <3>1. Alone!Recorded([cpr EXCEPT ![GDTBASE] = 0], adv1) = {[cpr EXCEPT ![GDTBASE] = 0]}
      BY AloneUntranslated DEF Inside
    <3> QED
      BY <1>1, <2>1, <2>4, <2>5, <3>1, Zenon DEF Alone!inst_exec_mfc0
  <2> QED
    BY <2>4, <2>6, Zenon DEF Alone!Compute
<1> QED
  BY <1>3, <1>4, <1>5, <1>6, <1>7, <1>8, <1>9, <1>10, <1>11, Zenon DEF Compute

(* Products and quotients.                                                 *)
LEMMA MultiplyDivideAlone ==
  ASSUME Inside, MultiplyDivide, start.name = "process"
  PROVE  Alone!MultiplyDivide /\ UNCHANGED mem
<1>1. \A op : Alone!Fetched(op) = Fetched(op)
  BY Unseen
<1>2. \A h, l : SetsHiLo(h, l) => Alone!SetsHiLo(h, l) /\ UNCHANGED mem
  BY SetsHiLoAlone
<1>3. \A n : Product(n) => Alone!Product(n) /\ UNCHANGED mem
  BY <1>2, SameNumbers, Zenon DEF Product, Alone!Product
<1>4. \A n, d : Divide(n, d) => Alone!Divide(n, d) /\ UNCHANGED mem
  BY <1>2, SameNumbers, Zenon DEF Divide, Alone!Divide
<1>5. ASSUME inst_exec_mthi PROVE Alone!inst_exec_mthi /\ UNCHANGED mem
  BY <1>1, <1>2, <1>5, SameNumbers, Zenon
  DEF inst_exec_mthi, Alone!inst_exec_mthi
<1>6. ASSUME inst_exec_mtlo PROVE Alone!inst_exec_mtlo /\ UNCHANGED mem
  BY <1>1, <1>2, <1>6, SameNumbers, Zenon
  DEF inst_exec_mtlo, Alone!inst_exec_mtlo
<1>7. ASSUME inst_exec_mult PROVE Alone!inst_exec_mult /\ UNCHANGED mem
  BY <1>1, <1>3, <1>7, SameNumbers, Zenon
  DEF inst_exec_mult, Alone!inst_exec_mult
<1>8. ASSUME inst_exec_multu PROVE Alone!inst_exec_multu /\ UNCHANGED mem
  BY <1>1, <1>3, <1>8, SameNumbers, Zenon
  DEF inst_exec_multu, Alone!inst_exec_multu
<1>9. ASSUME inst_exec_div PROVE Alone!inst_exec_div /\ UNCHANGED mem
  BY <1>1, <1>4, <1>9, SameNumbers, Zenon
  DEF inst_exec_div, Alone!inst_exec_div, Overflows, Alone!Overflows
<1>10. ASSUME inst_exec_divu PROVE Alone!inst_exec_divu /\ UNCHANGED mem
  BY <1>1, <1>4, <1>10, SameNumbers, Zenon
  DEF inst_exec_divu, Alone!inst_exec_divu
<1> QED
  BY <1>5, <1>6, <1>7, <1>8, <1>9, <1>10, Zenon DEF MultiplyDivide, Alone!MultiplyDivide

(* Branches and jumps.                                                     *)
LEMMA TransferAlone ==
  ASSUME Inside, Transfer, start.name = "process"
  PROVE  Alone!Transfer /\ UNCHANGED mem
<1>1. \A op : Alone!Fetched(op) = Fetched(op)
  BY Unseen
<1>2. Unlinked => Alone!Unlinked /\ UNCHANGED mem
  BY Unseen DEF Unlinked, Alone!Unlinked, storage
<1>3. Linked => Alone!Linked /\ UNCHANGED mem
  <2>1. Write(Ra, adv1 + 8) => Alone!Write(Ra, adv1 + 8)
    BY SameNumbers, Zenon DEF Write, Alone!Write
  <2> QED
    BY <2>1, Unseen DEF Linked, Alone!Linked, storage
<1>4. \A target : BranchTo(target) => Alone!BranchTo(target)
  BY DEF BranchTo, Alone!BranchTo
<1>5. \A i, taken : BranchIf(i, taken) => Alone!BranchIf(i, taken)
  BY <1>4, SameNumbers, Zenon DEF BranchIf, Alone!BranchIf
<1>6. ASSUME inst_exec_beq PROVE Alone!inst_exec_beq /\ UNCHANGED mem
  BY <1>1, <1>2, <1>5, <1>6, SameNumbers, Zenon DEF inst_exec_beq, Alone!inst_exec_beq
<1>7. ASSUME inst_exec_bne PROVE Alone!inst_exec_bne /\ UNCHANGED mem
  BY <1>1, <1>2, <1>5, <1>7, SameNumbers, Zenon DEF inst_exec_bne, Alone!inst_exec_bne
<1>8. ASSUME inst_exec_bgez PROVE Alone!inst_exec_bgez /\ UNCHANGED mem
  BY <1>1, <1>2, <1>5, <1>8, SameNumbers, Zenon DEF inst_exec_bgez, Alone!inst_exec_bgez
<1>9. ASSUME inst_exec_bltz PROVE Alone!inst_exec_bltz /\ UNCHANGED mem
  BY <1>1, <1>2, <1>5, <1>9, SameNumbers, Zenon DEF inst_exec_bltz, Alone!inst_exec_bltz
<1>10. ASSUME inst_exec_bgezal PROVE Alone!inst_exec_bgezal /\ UNCHANGED mem
  BY <1>1, <1>3, <1>5, <1>10, SameNumbers, Zenon DEF inst_exec_bgezal, Alone!inst_exec_bgezal
<1>11. ASSUME inst_exec_j PROVE Alone!inst_exec_j /\ UNCHANGED mem
  BY <1>1, <1>2, <1>4, <1>11, SameNumbers, Zenon DEF inst_exec_j, Alone!inst_exec_j
<1>12. ASSUME inst_exec_jal PROVE Alone!inst_exec_jal /\ UNCHANGED mem
  BY <1>1, <1>3, <1>4, <1>12, SameNumbers, Zenon DEF inst_exec_jal, Alone!inst_exec_jal
<1>13. ASSUME inst_exec_jr PROVE Alone!inst_exec_jr /\ UNCHANGED mem
  BY <1>1, <1>2, <1>4, <1>13, SameNumbers, Zenon DEF inst_exec_jr, Alone!inst_exec_jr
<1>14. ASSUME inst_exec_jalr PROVE Alone!inst_exec_jalr /\ UNCHANGED mem
  BY <1>1, <1>3, <1>4, <1>14, SameNumbers, Zenon DEF inst_exec_jalr, Alone!inst_exec_jalr
<1> QED
  BY <1>6, <1>7, <1>8, <1>9, <1>10, <1>11, <1>12, <1>13, <1>14, Zenon DEF Transfer, Alone!Transfer

(* Moves between registers.                                                *)
LEMMA MoveAlone ==
  ASSUME Inside, Move, start.name = "process"
  PROVE  Alone!Move /\ UNCHANGED mem
<1>1. \A op : Alone!Fetched(op) = Fetched(op)
  BY Unseen
<1>2. ASSUME inst_exec_mtc0 PROVE Alone!inst_exec_mtc0 /\ UNCHANGED mem
  <2>1. PICK i \in Fetched("MTC0"), c \in Recorded(cpr, adv1) :
          /\ cpr' = [c EXCEPT ![i.rd] = gpr[i.rt]]
          /\ Advance
          /\ UNCHANGED <<start, gpr, shadow, hi, lo, stop, storage>>
    BY <1>2 DEF inst_exec_mtc0
  <2>2. c = cpr /\ i.rd # GDTBASE
    BY <2>1, Unseen, NoTableAccess DEF Inside
  <2>3. [cpr' EXCEPT ![GDTBASE] = 0] = [[cpr EXCEPT ![GDTBASE] = 0] EXCEPT ![i.rd] = gpr[i.rt]]
    BY <2>1, <2>2, Coprocessor DEF Inside
  <2>4. Alone!Recorded([cpr EXCEPT ![GDTBASE] = 0], adv1) = {[cpr EXCEPT ![GDTBASE] = 0]}
    BY AloneUntranslated DEF Inside
  <2>5. Alone!Advance /\ UNCHANGED Alone!storage /\ UNCHANGED mem
    BY <2>1, Unseen DEF storage
  <2> QED
    BY <1>1, <2>1, <2>3, <2>4, <2>5, Unseen, Zenon DEF Alone!inst_exec_mtc0
<1>3. ASSUME inst_exec_rdpgpr PROVE Alone!inst_exec_rdpgpr /\ UNCHANGED mem
  BY <1>1, <1>3, Unseen DEF inst_exec_rdpgpr, Alone!inst_exec_rdpgpr, storage
<1>4. ASSUME inst_exec_wrpgpr PROVE Alone!inst_exec_wrpgpr /\ UNCHANGED mem
  BY <1>1, <1>4, Unseen DEF inst_exec_wrpgpr, Alone!inst_exec_wrpgpr, storage
<1>5. ASSUME inst_exec_sync PROVE Alone!inst_exec_sync /\ UNCHANGED mem
  BY <1>1, <1>5, Unseen DEF inst_exec_sync, Alone!inst_exec_sync, storage
<1> QED
  BY <1>2, <1>3, <1>4, <1>5, Zenon DEF Move, Alone!Move

(* What ends the loop; a table that is in place is in memory.              *)
LEMMA StopAlone ==
  ASSUME Inside, inst_not_implemented \/ DivisionTraps \/ TableCrashes
  PROVE  Alone!Next /\ UNCHANGED mem
<1>1. \A op : Alone!Fetched(op) = Fetched(op)
  BY Unseen
<1>2. \A how : Stop(how) => Alone!Stop(how) /\ UNCHANGED mem
  BY Unseen DEF Stop, Alone!Stop, storage
<1>3. ASSUME inst_not_implemented PROVE Alone!inst_not_implemented /\ UNCHANGED mem
  BY <1>1, <1>2, <1>3, Zenon DEF inst_not_implemented, Alone!inst_not_implemented
<1>4. ASSUME DivisionTraps PROVE Alone!DivisionTraps /\ UNCHANGED mem
  BY <1>1, <1>2, <1>4, SameNumbers, Zenon
  DEF DivisionTraps, Alone!DivisionTraps, Overflows, Alone!Overflows
<1>5. ASSUME TableCrashes PROVE FALSE
  <2>1. PICK vaddr : Beyond(vaddr) /\ (vaddr = adv1 \/ \E i \in UNION {Fetched(op) : op \in {"LB", "LW", "SB", "SW"}} : vaddr = Vaddr(i))
    BY <1>5 DEF TableCrashes
  <2>2. vaddr \in 0..Space - 1
    <3>1. \A v, len : len \in {1, 4} /\ Whole(v, len) => v + 0 \in 0..Space - 1
      BY DEF Whole
    <3>2. vaddr \in Word /\ (Whole(vaddr, 4) \/ Whole(vaddr, 1))
      BY <2>1, Addresses, FetchedTyped DEF Inside, StaysInside, Addressed
    <3> QED
      BY <3>1, <3>2, Coprocessor DEF Inside
  <2> QED
    BY <2>1, <2>2, InPlaceTranslated DEF Inside
<1> QED
  BY <1>3, <1>4, <1>5, Zenon DEF Alone!Next

-----------------------------------------------------------------------------
(* Loads and stores.                                                       *)

(* The memory of the process, as it sees it.                               *)
Seen(m) == [v \in 0..Space - 1 |-> m[Home[v]]]

(* A byte or a word within the addresses of the process.                   *)
LEMMA WholePlaces ==
  ASSUME NEW v \in Word, NEW len \in {1, 4}, Whole(v, len)
  PROVE  /\ v \in 0..Space - 1 /\ Home[v] \in Nat /\ ~AddressError(Home[v], len)
         /\ ~Alone!AddressError(v, len)
         /\ \A k \in 0..len - 1 : v + k \in 0..Space - 1 /\ Home[v + k] = Home[v] + k
<1>1. v \in Nat
  BY Widths DEF Word
<1>2. \A k \in 0..len - 1 : v + k \in 0..Space - 1 /\ Home[v + k] = Home[v] + k
  BY DEF Whole
<1>3. v + 0 \in 0..Space - 1 /\ v + (len - 1) \in 0..Space - 1 /\ Home[v + (len - 1)] = Home[v] + (len - 1)
  BY <1>2
<1>4. Home[v] \in 0..MemSize - 1 /\ Home[v + (len - 1)] \in 0..MemSize - 1
  BY <1>1, <1>3, Homes
<1>5. ~AddressError(Home[v], len) /\ ~Alone!AddressError(v, len)
  BY <1>1, <1>3, <1>4, Homes DEF AddressError, Alone!AddressError
<1> QED
  BY <1>1, <1>2, <1>3, <1>4, <1>5

(* A load gives what it would alone.                                       *)
LEMMA SameRead ==
  ASSUME NEW m, NEW v \in Word, NEW len \in {1, 4}, Whole(v, len)
  PROVE  Read(m, Home[v], len) = Alone!Read(Seen(m), v, len)
<1>1. v \in 0..Space - 1 /\ v \in Nat /\ Home[v] \in Nat
  BY WholePlaces, Widths DEF Word
<1>2. \A k \in 0..len - 1 : v + k \in 0..Space - 1 /\ Home[v + k] = Home[v] + k
  BY WholePlaces
<1>3. CASE len = 1
  <2>1. Seen(m)[v] = m[Home[v]]
    BY <1>1 DEF Seen
  <2> QED
    BY <1>3, <2>1, SameNumbers DEF Read, Alone!Read
<1>4. CASE len = 4
  <2>0. 1 \in 0..len - 1 /\ 2 \in 0..len - 1 /\ 3 \in 0..len - 1
    BY <1>4
  <2>1. /\ v + 1 \in 0..Space - 1 /\ Home[v + 1] = Home[v] + 1
        /\ v + 2 \in 0..Space - 1 /\ Home[v + 2] = Home[v] + 2
        /\ v + 3 \in 0..Space - 1 /\ Home[v + 3] = Home[v] + 3
    BY <1>2, <2>0
  <2>2. /\ Seen(m)[v] = m[Home[v]] /\ Seen(m)[v + 1] = m[Home[v] + 1]
        /\ Seen(m)[v + 2] = m[Home[v] + 2] /\ Seen(m)[v + 3] = m[Home[v] + 3]
    BY <1>1, <2>1 DEF Seen
  <2> QED
    BY <1>4, <2>2, SameNumbers, Zenon DEF Read, Alone!Read, WordAt, Alone!WordAt
<1> QED
  BY <1>3, <1>4

(* A store changes what it would alone, and nothing of the others.         *)
LEMMA SamePut ==
  ASSUME NEW m \in Bytes(MemSize), NEW v \in Word, NEW len \in {1, 4}, Whole(v, len), NEW word
  PROVE  /\ Seen(Put(m, Home[v], len, word)) = Alone!Put(Seen(m), v, len, word)
         /\ \A a \in DOMAIN m :
              (\A u \in 0..Space - 1 : Home[u] # a) => Put(m, Home[v], len, word)[a] = m[a]
<1>1. v \in 0..Space - 1 /\ v \in Nat /\ Home[v] \in Nat
  BY WholePlaces, Widths DEF Word
<1>2. \A k \in 0..len - 1 : v + k \in 0..Space - 1 /\ Home[v + k] = Home[v] + k
  BY WholePlaces
<1>3. DOMAIN m = 0..MemSize - 1
  BY DEF Bytes
<1>4. ASSUME NEW a \in Home[v]..Home[v] + len - 1
      PROVE  \E k \in 0..len - 1 : a = Home[v + k] /\ v + k \in 0..Space - 1 /\ a = Home[v] + k
  <2>1. a - Home[v] \in 0..len - 1 /\ a = Home[v] + (a - Home[v])
    BY <1>1
  <2> QED
    BY <1>2, <2>1
<1>5. ASSUME NEW u \in 0..Space - 1
      PROVE  Put(m, Home[v], len, word)[Home[u]] = Alone!Put(Seen(m), v, len, word)[u]
  <2>1. Home[u] \in 0..MemSize - 1
    BY Homes
  <2>2. CASE u \in v..v + len - 1
    <3>1. u - v \in 0..len - 1 /\ v + (u - v) = u
      BY <1>1, <2>2
    <3>2. Home[u] = Home[v] + (u - v)
      BY <1>2, <3>1
    <3>3. Home[u] \in Home[v]..Home[v] + len - 1 /\ Home[u] - Home[v] = u - v
      BY <1>1, <3>1, <3>2
    <3>4. Put(m, Home[v], len, word)[Home[u]] = ByteOf(word, u - v)
      BY <1>3, <2>1, <3>3 DEF Put
    <3>5. Alone!Put(Seen(m), v, len, word)[u] = Alone!ByteOf(word, u - v)
      BY <2>2 DEF Alone!Put, Seen
    <3>6. Alone!ByteOf(word, u - v) = ByteOf(word, u - v)
      BY SameNumbers, Zenon DEF ByteOf, Alone!ByteOf
    <3> QED
      BY <3>4, <3>5, <3>6
  <2>3. CASE u \notin v..v + len - 1
    <3>1. Home[u] \notin Home[v]..Home[v] + len - 1
      <4> SUFFICES ASSUME Home[u] \in Home[v]..Home[v] + len - 1 PROVE FALSE
        OBVIOUS
      <4>1. PICK k \in 0..len - 1 : Home[u] = Home[v + k] /\ v + k \in 0..Space - 1
        BY <1>4
      <4>2. u = v + k
        BY <4>1, Homes
      <4> QED
        BY <1>1, <2>3, <4>2
    <3>2. Put(m, Home[v], len, word)[Home[u]] = m[Home[u]]
      BY <1>3, <2>1, <3>1 DEF Put
    <3>3. Alone!Put(Seen(m), v, len, word)[u] = m[Home[u]]
      BY <2>3 DEF Alone!Put, Seen
    <3> QED
      BY <3>2, <3>3
  <2> QED
    BY <2>2, <2>3
<1>6. Seen(Put(m, Home[v], len, word)) = Alone!Put(Seen(m), v, len, word)
  <2>1. DOMAIN Seen(m) = 0..Space - 1
    BY DEF Seen
  <2> DEFINE P == Alone!Put(Seen(m), v, len, word)
             Q == Put(m, Home[v], len, word)
  <2>2. P = [u \in 0..Space - 1 |-> P[u]]
    BY <2>1 DEF Alone!Put
  <2>3. \A u \in 0..Space - 1 : Q[Home[u]] = P[u]
    BY <1>5
  <2> HIDE DEF P, Q
  <2>4. Seen(Q) = P
    BY <2>2, <2>3 DEF Seen
  <2> QED
    BY <2>4 DEF P, Q
<1>7. ASSUME NEW a \in DOMAIN m, \A u \in 0..Space - 1 : Home[u] # a
      PROVE  Put(m, Home[v], len, word)[a] = m[a]
  <2>1. a \notin Home[v]..Home[v] + len - 1
    BY <1>4, <1>7
  <2> QED
    BY <2>1 DEF Put
<1> QED
  BY <1>6, <1>7

(* A load or a store of the process: its address, which is the same alone, *)
(* is translated without a trace.                                          *)
LEMMA AccessUnseen ==
  ASSUME Inside, NEW op \in {"LB", "LW", "SB", "SW"}, NEW len,
         len = IF op \in {"LW", "SW"} THEN 4 ELSE 1, NEW i \in Fetched(op)
  PROVE  /\ Vaddr(i) \in Word /\ Whole(Vaddr(i), len) /\ Vaddr(i) \in 0..Space - 1 /\ len \in {1, 4}
         /\ Alone!Vaddr(i) = Vaddr(i)
         /\ Paddrs(Vaddr(i)) = {Home[Vaddr(i)]} /\ Alone!Paddrs(Vaddr(i)) = {Vaddr(i)}
         /\ AfterAccess(i) = {cpr}
         /\ [cpr EXCEPT ![GDTBASE] = 0] \in Alone!AfterAccess(i)
<1>1. MInv /\ TableInPlace /\ Vaddr(i) \in Word /\ len \in {1, 4}
  BY FetchedTyped, Addresses DEF Inside
<1>2. Whole(Vaddr(i), len)
  BY DEF Inside, StaysInside, Addressed
<1>3. Vaddr(i) \in 0..Space - 1
  BY <1>1, <1>2, WholePlaces
<1>4. Alone!Vaddr(i) = Vaddr(i)
  BY SameNumbers, Zenon DEF Vaddr, Alone!Vaddr
<1>5. Paddrs(Vaddr(i)) = {Home[Vaddr(i)]} /\ Alone!Paddrs(Vaddr(i)) = {Vaddr(i)}
  BY <1>1, <1>3, InPlaceTranslated, AloneUntranslated
<1>6. AfterAccess(i) = {cpr}
  <2>1. Recorded(cpr, adv1) = {cpr} /\ Recorded(cpr, Vaddr(i)) = {cpr}
    BY <1>1, <1>3, InPlaceTranslated, Unseen
  <2> QED
    BY <2>1 DEF AfterAccess
<1>7. [cpr EXCEPT ![GDTBASE] = 0] \in Alone!AfterAccess(i)
  <2> DEFINE c == [cpr EXCEPT ![GDTBASE] = 0]
  <2>1. Alone!Recorded(c, adv1) = {c} /\ Alone!Recorded(c, Alone!Vaddr(i)) = {c}
    BY <1>1, AloneUntranslated
  <2>2. Alone!AfterAccess(i) = UNION {Alone!Recorded(d, Alone!Vaddr(i)) : d \in Alone!Recorded(c, adv1)}
    BY Zenon DEF Alone!AfterAccess
  <2> HIDE DEF c
  <2>3. c \in Alone!AfterAccess(i)
    BY <2>1, <2>2
  <2> QED
    BY <2>3 DEF c
<1> QED
  BY <1>1, <1>2, <1>3, <1>4, <1>5, <1>6, <1>7

(* A load.                                                                 *)
LEMMA LoadAlone ==
  ASSUME Inside, NEW op \in {"LB", "LW"}, NEW len, len = IF op = "LW" THEN 4 ELSE 1,
         NEW i \in Fetched(op), Load(i, len)
  PROVE  Alone!Load(i, len) /\ UNCHANGED mem
<1> DEFINE v == Vaddr(i)
<1>1. /\ v \in Word /\ Whole(v, len) /\ len \in {1, 4} /\ Alone!Vaddr(i) = v
      /\ Paddrs(v) = {Home[v]} /\ Alone!Paddrs(v) = {v} /\ AfterAccess(i) = {cpr}
      /\ [cpr EXCEPT ![GDTBASE] = 0] \in Alone!AfterAccess(i)
  BY AccessUnseen
<1>2. ~AddressError(Home[v], len) /\ ~Alone!AddressError(v, len)
  BY <1>1, WholePlaces
<1>3. Read(mem, Home[v], len) = Alone!Read(Seen(mem), v, len)
  BY <1>1, SameRead
<1>4. /\ Write(i.rt, Read(mem, Home[v], len)) /\ UNCHANGED stop /\ cpr' = cpr /\ Advance
      /\ UNCHANGED <<start, shadow, hi, lo, storage>>
  BY <1>1, <1>2 DEF Load
<1>5. Alone!Write(i.rt, Alone!Read(Seen(mem), v, len))
  BY <1>3, <1>4, SameNumbers DEF Write, Alone!Write
<1>6. Alone!Advance /\ UNCHANGED Alone!storage /\ UNCHANGED mem
  BY <1>4, Unseen DEF storage
<1>7. [cpr' EXCEPT ![GDTBASE] = 0] \in Alone!AfterAccess(i)
  BY <1>1, <1>4
<1> HIDE DEF v
<1> QED
  BY <1>1, <1>2, <1>4, <1>5, <1>6, <1>7, Unseen, Zenon DEF Alone!Load, Seen, v

(* A store.                                                                *)
LEMMA StoreAlone ==
  ASSUME Inside, NEW op \in {"SB", "SW"}, NEW len, len = IF op = "SW" THEN 4 ELSE 1,
         NEW i \in Fetched(op), StoreIn(i, len)
  PROVE  /\ Alone!StoreIn(i, len)
         /\ \A a \in DOMAIN mem : (\A u \in 0..Space - 1 : Home[u] # a) => mem'[a] = mem[a]
<1> DEFINE v == Vaddr(i)
           word == gpr[i.rt]
<1>1. /\ v \in Word /\ v \in 0..Space - 1 /\ Whole(v, len) /\ len \in {1, 4} /\ Alone!Vaddr(i) = v
      /\ Paddrs(v) = {Home[v]} /\ Alone!Paddrs(v) = {v} /\ AfterAccess(i) = {cpr}
      /\ [cpr EXCEPT ![GDTBASE] = 0] \in Alone!AfterAccess(i)
  BY AccessUnseen
<1>2. ~AddressError(Home[v], len) /\ ~Alone!AddressError(v, len)
  BY <1>1, WholePlaces
<1>3. Home[v] # HddPort /\ Home[v] # DmaPort /\ v # WordSpace
  BY <1>1, Homes DEF Word
<1>4. /\ mem' = Put(mem, Home[v], len, word) /\ UNCHANGED <<disk, stop>> /\ cpr' = cpr /\ Advance
      /\ UNCHANGED <<start, gpr, shadow, hi, lo>>
  BY <1>1, <1>2, <1>3 DEF StoreIn, Store, StoreUndefined
<1>5. mem \in Bytes(MemSize)
  BY Storage DEF Inside
<1>6. /\ Seen(mem') = Alone!Put(Seen(mem), v, len, word)
      /\ \A a \in DOMAIN mem : (\A u \in 0..Space - 1 : Home[u] # a) => mem'[a] = mem[a]
  BY <1>1, <1>4, <1>5, SamePut
<1>7. Alone!Advance
  BY <1>4, Unseen
<1>8. [cpr' EXCEPT ![GDTBASE] = 0] \in Alone!AfterAccess(i)
  BY <1>1, <1>4
<1>9. Alone!Store(v, len, word)
  BY <1>3, <1>4, <1>6, SameNumbers, Zenon DEF Alone!Store, Seen
<1> HIDE DEF v, word
<1>10. Alone!StoreIn(i, len)
  BY <1>1, <1>2, <1>4, <1>7, <1>8, <1>9, Unseen, Zenon DEF Alone!StoreIn, v, word
<1> QED
  BY <1>6, <1>10

(* Every step of a process in its place is one it would take alone, and    *)
(* leaves the memory of the others as it is.                               *)
LEMMA StepAlone ==
  ASSUME Inside, Next, start.name = "process"
  PROVE  /\ Alone!Next
         /\ \A a \in DOMAIN mem : (\A u \in 0..Space - 1 : Home[u] # a) => mem'[a] = mem[a]
<1> DEFINE OthersKept ==
             \A a \in DOMAIN mem : (\A u \in 0..Space - 1 : Home[u] # a) => mem'[a] = mem[a]
<1>0. \A op : Alone!Fetched(op) = Fetched(op)
  BY Unseen
<1>1. CASE Compute \/ MultiplyDivide \/ Transfer \/ Move
  BY <1>1, ComputeAlone, MultiplyDivideAlone, TransferAlone, MoveAlone DEF Alone!Next
<1>2. CASE inst_exec_lb \/ inst_exec_lw
  BY <1>0, <1>2, LoadAlone
  DEF inst_exec_lb, inst_exec_lw, Alone!inst_exec_lb, Alone!inst_exec_lw, Alone!Access, Alone!Next
<1>3. CASE inst_exec_sb
  <2>1. PICK i \in Fetched("SB") : StoreIn(i, 1)
    BY <1>3 DEF inst_exec_sb
  <2>2. Alone!StoreIn(i, 1) /\ OthersKept
    BY <2>1, StoreAlone
  <2> QED
    BY <1>0, <2>1, <2>2, Zenon DEF Alone!inst_exec_sb, Alone!Access, Alone!Next
<1>4. CASE inst_exec_sw
  <2>1. PICK i \in Fetched("SW") : StoreIn(i, 4)
    BY <1>4 DEF inst_exec_sw
  <2>2. Alone!StoreIn(i, 4) /\ OthersKept
    BY <2>1, StoreAlone
  <2> QED
    BY <1>0, <2>1, <2>2, Zenon DEF Alone!inst_exec_sw, Alone!Access, Alone!Next
<1>5. CASE inst_not_implemented \/ DivisionTraps \/ TableCrashes
  BY <1>5, StopAlone
<1> QED
  BY <1>1, <1>2, <1>3, <1>4, <1>5 DEF Next, Access

(* A process whose table is in place while it stays within its addresses   *)
(* runs as it would alone, and changes nothing of the others, whatever its *)
(* instructions are and wherever the table places it (mmu.c:46-91,         *)
(* memu.c:127-133).                                                        *)
THEOREM ProcessesRelocated ==
  Spec /\ [](start.name = "process" /\ StaysInside => TableInPlace) => Relocated
<1>1. MInv /\ (start.name = "process" /\ StaysInside => TableInPlace) /\ [Next]_vars =>
        [start.name = "process" /\ StaysInside =>
           /\ Alone!Next
           /\ \A a \in DOMAIN mem : (\A v \in 0..Space - 1 : Home[v] # a) => mem'[a] = mem[a]]_vars
  BY StepAlone DEF Inside
<1> QED
  BY <1>1, MInvInit, MInvNext, PTL DEF Spec, Relocated

-----------------------------------------------------------------------------
(* The table stays in place.                                               *)

(* A process does not change where its table is.                           *)
LEMMA BaseStays ==
  ASSUME MInv, start.name = "process", Next, NEW r \in {GDTBASE, MMUD}
  PROVE  cpr'[r] = cpr[r]
<1>0. /\ cpr \in [CprNumbers -> Word] /\ r \in CprNumbers /\ r # PFLA
  BY Coprocessor DEF GDTBASE, MMUD, PFLA
<1>1. \A c, v : c \in [CprNumbers -> Word] =>
        \A d \in Recorded(c, v) : d[r] = c[r]
  BY <1>0 DEF Recorded
<1>2. Recording => cpr'[r] = cpr[r]
  BY <1>0, <1>1 DEF Recording
<1>3. \A c \in Recorded(cpr, adv1) : c \in [CprNumbers -> Word] /\ c[r] = cpr[r]
  BY <1>0, <1>1, RecordingTyped
<1>4. ASSUME NEW i, cpr' \in AfterAccess(i) PROVE cpr'[r] = cpr[r]
  BY <1>1, <1>3, <1>4 DEF AfterAccess
<1>5. CASE Compute
  BY <1>2, <1>5, ComputeSets DEF Sets
<1>6. CASE MultiplyDivide
  BY <1>2, <1>6
  DEF MultiplyDivide, SetsHiLo, Product, Divide, inst_exec_mthi, inst_exec_mtlo, inst_exec_mult,
      inst_exec_multu, inst_exec_div, inst_exec_divu
<1>7. CASE Transfer
  BY <1>2, <1>7
  DEF Transfer, Linked, Unlinked, inst_exec_beq, inst_exec_bne, inst_exec_bgez, inst_exec_bltz,
      inst_exec_bgezal, inst_exec_j, inst_exec_jal, inst_exec_jr, inst_exec_jalr
<1>8. CASE Access
  BY <1>4, <1>8
  DEF Access, Load, StoreIn, inst_exec_lb, inst_exec_lw, inst_exec_sb, inst_exec_sw
<1>9. CASE inst_exec_mtc0
  <2>1. PICK i \in Fetched("MTC0"), c \in Recorded(cpr, adv1) :
          cpr' = [c EXCEPT ![i.rd] = gpr[i.rt]]
    BY <1>9 DEF inst_exec_mtc0
  <2>2. i.rd # r
    BY <2>1, NoTableAccess
  <2> QED
    BY <1>0, <1>3, <2>1, <2>2
<1>10. CASE inst_exec_rdpgpr \/ inst_exec_wrpgpr \/ inst_exec_sync
  BY <1>2, <1>10 DEF inst_exec_rdpgpr, inst_exec_wrpgpr, inst_exec_sync
<1>11. CASE inst_not_implemented \/ DivisionTraps \/ TableCrashes
  BY <1>2, <1>11 DEF inst_not_implemented, DivisionTraps, TableCrashes, Stop
<1> QED
  BY <1>5, <1>6, <1>7, <1>8, <1>9, <1>10, <1>11 DEF Next, Move

(* The base of the table is where it was when the process began.           *)
BaseKept ==
  start.name = "process" => cpr[GDTBASE] = start.cpr[GDTBASE] /\ cpr[MMUD] = start.cpr[MMUD]

(* When the table and its base stay, so does the translation.              *)
LEMMA SameTranslation ==
  ASSUME MInv, NEW v,
         cpr'[GDTBASE] = cpr[GDTBASE], cpr'[MMUD] = cpr[MMUD],
         \A i \in 0..GdtSize - 1, k \in 0..3 : InMemory(i) => Gdt(i, k)' = Gdt(i, k)
  PROVE  Paddrs(v)' = Paddrs(v) /\ PageFault(v)' = PageFault(v)
<1>1. Translated' = Translated /\ Unassigned' = Unassigned
  BY DEF Translated, Unassigned
<1>2. \A i \in 0..GdtSize - 1 : InMemory(i)' = InMemory(i)
  BY DEF InMemory
<1>3. \A i \in 0..GdtSize - 1 : Matches(i, v)' <=> Matches(i, v)
  <2> SUFFICES ASSUME NEW i \in 0..GdtSize - 1 PROVE Matches(i, v)' <=> Matches(i, v)
    OBVIOUS
  <2>1. CASE InMemory(i)
    <3>1. Gdt(i, 1)' = Gdt(i, 1) /\ Gdt(i, 2)' = Gdt(i, 2) /\ Gdt(i, 3)' = Gdt(i, 3)
      BY <2>1
    <3> QED
      BY <1>2, <3>1, Zenon DEF Matches
  <2>2. CASE ~InMemory(i)
    BY <1>2, <2>2, Zenon DEF Matches
  <2> QED
    BY <2>1, <2>2
<1>4. NoMatch(v)' <=> NoMatch(v)
  BY <1>1, <1>3, Zenon DEF NoMatch
<1>5. PageFault(v)' = PageFault(v)
  <2>1. PageFault(v)' <=> PageFault(v)
    BY <1>2, <1>4, Zenon DEF PageFault
  <2> QED
    BY <2>1, Zenon DEF PageFault
<1>6. Beyond(v)' <=> Beyond(v)
  BY <1>2, <1>4, Zenon DEF Beyond
<1>7. CASE Unassigned \/ Beyond(v)
  <2>1. Paddrs(v) = Word
    BY <1>7, Zenon DEF Paddrs
  <2>2. Paddrs(v)' = Word
    BY <1>1, <1>6, <1>7, Zenon DEF Paddrs
  <2> QED
    BY <1>5, <2>1, <2>2
<1>8. CASE ~(Unassigned \/ Beyond(v)) /\ ~(Translated /\ ~PageFault(v))
  <2>1. Paddrs(v) = {v}
    BY <1>8, Zenon DEF Paddrs
  <2>2. Paddrs(v)' = {v}
    BY <1>1, <1>5, <1>6, <1>8, Zenon DEF Paddrs
  <2> QED
    BY <1>5, <2>1, <2>2
<1>9. CASE ~(Unassigned \/ Beyond(v)) /\ Translated /\ ~PageFault(v)
  <2>1. PICK i \in 0..GdtSize - 1 : Matches(i, v)
    BY <1>9 DEF NoMatch, PageFault, Beyond
  <2> DEFINE IsFirst(n) == n \in 0..GdtSize - 1 /\ Matches(n, v) /\ \A j \in 0..n - 1 : ~Matches(j, v)
  <2>0. PICK f : f = First(v)
    OBVIOUS
  <2>2. IsFirst(f)
    BY <2>0, <2>1, FirstMatches
  <2>3. \A j \in 0..f - 1 : j \in 0..GdtSize - 1
    BY <2>2, MemoryAssumption
  <2>4. Matches(f, v)' /\ \A j \in 0..f - 1 : ~Matches(j, v)'
    BY <1>3, <2>2, <2>3, Zenon
  <2>13. PICK g : g = First(v)'
    OBVIOUS
  <2>5. g \in 0..GdtSize - 1 /\ Matches(g, v)' /\ \A j \in 0..g - 1 : ~Matches(j, v)'
    BY <2>2, <2>4, <2>13, Zenon DEF First
  <2>6. \A j \in 0..g - 1 : j \in 0..GdtSize - 1
    BY <2>5, MemoryAssumption
  <2>7. IsFirst(g)
    BY <1>3, <2>5, <2>6, Zenon
  <2>8. f = g
    <3>1. f \in Nat /\ g \in Nat
      BY <2>2, <2>5, MemoryAssumption
    <3> QED
      BY <2>2, <2>7, <3>1
  <2>9. InMemory(f)
    BY <2>2 DEF Matches
  <2>10. Gdt(f, 0)' = Gdt(f, 0) /\ Gdt(f, 1)' = Gdt(f, 1)
    BY <2>2, <2>9
  <2>11. Paddrs(v) = {(v + Gdt(f, 0) - Gdt(f, 1)) % WordSpace}
    BY <1>9, <2>0, Zenon DEF Paddrs
  <2>12. Paddrs(v)' = {(v + Gdt(g, 0)' - Gdt(g, 1)') % WordSpace}
    BY <1>1, <1>5, <1>6, <1>9, <2>13, Zenon DEF Paddrs
  <2> QED
    BY <1>5, <2>8, <2>10, <2>11, <2>12
<1> QED
  BY <1>7, <1>8, <1>9

(* A step of a process in its place leaves the table in place.             *)
LEMMA TableStays ==
  ASSUME Inside, Next, start.name = "process", BaseKept
  PROVE  TableInPlace'
<1>0. MInv /\ TableInPlace
  BY DEF Inside
<1> DEFINE base == cpr[GDTBASE]
<1>1. cpr'[GDTBASE] = cpr[GDTBASE] /\ cpr'[MMUD] = cpr[MMUD]
  BY <1>0, BaseStays
<1>2. base \in Nat /\ base = start.cpr[GDTBASE] /\ start \in Starts
  BY <1>0, Coprocessor DEF BaseKept, MInv
<1>3. \A a \in DOMAIN mem : (\A u \in 0..Space - 1 : Home[u] # a) => mem'[a] = mem[a]
  BY StepAlone
<1>4. DOMAIN mem = 0..MemSize - 1
  BY <1>0, Storage DEF Bytes
<1> HIDE DEF base
<1>5. ASSUME NEW i \in 0..GdtSize - 1, NEW k \in 0..3, InMemory(i)
      PROVE  Gdt(i, k)' = Gdt(i, k)
  <2>1. i \in Nat /\ base + 16 * (i + 1) <= MemSize
    BY <1>5, MemoryAssumption DEF InMemory, base
  <2>2. ASSUME NEW j \in 0..3 PROVE mem'[base + 16 * i + 4 * k + j] = mem[base + 16 * i + 4 * k + j]
    <3>1. PICK a \in Nat : a = base + 16 * i + 4 * k + j
      BY <1>2, <2>1
    <3>2. a \in DOMAIN mem /\ a - (base + 16 * i) \in 0..15
      <4>1. MemSize \in Nat
        BY <1>0, Storage
      <4>2. a - (base + 16 * i) = 4 * k + j
        BY <1>2, <2>1, <3>1
      <4>3. 4 * k + j \in 0..15
        OBVIOUS
      <4>4. a < MemSize
        BY <1>2, <2>1, <3>1, <4>1, <4>3
      <4> QED
        BY <1>4, <4>1, <4>2, <4>3, <4>4, SMTT(30)
    <3>3. \A u \in 0..Space - 1 : Home[u] # a
      BY <1>2, <3>2, ProcessAssumption
    <3> QED
      BY <1>3, <3>1, <3>2, <3>3
  <2>3. PICK a \in Nat : a = base + 16 * i + 4 * k
    BY <1>2, <2>1
  <2>4. mem'[a + 0] = mem[a + 0] /\ mem'[a + 1] = mem[a + 1] /\ mem'[a + 2] = mem[a + 2] /\ mem'[a + 3] = mem[a + 3]
    BY <2>2, <2>3
  <2>5. a + 0 = a
    BY <2>3
  <2>6. WordAt(mem', a) = WordAt(mem, a)
    BY <2>4, <2>5, Zenon DEF WordAt
  <2> QED
    BY <1>1, <2>3, <2>6, Zenon DEF Gdt, base
<1>6. \A v : Paddrs(v)' = Paddrs(v) /\ PageFault(v)' = PageFault(v)
  BY <1>0, <1>1, <1>5, SameTranslation
<1> QED
  BY <1>0, <1>6 DEF TableInPlace

(* A process that begins with its table in place and stays within its      *)
(* addresses keeps the table in place for ever, and so runs as it would    *)
(* alone: nothing it does within its addresses takes it out of them.       *)
THEOREM ProcessesIsolated ==
  /\ Spec
  /\ start.name = "process" => TableInPlace
  /\ [](start.name = "process" => StaysInside)
  => [](start.name = "process" => TableInPlace) /\ Relocated
<1> DEFINE Kept == start.name = "process" => TableInPlace
           Stays == start.name = "process" => StaysInside
<1>1. Init => BaseKept
  BY DEF Init, BaseKept
<1>2. MInv /\ BaseKept /\ [Next]_vars => BaseKept'
  <2> SUFFICES ASSUME MInv, BaseKept, [Next]_vars PROVE BaseKept'
    OBVIOUS
  <2>1. CASE UNCHANGED vars
    BY <2>1 DEF vars, BaseKept
  <2>2. CASE Next /\ start.name = "process"
    BY <2>2, BaseStays, StartStays DEF BaseKept
  <2>3. CASE Next /\ start.name # "process"
    <3>1. start' = start
      BY <2>3, StartStays
    <3> QED
      BY <2>3, <3>1 DEF BaseKept
  <2> QED
    BY <2>1, <2>2, <2>3
<1>3. MInv /\ BaseKept /\ Kept /\ Stays /\ [Next]_vars => Kept'
  <2> SUFFICES ASSUME MInv, BaseKept, Kept, Stays, [Next]_vars, (start.name = "process")'
               PROVE  TableInPlace'
    OBVIOUS
  <2>1. CASE UNCHANGED vars
    <3>1. mem' = mem /\ cpr' = cpr /\ start' = start
      BY <2>1 DEF vars, storage
    <3>2. \A i, k : Gdt(i, k)' = Gdt(i, k)
      BY <3>1, Zenon DEF Gdt
    <3>3. \A v : Paddrs(v)' = Paddrs(v) /\ PageFault(v)' = PageFault(v)
      BY <3>1, <3>2, SameTranslation
    <3> QED
      BY <3>1, <3>3 DEF TableInPlace
  <2>2. CASE Next
    <3>1. start.name = "process"
      BY <2>2, StartStays
    <3> QED
      BY <2>2, <3>1, TableStays DEF Inside
  <2> QED
    BY <2>1, <2>2
<1>4. Spec /\ Kept /\ []Stays => []Kept
  BY <1>1, <1>2, <1>3, MInvInit, MInvNext, PTL DEF Spec
<1>5. Kept => (start.name = "process" /\ StaysInside => TableInPlace)
  OBVIOUS
<1> QED
  BY <1>4, <1>5, ProcessesRelocated, PTL

-----------------------------------------------------------------------------
(* A process that leaves its addresses.                                    *)

(* The table places the addresses of the process and those of the kernel,  *)
(* and no others.                                                          *)
TableExact ==
  /\ TableInPlace
  /\ \A v \in DOMAIN Window : Paddrs(v) = {Window[v]} /\ ~PageFault(v)
  /\ \A v \in Word : v >= Space /\ v \notin DOMAIN Window => PageFault(v)

(* With such a table, one instruction is fetched.                          *)
LEMMA OneFetched ==
  ASSUME MInv, TableExact, NEW op1, NEW op2, NEW i \in Fetched(op1), NEW j \in Fetched(op2)
  PROVE  i = j
<1>1. adv1 \in Word /\ adv1 \in Nat /\ Space \in Nat
  BY Addresses, Coprocessor, Homes
<1>2. \E paddr : Paddrs(adv1) = {paddr}
  <2>1. CASE adv1 >= Space /\ adv1 \notin DOMAIN Window
    <3>1. PageFault(adv1)
      BY <1>1, <2>1 DEF TableExact
    <3>2. ~Unassigned /\ ~Beyond(adv1)
      BY <3>1, Zenon DEF PageFault, NoMatch, Beyond
    <3> QED
      BY <3>1, <3>2, Zenon DEF Paddrs
  <2>2. CASE ~(adv1 >= Space)
    <3>1. adv1 \in 0..Space - 1
      BY <1>1, <2>2
    <3> QED
      BY <3>1 DEF TableExact, TableInPlace
  <2>3. CASE adv1 \in DOMAIN Window
    BY <2>3 DEF TableExact
  <2> QED
    BY <2>1, <2>2, <2>3
<1>3. PICK paddr : Paddrs(adv1) = {paddr}
  BY <1>2
<1> QED
  BY <1>3 DEF Fetched

(* A store of a process that changes the memory of others.                 *)
LEMMA EscapeRecorded ==
  ASSUME MInv, TableExact, NEW op \in {"SB", "SW"}, NEW len, len = IF op = "SW" THEN 4 ELSE 1,
         NEW i \in Fetched(op), StoreIn(i, len),
         op = "SW" => Vaddr(i) >= Space \/ Whole(Vaddr(i), 4),
         NEW a \in DOMAIN mem, mem'[a] # mem[a], \A v \in 0..Space - 1 : Home[v] # a
  PROVE  Vaddr(i) >= Space /\ (Vaddr(i) \in DOMAIN Window \/ cpr'[PFLA] = Vaddr(i))
<1> DEFINE v == Vaddr(i)
<1>1. v \in Word /\ v \in Nat /\ Space \in Nat /\ len \in {1, 4}
  BY FetchedTyped, Addresses, Coprocessor, Homes
<1>2. v >= Space
  <2> SUFFICES ASSUME ~(v >= Space) PROVE FALSE
    OBVIOUS
  <2>1. v \in 0..Space - 1
    BY <1>1
  <2>2. Whole(v, len)
    <3>1. CASE op = "SW"
      BY <3>1
    <3>2. CASE len = 1
      <4>1. Home[v] \in Nat
        BY <2>1, Homes
      <4>2. \A k \in 0..0 : k = 0
        OBVIOUS
      <4> QED
        BY <1>1, <2>1, <3>2, <4>1, <4>2 DEF Whole
    <3> QED
      BY <3>1, <3>2
  <2>3. Paddrs(v) = {Home[v]} /\ Home[v] # HddPort /\ Home[v] # DmaPort
    BY <2>1, Homes, InPlaceTranslated DEF TableExact
  <2>4. ~AddressError(Home[v], len)
    BY <1>1, <2>2, WholePlaces
  <2>5. mem' = Put(mem, Home[v], len, gpr[i.rt])
    BY <2>3, <2>4 DEF StoreIn, Store, StoreUndefined
  <2>6. mem \in Bytes(MemSize)
    BY Storage
  <2> QED
    BY <1>1, <2>2, <2>5, <2>6, SamePut
<1>3. CASE v \notin DOMAIN Window
  <2>1. PageFault(v)
    BY <1>1, <1>2, <1>3 DEF TableExact
  <2>2. \A c : Recorded(c, v) = {[c EXCEPT ![PFLA] = v]}
    <3>1. ~Beyond(v)
      BY <2>1, Zenon DEF PageFault, Beyond
    <3> QED
      BY <2>1, <3>1, Zenon DEF Recorded
  <2>3. cpr' \in UNION {Recorded(c, v) : c \in Recorded(cpr, adv1)}
    BY DEF StoreIn, AfterAccess
  <2>4. PICK c \in Recorded(cpr, adv1) : cpr' \in Recorded(c, v)
    BY <2>3
  <2>5. c \in [CprNumbers -> Word]
    BY RecordingTyped
  <2> HIDE DEF v
  <2>6. cpr'[PFLA] = v
    BY <2>2, <2>4, <2>5, Coprocessor
  <2> QED
    BY <1>2, <2>6 DEF v
<1> QED
  BY <1>2, <1>3

(* What does not store does not change the memory.                         *)
LEMMA OnlyStores ==
  ASSUME MInv, Next, mem' # mem
  PROVE  inst_exec_sb \/ inst_exec_sw
<1>1. CASE Compute
  BY <1>1, ComputeSets DEF Sets, storage
<1>2. CASE MultiplyDivide
  BY <1>2
  DEF MultiplyDivide, SetsHiLo, Product, Divide, inst_exec_mthi, inst_exec_mtlo, inst_exec_mult,
      inst_exec_multu, inst_exec_div, inst_exec_divu, storage
<1>3. CASE Transfer
  BY <1>3
  DEF Transfer, Linked, Unlinked, inst_exec_beq, inst_exec_bne, inst_exec_bgez, inst_exec_bltz,
      inst_exec_bgezal, inst_exec_j, inst_exec_jal, inst_exec_jr, inst_exec_jalr, storage
<1>4. CASE Access
  BY <1>4 DEF Access, Load, inst_exec_lb, inst_exec_lw, storage
<1>5. CASE Move
  BY <1>5 DEF Move, inst_exec_mtc0, inst_exec_rdpgpr, inst_exec_wrpgpr, inst_exec_sync, storage
<1>6. CASE inst_not_implemented \/ DivisionTraps \/ TableCrashes
  BY <1>6 DEF inst_not_implemented, DivisionTraps, TableCrashes, Stop, storage
<1> QED
  BY <1>1, <1>2, <1>3, <1>4, <1>5, <1>6 DEF Next

(* A process whose table places its addresses and those of the kernel, and *)
(* no others, whenever it stores, may reach the memory of others, but the  *)
(* address it used is the kernel's or in PFLA after the step (mmu.c:79-87, *)
(* procinfo.b:10-17).                                                      *)
THEOREM EscapesAreRecorded ==
  /\ Spec
  /\ [](start.name \in {"process", "escape"} /\ Addressed("SB") \cup Addressed("SW") # {} => TableExact)
  => EscapesRecorded
<1> DEFINE Exact ==
             start.name \in {"process", "escape"} /\ Addressed("SB") \cup Addressed("SW") # {}
               => TableExact
           Recorded1 ==
             start.name \in {"process", "escape"}
               /\ (\A v \in Addressed("SW") : v >= Space \/ Whole(v, 4))
               /\ (\E a \in DOMAIN mem : mem'[a] # mem[a] /\ \A v \in 0..Space - 1 : Home[v] # a)
             => \A v \in Addressed("SB") \cup Addressed("SW") :
                  v >= Space /\ (v \in DOMAIN Window \/ cpr'[PFLA] = v)
<1>1. ASSUME MInv, Exact, Next PROVE Recorded1
  <2> SUFFICES ASSUME start.name \in {"process", "escape"},
                      \A v \in Addressed("SW") : v >= Space \/ Whole(v, 4),
                      NEW a \in DOMAIN mem, mem'[a] # mem[a], \A v \in 0..Space - 1 : Home[v] # a,
                      NEW w \in Addressed("SB") \cup Addressed("SW")
               PROVE  w >= Space /\ (w \in DOMAIN Window \/ cpr'[PFLA] = w)
    OBVIOUS
  <2>1. TableExact
    BY <1>1
  <2>2. inst_exec_sb \/ inst_exec_sw
    BY <1>1, OnlyStores
  <2>3. PICK op \in {"SB", "SW"} : \E i \in Fetched(op) : StoreIn(i, IF op = "SW" THEN 4 ELSE 1)
    BY <2>2 DEF inst_exec_sb, inst_exec_sw
  <2>7. PICK i \in Fetched(op) : StoreIn(i, IF op = "SW" THEN 4 ELSE 1)
    BY <2>3
  <2>4. op = "SW" => Vaddr(i) >= Space \/ Whole(Vaddr(i), 4)
    BY <2>7 DEF Addressed
  <2>5. Vaddr(i) >= Space /\ (Vaddr(i) \in DOMAIN Window \/ cpr'[PFLA] = Vaddr(i))
    BY <1>1, <2>1, <2>4, <2>7, EscapeRecorded
  <2>6. w = Vaddr(i)
    <3>1. PICK op2 \in {"SB", "SW"} : \E j \in Fetched(op2) : w = Vaddr(j)
      BY DEF Addressed
    <3>2. PICK j \in Fetched(op2) : w = Vaddr(j)
      BY <3>1
    <3> QED
      BY <1>1, <2>1, <2>7, <3>2, OneFetched
  <2> QED
    BY <2>5, <2>6
<1>2. MInv /\ Exact /\ [Next]_vars => [Recorded1]_vars
  BY <1>1
<1> QED
  BY <1>2, MInvInit, MInvNext, PTL DEF Spec, EscapesRecorded

-----------------------------------------------------------------------------
(* A program that is not translated executes the instruction at the        *)
(* address it has reached.                                                 *)

(* The coprocessor registers are those the program began with, and there   *)
(* is no descriptor table.                                                 *)
Untranslated == MInv /\ cpr[GDTBASE] = 0

(* The instruction about to be executed.                                   *)
Current == CodeAt(adv1)

(* It is fetched, and no translation leaves a trace.                       *)
LEMMA Fetches ==
  ASSUME Untranslated
  PROVE  /\ \A op : Fetched(op) = IF stop = "no" /\ Current.op = op THEN {Current} ELSE {}
         /\ \A c, v : Recorded(c, v) = {c}
         /\ \A v : Paddrs(v) = {v} /\ ~Beyond(v)
<1>1. ~Translated
  BY DEF Translated, Untranslated
<1>2. \A v : ~PageFault(v) /\ ~Beyond(v) /\ ~Unassigned
  BY <1>1, Zenon DEF PageFault, Beyond, NoMatch, Unassigned
<1>3. \A v : Paddrs(v) = {v}
  BY <1>1, <1>2, Zenon DEF Paddrs
<1>4. \A c, v : Recorded(c, v) = {c}
  BY <1>2, Zenon DEF Recorded
<1>5. {CodeAt(paddr) : paddr \in Paddrs(adv1)} = {Current}
  BY <1>3 DEF Current
<1>6. ASSUME NEW op PROVE Fetched(op) = IF stop = "no" /\ Current.op = op THEN {Current} ELSE {}
  BY <1>5 DEF Fetched
<1> QED
  BY <1>2, <1>3, <1>4, <1>6

(* Its fields are those of an instruction.                                 *)
LEMMA CurrentTyped == ASSUME Untranslated PROVE Instruction(Current)
<1>1. CASE adv1 \in DOMAIN start.code
  <2>1. Current = start.code[adv1]
    BY <1>1 DEF Current, CodeAt
  <2> QED
    BY <1>1, <2>1, StartsAssumption DEF Untranslated, MInv
<1>2. CASE adv1 \notin DOMAIN start.code
  <2>1. Current = Reserved
    BY <1>2 DEF Current, CodeAt
  <2> QED
    BY <2>1, MachineAssumption DEF Reserved, Instruction
<1> QED
  BY <1>1, <1>2

(* So a step executes it, and which action it is depends on it alone.      *)
Executes(i) ==
  /\ i.op = "ADD" => Sets(i.rd, gpr[i.rs] + gpr[i.rt])
  /\ i.op \in {"ADDI", "ADDIU"} => Sets(i.rt, gpr[i.rs] + SignedImm(i.im))
  /\ i.op = "AND" => Sets(i.rd, And(gpr[i.rs], gpr[i.rt]))
  /\ i.op = "LUI" => Sets(i.rt, i.im * Half)
  /\ i.op = "MFHI" => Sets(i.rd, hi)
  /\ i.op = "OR" => Sets(i.rd, Or(gpr[i.rs], gpr[i.rt]))
  /\ i.op = "ORI" => Sets(i.rt, Or(gpr[i.rs], i.im))
  /\ i.op = "SLL" => Sets(i.rd, gpr[i.rt] * Power2[i.sa])
  /\ i.op = "SRL" => Sets(i.rd, gpr[i.rt] \div Power2[i.sa])
  /\ i.op = "SLT" => Sets(i.rd, Truth(Signed(gpr[i.rs]) < Signed(gpr[i.rt])))
  /\ i.op = "SLTU" => Sets(i.rd, Truth(gpr[i.rs] < gpr[i.rt]))
  /\ i.op = "MULT" => Product(Signed(gpr[i.rs]) * Signed(gpr[i.rt]))
  /\ i.op = "MULTU" => Product(gpr[i.rs] * gpr[i.rt])
  /\ i.op = "DIV" =>
       \/ ~Overflows(i) /\ Divide(Signed(gpr[i.rs]), Signed(gpr[i.rt]))
       \/ Overflows(i) /\ Stop("crash")
  /\ i.op = "DIVU" => Divide(gpr[i.rs], gpr[i.rt])
  /\ i.op = "BEQ" => BranchIf(i, gpr[i.rs] = gpr[i.rt]) /\ Unlinked
  /\ i.op = "BNE" => BranchIf(i, gpr[i.rs] # gpr[i.rt]) /\ Unlinked
  /\ i.op = "BGEZAL" => Linked /\ BranchIf(i, Signed(gpr'[i.rs]) >= 0)
  /\ i.op = "J" => BranchTo(ToWord(4 * i.im)) /\ Unlinked
  /\ i.op = "JAL" => BranchTo(ToWord(4 * i.im)) /\ Linked
  /\ i.op = "JR" => BranchTo(gpr[i.rs]) /\ Unlinked
  /\ i.op = "JALR" => Linked /\ BranchTo(gpr'[i.rs])
  /\ i.op = "LW" => Load(i, 4)
  /\ i.op = "SW" => StoreIn(i, 4)
  /\ i.op = "SB" => StoreIn(i, 1)
  /\ i.op = "NONE" => Stop("exception")

(* A step executes the current instruction.                                *)
LEMMA ExecutesCurrent ==
  ASSUME Untranslated, Next
  PROVE  stop = "no" /\ Executes(Current)
<1>1. \A op : Fetched(op) = IF stop = "no" /\ Current.op = op THEN {Current} ELSE {}
  BY Fetches
<1>2. ASSUME NEW op, NEW i \in Fetched(op) PROVE stop = "no" /\ Current.op = op /\ i = Current
  <2>1. stop = "no" /\ Current.op = op
    BY <1>1, <1>2
  <2> QED
    BY <1>1, <1>2, <2>1
<1> HIDE DEF Current
<1>3. CASE Compute
  BY <1>2, <1>3
  DEF Compute, Executes, inst_exec_add, inst_exec_addi, inst_exec_addiu, inst_exec_addu,
      inst_exec_and, inst_exec_andi, inst_exec_lui, inst_exec_mfc0, inst_exec_mfhi, inst_exec_mflo,
      inst_exec_nor, inst_exec_or, inst_exec_ori, inst_exec_sll, inst_exec_sllv, inst_exec_slt,
      inst_exec_slti, inst_exec_sltiu, inst_exec_sltu, inst_exec_srl, inst_exec_srlv,
      inst_exec_sub, inst_exec_subu, inst_exec_xor, inst_exec_xori
<1>4. CASE MultiplyDivide
  BY <1>2, <1>4
  DEF MultiplyDivide, Executes, inst_exec_mthi, inst_exec_mtlo, inst_exec_mult, inst_exec_multu,
      inst_exec_div, inst_exec_divu
<1>5. CASE Transfer
  BY <1>2, <1>5
  DEF Transfer, Executes, inst_exec_beq, inst_exec_bne, inst_exec_bgez, inst_exec_bltz,
      inst_exec_bgezal, inst_exec_j, inst_exec_jal, inst_exec_jr, inst_exec_jalr
<1>6. CASE Access
  BY <1>2, <1>6 DEF Access, Executes, inst_exec_lb, inst_exec_lw, inst_exec_sb, inst_exec_sw
<1>7. CASE Move
  BY <1>2, <1>7
  DEF Move, Executes, inst_exec_mtc0, inst_exec_rdpgpr, inst_exec_wrpgpr, inst_exec_sync
<1>8. CASE inst_not_implemented
  BY <1>2, <1>8 DEF inst_not_implemented, Executes
<1>9. CASE DivisionTraps
  BY <1>2, <1>9 DEF DivisionTraps, Executes
<1>10. CASE TableCrashes
  BY <1>10, Fetches DEF TableCrashes
<1> QED
  BY <1>3, <1>4, <1>5, <1>6, <1>7, <1>8, <1>9, <1>10 DEF Next

(* A word of a program large enough for the programs below.                *)
LEMMA ProgramWidths ==
  /\ Half \in Nat /\ Half >= 64 /\ WordSpace \in Nat /\ WordSpace >= 4096
  /\ \A n \in Nat : n < 4096 => n \in Word /\ ToWord(n) = n
<1>1. \A x, y \in Nat : x >= 8 /\ y >= 8 => x * y >= 8 * y
  <2> SUFFICES ASSUME NEW x \in Nat, NEW y \in Nat, x >= 8, y >= 8 PROVE x * y >= 8 * y
    OBVIOUS
  <2>1. PICK d \in Nat : x = 8 + d
    <3>1. x - 8 \in Nat
      OBVIOUS
    <3> QED
      BY <3>1
  <2>2. x * y = 8 * y + d * y /\ d * y \in Nat
    BY <2>1
  <2> QED
    BY <2>2
<1>2. Byte \in Nat /\ Byte >= 8
  BY Widths, ProgramsAssumption
<1>3. Half \in Nat /\ Half >= 64
  BY <1>1, <1>2, Widths DEF Half
<1>4. WordSpace \in Nat /\ WordSpace >= 4096
  <2>1. \A h \in Nat : h >= 64 => h * h >= 4096
    <3> SUFFICES ASSUME NEW h \in Nat, h >= 64 PROVE h * h >= 4096
      OBVIOUS
    <3>1. PICK d \in Nat : h = 64 + d
      <4>1. h - 64 \in Nat
        OBVIOUS
      <4> QED
        BY <4>1
    <3>2. h * h = 4096 + 128 * d + d * d /\ d * d \in Nat
      BY <3>1
    <3> QED
      BY <3>2
  <2> QED
    BY <1>3, <2>1, Widths DEF WordSpace
<1>5. ASSUME NEW n \in Nat, n < 4096 PROVE n \in Word /\ ToWord(n) = n
  <2>1. \A w \in Nat : w >= 4096 => n % w = n
    BY <1>5
  <2> QED
    BY <1>4, <1>5, <2>1 DEF Word, ToWord
<1> QED
  BY <1>3, <1>4, <1>5

(* The instructions of a program are where it is placed, and nothing else  *)
(* is.                                                                     *)
LEMMA PlacedCode ==
  ASSUME NEW code, NEW n, n \in Nat, DOMAIN code = 1..n, start.code = Placed(0, code)
  PROVE  /\ \A k \in 1..n : CodeAt(4 * k - 4) = code[k]
         /\ \A p \in Nat : p >= 4 * n => CodeAt(p) = Reserved
         /\ DOMAIN start.code = {4 * k - 4 : k \in 1..n}
<1> DEFINE D == {0 + 4 * (k - 1) : k \in DOMAIN code}
<1>1. start.code = [p \in D |-> code[(p - 0) \div 4 + 1]]
  BY DEF Placed
<1>2. \A p : p \in D <=> \E k \in 1..n : p = 4 * k - 4
  <2>1. \A p : p \in D <=> \E k \in 1..n : p = 0 + 4 * (k - 1)
    BY Zenon
  <2>2. \A k \in 1..n : 0 + 4 * (k - 1) = 4 * k - 4
    OBVIOUS
  <2> HIDE DEF D
  <2> QED
    BY <2>1, <2>2, Zenon
<1>3. D = {4 * k - 4 : k \in 1..n}
  BY <1>2
<1> HIDE DEF D
<1>4. ASSUME NEW k \in 1..n PROVE CodeAt(4 * k - 4) = code[k]
  <2>1. 4 * k - 4 \in D
    BY <1>2
  <2>2. ((4 * k - 4) - 0) \div 4 + 1 = k
    OBVIOUS
  <2>3. start.code[4 * k - 4] = code[k] /\ 4 * k - 4 \in DOMAIN start.code
    BY <1>1, <2>1, <2>2
  <2> QED
    BY <2>3 DEF CodeAt
<1>5. ASSUME NEW p \in Nat, p >= 4 * n PROVE CodeAt(p) = Reserved
  <2>1. p \notin D
    BY <1>2, <1>5
  <2> QED
    BY <1>1, <2>1 DEF CodeAt
<1> QED
  BY <1>1, <1>3, <1>4, <1>5

-----------------------------------------------------------------------------
(* Products and quotients.                                                 *)

(* A word has an even number of values.                                    *)
LEMMA EvenWords == \E h \in Nat : WordSpace = 2 * h /\ h >= 2048
<1>1. WordSpace = 2 * Power2[WordBits - 1] /\ Power2[WordBits - 1] \in Nat
  <2>1. WordBits \in 1..WordBits /\ WordBits - 1 \in 0..WordBits
    BY Powers
  <2> QED
    BY <2>1, Powers, MachineAssumption
<1> QED
  BY <1>1, ProgramWidths

(* The sign of a word is that of a number which is not too large.          *)
LEMMA SignedWord ==
  /\ \A w \in Word : /\ 2 * Signed(w) >= -WordSpace /\ 2 * Signed(w) < WordSpace
                     /\ Signed(w) = w \/ Signed(w) = w - WordSpace
  /\ \A n \in Int : 2 * n >= -WordSpace /\ 2 * n < WordSpace => Signed(ToWord(n)) = n
<1> DEFINE W == WordSpace
<1>1. W \in Nat /\ W >= 4096
  BY ProgramWidths
<1>2. ASSUME NEW w \in Word
      PROVE  /\ 2 * Signed(w) >= -W /\ 2 * Signed(w) < W
             /\ Signed(w) = w \/ Signed(w) = w - W
  BY <1>1 DEF Signed, Word
<1>3. ASSUME NEW n \in Int, 2 * n >= -W, 2 * n < W PROVE Signed(ToWord(n)) = n
  <2>1. CASE n >= 0
    <3>1. n % W = n
      BY <1>1, <1>3, <2>1
    <3> QED
      BY <1>3, <3>1 DEF Signed, ToWord
  <2>2. CASE n < 0
    <3>1. n % W = n + W
      <4>1. \A m \in Int, w \in Nat : m < 0 /\ m + w >= 0 /\ w > 0 => m % w = m + w
        OBVIOUS
      <4> QED
        BY <1>1, <1>3, <2>2, <4>1
    <3> QED
      BY <1>1, <1>3, <2>2, <3>1 DEF Signed, ToWord
  <2> QED
    BY <2>1, <2>2
<1> QED
  BY <1>2, <1>3

(* Division with a remainder.                                              *)
LEMMA Division ==
  ASSUME NEW n, NEW d, n \in Int, d \in Nat, d # 0
  PROVE  \E q \in Int, r \in Nat : q = n \div d /\ r = n % d /\ r < d /\ n = q * d + r
OBVIOUS

(* The product of two words with a sign, as hi and lo hold it.             *)
LEMMA SignedProduct ==
  ASSUME NEW x \in Int, NEW y \in Int,
         2 * x >= -WordSpace, 2 * x < WordSpace, 2 * y >= -WordSpace, 2 * y < WordSpace
  PROVE  Signed(ToWord((x * y) \div WordSpace)) * WordSpace + ToWord(x * y) = x * y
<1>1. PICK h \in Nat : WordSpace = 2 * h /\ h >= 2048
  BY EvenWords
<1>2. x >= -h /\ x < h /\ y >= -h /\ y < h
  BY <1>1
<1>3. x * y <= h * h /\ x * y >= -(h * h)
  <2>1. \A a, b \in Nat : a <= h /\ b <= h => a * b <= h * h
    <3> SUFFICES ASSUME NEW a \in Nat, NEW b \in Nat, a <= h, b <= h PROVE a * b <= h * h
      OBVIOUS
    <3>1. PICK c \in Nat : h = a + c
      <4>1. h - a \in Nat
        OBVIOUS
      <4> QED
        BY <4>1
    <3>2. PICK d \in Nat : h = b + d
      <4>1. h - b \in Nat
        OBVIOUS
      <4> QED
        BY <4>1
    <3>3. h * h = a * b + a * d + c * b + c * d
      BY <3>1, <3>2
    <3>4. a * d \in Nat /\ c * b \in Nat /\ c * d \in Nat /\ a * b \in Nat
      OBVIOUS
    <3> QED
      BY <3>3, <3>4
  <2>2. PICK a \in Nat : a <= h /\ (x = a \/ x = -a)
    BY <1>2
  <2>3. PICK b \in Nat : b <= h /\ (y = b \/ y = -b)
    <3>1. y \in Nat \/ -y \in Nat
      OBVIOUS
    <3> QED
      BY <1>2, <3>1
  <2>4. x * y = a * b \/ x * y = -(a * b)
    BY <2>2, <2>3
  <2>5. a * b <= h * h /\ a * b \in Nat
    BY <2>1, <2>2, <2>3
  <2> QED
    BY <2>4, <2>5
<1>4. PICK n \in Int : n = x * y
  OBVIOUS
<1>5. WordSpace # 0
  BY ProgramWidths
<1>6. PICK q \in Int, r \in Nat :
        q = n \div WordSpace /\ r = n % WordSpace /\ r < WordSpace /\ n = q * WordSpace + r
  BY <1>5, Division, ProgramWidths
<1>7. h * h \in Nat /\ h * q \in Int
  OBVIOUS
<1>8. n = 2 * (h * q) + r
  <2>1. q * WordSpace = 2 * (h * q)
    BY <1>1
  <2> QED
    BY <1>6, <2>1
<1>9. q < h
  <2> SUFFICES ASSUME q >= h PROVE FALSE
    OBVIOUS
  <2>1. PICK d \in Nat : q = h + d
    <3>1. q - h \in Nat
      OBVIOUS
    <3> QED
      BY <3>1
  <2>2. h * q = h * h + h * d /\ h * d \in Nat
    BY <2>1
  <2>3. h * h > 0
    BY <1>1
  <2> QED
    BY <1>3, <1>4, <1>7, <1>8, <2>2, <2>3
<1>10. q >= -h
  <2> SUFFICES ASSUME q < -h PROVE FALSE
    OBVIOUS
  <2>1. PICK d \in Nat : q = -h - 1 - d
    <3>1. -h - 1 - q \in Nat
      OBVIOUS
    <3> QED
      BY <3>1
  <2>2. h * q = -(h * h) - h - h * d /\ h * d \in Nat
    BY <2>1
  <2>3. h * h > 0
    BY <1>1
  <2> QED
    BY <1>1, <1>3, <1>4, <1>6, <1>7, <1>8, <2>2, <2>3
<1>11. Signed(ToWord(q)) = q
  BY <1>1, <1>9, <1>10, SignedWord
<1> QED
  BY <1>4, <1>6, <1>11 DEF ToWord

(* The product of two words without one.                                   *)
LEMMA UnsignedProduct ==
  ASSUME NEW x \in Word, NEW y \in Word
  PROVE  ToWord((x * y) \div WordSpace) * WordSpace + ToWord(x * y) = x * y
<1> DEFINE W == WordSpace
<1>1. x \in Nat /\ y \in Nat /\ x < W /\ y < W /\ W \in Nat /\ W >= 4096
  BY ProgramWidths DEF Word
<1>2. PICK n \in Nat : n = x * y
  BY <1>1
<1>3. n < W * W /\ W * W \in Nat
  <2>1. PICK c \in Nat : W = x + 1 + c
    <3>1. W - x - 1 \in Nat
      BY <1>1
    <3> QED
      BY <1>1, <3>1
  <2>2. PICK d \in Nat : W = y + 1 + d
    <3>1. W - y - 1 \in Nat
      BY <1>1
    <3> QED
      BY <1>1, <3>1
  <2>3. W * W = x * y + x * (1 + d) + (1 + c) * y + (1 + c) * (1 + d)
    BY <1>1, <2>1, <2>2
  <2>4. x * (1 + d) \in Nat /\ (1 + c) * y \in Nat /\ (1 + c) * (1 + d) = 1 + c + d + c * d /\ c * d \in Nat
    BY <1>1
  <2> QED
    BY <1>1, <1>2, <2>3, <2>4
<1>4. W \in Nat /\ W # 0 /\ n \in Int
  BY <1>1
<1> HIDE DEF W
<1>5. PICK q \in Int, r \in Nat : q = n \div W /\ r = n % W /\ r < W /\ n = q * W + r
  BY <1>4, Division
<1>6. q >= 0
  <2> SUFFICES ASSUME q < 0 PROVE FALSE
    OBVIOUS
  <2>1. PICK d \in Nat : q = -1 - d
    <3>1. -1 - q \in Nat
      OBVIOUS
    <3> QED
      BY <3>1
  <2>2. q * W = -W - W * d /\ W * d \in Nat
    BY <1>1, <2>1
  <2> QED
    BY <1>1, <1>5, <2>2
<1>7. q < W
  <2> SUFFICES ASSUME q >= W PROVE FALSE
    BY <1>1
  <2>1. PICK d \in Nat : q = W + d
    <3>1. q - W \in Nat
      BY <1>1
    <3> QED
      BY <1>1, <3>1
  <2>2. q * W = W * W + W * d /\ W * d \in Nat
    BY <1>1, <2>1
  <2> QED
    BY <1>1, <1>3, <1>5, <2>2
<1>8. q % W = q
  BY <1>1, <1>6, <1>7
<1> QED
  BY <1>2, <1>5, <1>8 DEF ToWord, W

(* The quotient and the remainder of two words without a sign.             *)
LEMMA UnsignedQuotient ==
  ASSUME NEW x \in Word, NEW y \in Word, y # 0
  PROVE  x = ToWord(Quot(x, y)) * y + ToWord(Rem(x, y)) /\ ToWord(Rem(x, y)) < y
<1>1. x \in Nat /\ y \in Nat /\ x < WordSpace /\ y < WordSpace /\ WordSpace \in Nat
  BY ProgramWidths DEF Word
<1>2. PICK q \in Int, r \in Nat : q = x \div y /\ r = x % y /\ r < y /\ x = q * y + r
  BY <1>1, Division
<1>3. Quot(x, y) = q
  BY <1>1, <1>2 DEF Quot, Abs
<1>4. Rem(x, y) = r
  <2>1. Rem(x, y) = x - y * q
    BY <1>3 DEF Rem
  <2>2. y * q = q * y /\ q * y \in Int
    BY <1>1
  <2> QED
    BY <1>1, <1>2, <2>1, <2>2
<1>5. q \in Nat /\ q <= x
  <2>1. q >= 0
    <3> SUFFICES ASSUME q < 0 PROVE FALSE
      OBVIOUS
    <3>1. PICK d \in Nat : q = -1 - d
      <4>1. -1 - q \in Nat
        OBVIOUS
      <4> QED
        BY <4>1
    <3>2. q * y = -y - d * y /\ d * y \in Nat
      BY <1>1, <3>1
    <3> QED
      BY <1>1, <1>2, <3>2
  <2>2. PICK d \in Nat : y = 1 + d
    <3>1. y - 1 \in Nat
      BY <1>1
    <3> QED
      BY <1>1, <3>1
  <2>3. q * y = q + q * d /\ q * d \in Nat
    BY <2>1, <2>2
  <2> QED
    BY <1>1, <1>2, <2>1, <2>3
<1>6. \A n \in Nat, w \in Nat : n < w => n % w = n
  OBVIOUS
<1>7. ToWord(q) = q /\ ToWord(r) = r
  BY <1>1, <1>2, <1>5, <1>6 DEF ToWord
<1> QED
  BY <1>2, <1>3, <1>4, <1>7

(* The quotient and the remainder of two words with a sign: the quotient   *)
(* is rounded towards zero.                                                *)
LEMMA SignedQuotient ==
  ASSUME NEW x \in Int, NEW y \in Int, y # 0,
         2 * x >= -WordSpace, 2 * x < WordSpace, 2 * y >= -WordSpace, 2 * y < WordSpace,
         ~(x = -(WordSpace \div 2) /\ y = -1)
  PROVE  LET q == Signed(ToWord(Quot(x, y)))
             r == Signed(ToWord(Rem(x, y)))
         IN  x = q * y + r /\ Abs(r) < Abs(y) /\ (r = 0 \/ (r < 0) = (x < 0))
<1>1. PICK h \in Nat : WordSpace = 2 * h /\ h >= 2048
  BY EvenWords
<1>2. x >= -h /\ x < h /\ y >= -h /\ y < h /\ WordSpace \div 2 = h
  BY <1>1
<1>3. PICK a \in Nat, b \in Nat : a = Abs(x) /\ b = Abs(y) /\ b # 0
  BY DEF Abs
<1>4. PICK q \in Int, r \in Nat : q = a \div b /\ r = a % b /\ r < b /\ a = q * b + r
  BY <1>3, Division
<1>5. q \in Nat /\ q <= a /\ (b # 1 => 2 * q <= a)
  <2>1. q >= 0
    <3> SUFFICES ASSUME q < 0 PROVE FALSE
      OBVIOUS
    <3>1. PICK d \in Nat : q = -1 - d
      <4>1. -1 - q \in Nat
        OBVIOUS
      <4> QED
        BY <4>1
    <3>2. q * b = -b - d * b /\ d * b \in Nat
      BY <3>1
    <3> QED
      BY <1>4, <3>2
  <2>2. PICK d \in Nat : b = 1 + d
    <3>1. b - 1 \in Nat
      BY <1>3
    <3> QED
      BY <3>1
  <2>3. q * b = q + q * d /\ q * d \in Nat
    BY <2>1, <2>2
  <2>4. ASSUME b # 1 PROVE 2 * q <= a
    <3>1. PICK e \in Nat : d = 1 + e
      <4>1. d - 1 \in Nat
        BY <2>2, <2>4
      <4> QED
        BY <4>1
    <3>2. q * d = q + q * e /\ q * e \in Nat
      BY <2>1, <3>1
    <3> QED
      BY <1>4, <2>3, <3>2
  <2> QED
    BY <1>4, <2>1, <2>3, <2>4
<1>6. a <= h /\ b <= h /\ (x = a \/ x = -a) /\ (y = b \/ y = -b)
      /\ (x < 0 <=> x = -a /\ a # 0) /\ (y < 0 <=> y = -b)
  BY <1>2, <1>3 DEF Abs
<1>7. Quot(x, y) = IF (x < 0) = (y < 0) THEN q ELSE -q
  BY <1>3, <1>4 DEF Quot
<1>8. PICK p \in Int : p = Quot(x, y) /\ (p = q \/ p = -q)
  BY <1>7
<1>9. p >= -h /\ p < h
  <2>1. CASE b # 1
    BY <1>1, <1>5, <1>6, <1>8, <2>1
  <2>2. CASE b = 1 /\ a < h
    BY <1>1, <1>5, <1>6, <1>8, <2>2
  <2>3. CASE b = 1 /\ a = h
    <3>1. x < 0 /\ x = -h
      BY <1>1, <1>2, <1>6, <2>3
    <3>2. ~(y < 0)
      BY <1>2, <1>6, <2>3, <3>1
    <3>3. p = -q
      BY <1>7, <1>8, <3>1, <3>2
    <3> QED
      BY <1>1, <1>5, <1>6, <2>3, <3>3
  <2> QED
    BY <1>6, <2>1, <2>2, <2>3
<1>10. y * p = IF x < 0 THEN -(q * b) ELSE q * b
  <2>1. CASE x < 0 /\ y < 0
    <3>1. p = q /\ y = -b
      BY <1>6, <1>7, <1>8, <2>1
    <3> QED
      BY <2>1, <3>1
  <2>2. CASE x < 0 /\ ~(y < 0)
    <3>1. p = -q /\ y = b
      BY <1>6, <1>7, <1>8, <2>2
    <3> QED
      BY <2>2, <3>1
  <2>3. CASE ~(x < 0) /\ y < 0
    <3>1. p = -q /\ y = -b
      BY <1>6, <1>7, <1>8, <2>3
    <3> QED
      BY <2>3, <3>1
  <2>4. CASE ~(x < 0) /\ ~(y < 0)
    <3>1. p = q /\ y = b
      BY <1>6, <1>7, <1>8, <2>4
    <3> QED
      BY <2>4, <3>1
  <2> QED
    BY <2>1, <2>2, <2>3, <2>4
<1>11. PICK s \in Int : s = Rem(x, y) /\ s = (IF x < 0 THEN -r ELSE r) /\ x = y * p + s
  <2>1. Rem(x, y) = x - y * p
    BY <1>8 DEF Rem
  <2>2. q * b \in Int /\ y * p \in Int
    BY <1>8
  <2>3. x - y * p = IF x < 0 THEN -r ELSE r
    BY <1>4, <1>6, <1>10, <2>2
  <2> QED
    BY <2>1, <2>2, <2>3
<1>12. s >= -h /\ s < h
  BY <1>4, <1>6, <1>11
<1>13. Signed(ToWord(p)) = p /\ Signed(ToWord(s)) = s
  BY <1>1, <1>9, <1>12, SignedWord
<1>14. y * p = p * y
  OBVIOUS
<1>15. Abs(s) = r
  BY <1>11 DEF Abs
<1>16. s = 0 \/ (s < 0) = (x < 0)
  BY <1>11
<1> QED
  BY <1>3, <1>4, <1>8, <1>11, <1>13, <1>14, <1>15, <1>16

(* What the run of an instruction that multiplies or divides gives.        *)
Computed ==
  LET a == start.gpr[A0]
      b == start.gpr[A1]
      q == Signed(lo)
      r == Signed(hi)
  IN  /\ start.name = "MULT" => Signed(hi) * WordSpace + lo = Signed(a) * Signed(b)
      /\ start.name = "MULTU" => hi * WordSpace + lo = a * b
      /\ start.name = "DIVU" /\ b # 0 => a = lo * b + hi /\ hi < b
      /\ start.name = "DIV" /\ b # 0 =>
           /\ Signed(a) = q * Signed(b) + r
           /\ Abs(r) < Abs(Signed(b))
           /\ r = 0 \/ (r < 0) = (Signed(a) < 0)

(* It is executed first, and then there is no code any more.               *)
ArithmeticInv ==
  start.name \in Arithmetic =>
    /\ Untranslated
    /\ \/ stop = "no" /\ adv1 = 0 /\ adv2 = 4 /\ gpr = start.gpr
       \/ stop = "no" /\ adv1 = 4 /\ Computed
       \/ stop = "exception" /\ Computed
       \/ stop = "crash"

(* The registers of the programs are different ones.                       *)
LEMMA RegisterNumbers ==
  /\ AT \in Regs /\ V0 \in Regs /\ A0 \in Regs /\ A1 \in Regs /\ A2 \in Regs /\ T0 \in Regs
  /\ T1 \in Regs /\ 0 \in Regs /\ Ra \in Regs
  /\ AT = 1 /\ V0 = 2 /\ A0 = 3 /\ A1 = 4 /\ A2 = 5 /\ T0 = 6 /\ T1 = 7
  /\ Ra \notin {0, AT, V0, A0, A1, A2, T0, T1}
BY ProgramsAssumption, MachineAssumption DEF AT, V0, A0, A1, A2, T0, T1

(* The instruction computes what it should.                                *)
LEMMA ArithmeticComputes ==
  ASSUME Untranslated, Next, start.name \in Arithmetic, gpr = start.gpr,
         Current = R(start.name, 0, A0, A1), start' = start
  PROVE  cpr' = cpr /\ ((adv1' = adv2 /\ stop' = stop /\ Computed') \/ stop' = "crash")
<1> DEFINE a == start.gpr[A0]
           b == start.gpr[A1]
           i == Current
<1>1. /\ i.op = start.name /\ i.rs = A0 /\ i.rt = A1
      /\ gpr[i.rs] = a /\ gpr[i.rt] = b
  BY DEF R
<1>2. a \in Word /\ b \in Word
  BY RegisterNumbers DEF Untranslated, MInv, MachineTypeOK
<1>3. /\ Signed(a) \in Int /\ 2 * Signed(a) >= -WordSpace /\ 2 * Signed(a) < WordSpace
      /\ Signed(b) \in Int /\ 2 * Signed(b) >= -WordSpace /\ 2 * Signed(b) < WordSpace
      /\ a \in Int /\ b \in Int
      /\ Signed(b) = 0 <=> b = 0
  <2>1. a \in Int /\ b \in Int /\ b < WordSpace /\ WordSpace \in Nat
    BY <1>2, Widths DEF Word
  <2> QED
    BY <1>2, <2>1, SignedWord, SignedNumbers
<1>4. Executes(i)
  BY ExecutesCurrent
<1>5. ASSUME NEW h, NEW l, SetsHiLo(h, l)
      PROVE  adv1' = adv2 /\ cpr' = cpr /\ stop' = stop /\ hi' = h /\ lo' = l
  BY <1>5, Fetches DEF SetsHiLo, Advance, Recording
<1> HIDE DEF i, a, b
<1>6. CASE start.name = "MULT"
  <2>1. Product(Signed(a) * Signed(b))
    BY <1>1, <1>4, <1>6 DEF Executes
  <2>2. SetsHiLo(ToWord((Signed(a) * Signed(b)) \div WordSpace), ToWord(Signed(a) * Signed(b)))
    BY <2>1 DEF Product
  <2>3. Signed(hi') * WordSpace + lo' = Signed(a) * Signed(b)
    BY <1>3, <1>5, <2>2, SignedProduct
  <2> QED
    BY <1>5, <1>6, <2>2, <2>3 DEF Computed, a, b
<1>7. CASE start.name = "MULTU"
  <2>1. Product(a * b)
    BY <1>1, <1>4, <1>7 DEF Executes
  <2>2. SetsHiLo(ToWord((a * b) \div WordSpace), ToWord(a * b))
    BY <2>1 DEF Product
  <2>3. hi' * WordSpace + lo' = a * b
    BY <1>2, <1>5, <2>2, UnsignedProduct
  <2> QED
    BY <1>5, <1>7, <2>2, <2>3 DEF Computed, a, b
<1>8. CASE start.name = "DIVU"
  <2>1. Divide(a, b)
    BY <1>1, <1>4, <1>8 DEF Executes
  <2>2. CASE b = 0
    <3>1. SetsHiLo(hi, lo)
      BY <2>1, <2>2 DEF Divide
    <3> QED
      BY <1>5, <1>8, <2>2, <3>1 DEF Computed, a, b
  <2>3. CASE b # 0
    <3>1. SetsHiLo(ToWord(Rem(a, b)), ToWord(Quot(a, b)))
      BY <2>1, <2>3 DEF Divide
    <3>2. a = lo' * b + hi' /\ hi' < b
      BY <1>2, <1>5, <2>3, <3>1, UnsignedQuotient
    <3> QED
      BY <1>5, <1>8, <3>1, <3>2 DEF Computed, a, b
  <2> QED
    BY <2>2, <2>3
<1>9. CASE start.name = "DIV"
  <2>1. \/ ~Overflows(i) /\ Divide(Signed(a), Signed(b))
        \/ Stop("crash")
    BY <1>1, <1>4, <1>9 DEF Executes
  <2>2. CASE Stop("crash")
    BY <2>2, Fetches DEF Stop, Recording
  <2>3. CASE ~Overflows(i) /\ Divide(Signed(a), Signed(b)) /\ b = 0
    <3>1. SetsHiLo(hi, lo)
      BY <1>3, <2>3 DEF Divide
    <3> QED
      BY <1>5, <1>9, <2>3, <3>1 DEF Computed, a, b
  <2>4. CASE ~Overflows(i) /\ Divide(Signed(a), Signed(b)) /\ b # 0
    <3>1. SetsHiLo(ToWord(Rem(Signed(a), Signed(b))), ToWord(Quot(Signed(a), Signed(b))))
      BY <1>3, <2>4 DEF Divide
    <3>2. ~(Signed(a) = -(WordSpace \div 2) /\ Signed(b) = -1)
      BY <1>1, <2>4 DEF Overflows
    <3>3. PICK x \in Int, y \in Int : x = Signed(a) /\ y = Signed(b)
      BY <1>3
    <3>4. /\ x = Signed(lo') * y + Signed(hi') /\ Abs(Signed(hi')) < Abs(y)
          /\ Signed(hi') = 0 \/ (Signed(hi') < 0) = (x < 0)
      <4>1. hi' = ToWord(Rem(x, y)) /\ lo' = ToWord(Quot(x, y))
        BY <1>5, <3>1, <3>3
      <4> QED
        BY <1>3, <2>4, <3>2, <3>3, <4>1, SignedQuotient
    <3> QED
      BY <1>5, <1>9, <3>1, <3>3, <3>4 DEF Computed, a, b
  <2> QED
    BY <2>1, <2>2, <2>3, <2>4
<1> QED
  BY <1>6, <1>7, <1>8, <1>9 DEF Arithmetic

(* How a program begins.                                                   *)
LEMMA Beginning ==
  ASSUME Init, NEW code, Begins(start, code)
  PROVE  /\ Untranslated /\ stop = "no" /\ pc = 0 /\ adv1 = 0 /\ adv2 = 4
         /\ gpr = start.gpr /\ mem = start.mem /\ disk = start.disk
<1>1. MInv
  BY MInvInit
<1> QED
  BY <1>1 DEF Init, Begins, Untranslated

(* How it ends: behind the last of its instructions.                       *)
LEMMA Ending ==
  ASSUME Untranslated, Next, Current = Reserved
  PROVE  /\ stop = "no" /\ stop' = "exception" /\ pc' = adv1 /\ adv1' = adv2 /\ cpr' = cpr
         /\ UNCHANGED <<start, gpr, shadow, hi, lo, storage>>
<1>1. Current.op = "NONE"
  BY DEF Reserved
<1>2. stop = "no" /\ Stop("exception")
  BY <1>1, ExecutesCurrent DEF Executes
<1> QED
  BY <1>2, Fetches DEF Stop, Advance, Recording

(* It is kept by the steps of those programs.                              *)
LEMMA ArithmeticSteps == MInv /\ ArithmeticInv /\ [Next]_vars => ArithmeticInv'
<1>1. CASE UNCHANGED vars
  BY <1>1
  DEF vars, pipeline, storage, ArithmeticInv, Computed, Untranslated, MInv, MachineTypeOK
<1>2. ASSUME MInv, ArithmeticInv, Next PROVE ArithmeticInv'
  <2> SUFFICES ASSUME start'.name \in Arithmetic PROVE ArithmeticInv'
    BY DEF ArithmeticInv
  <2>1. start' = start /\ MInv'
    BY <1>2, StartStays, MInvNext
  <2>2. start.name \in Arithmetic /\ Untranslated
    BY <1>2, <2>1 DEF ArithmeticInv
  <2>3. stop = "no"
    BY <1>2, <2>2, ExecutesCurrent
  <2> DEFINE code == <<R(start.name, 0, A0, A1)>>
  <2>4. start.code = Placed(0, code)
    BY <1>2, <2>2, NamedPrograms DEF MInv, Begins
  <2>5. DOMAIN code = 1..1 /\ code[1] = R(start.name, 0, A0, A1)
    OBVIOUS
  <2> HIDE DEF code
  <2>6. \A k \in 1..1 : CodeAt(4 * k - 4) = code[k]
    BY <2>4, <2>5, PlacedCode
  <2>7. CodeAt(0) = R(start.name, 0, A0, A1)
    BY <2>5, <2>6
  <2>8. CodeAt(4) = Reserved
    <3>1. \A p \in Nat : p >= 4 * 1 => CodeAt(p) = Reserved
      BY <2>4, <2>5, PlacedCode
    <3> QED
      BY <3>1
  <2>9. CASE adv1 = 0 /\ adv2 = 4 /\ gpr = start.gpr
    <3>1. Current = R(start.name, 0, A0, A1)
      BY <2>7, <2>9 DEF Current
    <3>2. cpr' = cpr /\ ((adv1' = 4 /\ stop' = stop /\ Computed') \/ stop' = "crash")
      BY <1>2, <2>1, <2>2, <2>9, <3>1, ArithmeticComputes
    <3>3. CASE adv1' = 4 /\ stop' = stop /\ Computed'
      BY <2>1, <2>2, <2>3, <3>2, <3>3 DEF ArithmeticInv, Untranslated
    <3>4. CASE stop' = "crash"
      BY <2>1, <2>2, <3>2, <3>4 DEF ArithmeticInv, Untranslated
    <3> QED
      BY <3>2, <3>3, <3>4
  <2>10. CASE adv1 = 4 /\ Computed
    <3>1. Current = Reserved
      BY <2>8, <2>10 DEF Current
    <3>2. stop' = "exception" /\ cpr' = cpr /\ UNCHANGED <<start, hi, lo>>
      BY <1>2, <2>2, <3>1, Ending
    <3> QED
      BY <2>1, <2>2, <2>10, <3>2 DEF ArithmeticInv, Untranslated, Computed
  <2> QED
    BY <1>2, <2>2, <2>3, <2>9, <2>10 DEF ArithmeticInv
<1> QED
  BY <1>1, <1>2

(* Products and quotients are right for operands of any value and words of *)
(* any width, unless the division traps (inst.c:742-790, 1066-1098).       *)
THEOREM Arithmetics == Spec => []ProductsAndQuotients
<1>1. Init => ArithmeticInv
  <2> SUFFICES ASSUME Init, start.name \in Arithmetic PROVE ArithmeticInv
    BY DEF ArithmeticInv
  <2>1. Begins(start, <<R(start.name, 0, A0, A1)>>)
    BY NamedPrograms DEF Init
  <2> QED
    BY <2>1, Beginning DEF ArithmeticInv
<1>2. ArithmeticInv => ProductsAndQuotients
  BY DEF ArithmeticInv, Computed, ProductsAndQuotients, Ended, Arithmetic
<1> QED
  BY <1>1, <1>2, ArithmeticSteps, MInvInit, MInvNext, PTL DEF Spec

-----------------------------------------------------------------------------
(* Steps of programs.                                                      *)

(* The instruction at PC is followed by the one at adv2.                   *)
Follows ==
  /\ pc' = adv1 /\ adv1' = adv2 /\ adv2' = ToWord(adv2 + 4)
  /\ cpr' = cpr /\ UNCHANGED <<start, shadow, hi, lo, stop, mem, disk>>

(* A register is set, and $zero is zero.                                   *)
LEMMA Setting ==
  ASSUME Untranslated, NEW r \in Regs, NEW n, Sets(r, n)
  PROVE  /\ Follows
         /\ gpr' = [gpr EXCEPT ![r] = ToWord(n), ![0] = 0]
         /\ \A s \in Regs : gpr'[s] = IF s = 0 THEN 0 ELSE IF s = r THEN ToWord(n) ELSE gpr[s]
<1>1. Follows /\ gpr' = [gpr EXCEPT ![r] = ToWord(n), ![0] = 0]
  BY Fetches DEF Sets, Write, Advance, Recording, storage, Follows
<1>2. gpr \in [Regs -> Word] /\ 0 \in Regs
  BY MachineAssumption DEF Untranslated, MInv, MachineTypeOK
<1> QED
  BY <1>1, <1>2

(* A small immediate value is itself.                                      *)
LEMMA SmallImmediates ==
  /\ \A n \in 0..31 : n % Half = n /\ SignedImm(n % Half) = n
  /\ SignedImm((-1) % Half) = -1
<1>1. Half \in Nat /\ Half >= 64
  BY ProgramWidths
<1>2. \A n \in 0..31, h \in Nat : h >= 64 => n % h = n
  OBVIOUS
<1>3. \A h \in Nat : h >= 64 => (-1) % h = h - 1
  OBVIOUS
<1> QED
  BY <1>1, <1>2, <1>3 DEF SignedImm

(* One is added to a register.                                             *)
LEMMA AddsOne ==
  ASSUME Untranslated, Next, NEW r \in Regs, Current = I("ADDI", r, r, 1)
  PROVE  /\ Follows
         /\ \A s \in Regs :
              gpr'[s] = IF s = 0 THEN 0 ELSE IF s = r THEN ToWord(gpr[r] + 1) ELSE gpr[s]
<1>1. Current.op = "ADDI" /\ Current.rt = r /\ Current.rs = r /\ SignedImm(Current.im) = 1
  BY SmallImmediates DEF I
<1>2. Sets(r, gpr[r] + 1)
  BY <1>1, ExecutesCurrent DEF Executes
<1> QED
  BY <1>2, Setting

(* Nothing is done.                                                        *)
LEMMA Nops ==
  ASSUME Untranslated, Next, Current = Nop
  PROVE  Follows /\ gpr' = [gpr EXCEPT ![0] = 0]
<1>1. Current.op = "SLL" /\ Current.rd = 0 /\ 0 \in Regs
  BY MachineAssumption DEF Nop, Shift
<1>2. Sets(0, gpr[Current.rt] * Power2[Current.sa])
  BY <1>1, ExecutesCurrent DEF Executes
<1>3. Follows /\ gpr' = [gpr EXCEPT ![0] = ToWord(gpr[Current.rt] * Power2[Current.sa]), ![0] = 0]
  BY <1>1, <1>2, Setting
<1> QED
  BY <1>3

-----------------------------------------------------------------------------
(* Calls.                                                                  *)

(* The code of a program that calls.                                       *)
LEMMA CallCode ==
  ASSUME MInv, start.name = "call"
  PROVE  /\ Calls(CodeAt(0), start.gpr) /\ CodeAt(4) = I("ADDI", T0, T0, 1)
         /\ CodeAt(8) = I("ADDI", T1, T1, 1) /\ CodeAt(12) = Reserved
         /\ CodeAt(16) = I("ADDI", V0, V0, 1) /\ CodeAt(20) = R("JR", 0, Ra, 0)
         /\ CodeAt(24) = Nop
<1> DEFINE i == start.code[0]
           code == Calling(i)
<1>1. start.code = Placed(0, code) /\ Calls(i, start.gpr)
  BY NamedPrograms DEF MInv, Begins
<1>2. /\ DOMAIN code = 1..7
      /\ code[1] = i /\ code[2] = I("ADDI", T0, T0, 1) /\ code[3] = I("ADDI", T1, T1, 1)
      /\ code[4] = Reserved /\ code[5] = I("ADDI", V0, V0, 1)
      /\ code[6] = R("JR", 0, Ra, 0) /\ code[7] = Nop
  BY DEF Calling, Jr
<1> HIDE DEF code, i
<1>3. \A k \in 1..7 : CodeAt(4 * k - 4) = code[k]
  BY <1>1, <1>2, PlacedCode
<1>4. /\ CodeAt(0) = code[1] /\ CodeAt(4) = code[2] /\ CodeAt(8) = code[3] /\ CodeAt(12) = code[4]
      /\ CodeAt(16) = code[5] /\ CodeAt(20) = code[6] /\ CodeAt(24) = code[7]
  BY <1>3
<1> QED
  BY <1>1, <1>2, <1>4

(* Where the program is, and which of the registers has been counted up.   *)
CallAt(a1, a2, counted) ==
  /\ stop = "no" /\ adv1 = a1 /\ adv2 = a2 /\ (a1 # 0 => gpr[Ra] = 8)
  /\ \A r \in {T0, T1, V0} :
       gpr[r] = IF r \in counted THEN ToWord(start.gpr[r] + 1) ELSE start.gpr[r]

(* The call, its delay slot, the subroutine with its delay slot, and the   *)
(* instruction behind the delay slot of the call.                          *)
CallInv ==
  start.name = "call" =>
    /\ Untranslated
    /\ \/ CallAt(0, 4, {}) /\ gpr = start.gpr
       \/ CallAt(4, 16, {}) \/ CallAt(16, 20, {T0}) \/ CallAt(20, 24, {T0, V0})
       \/ CallAt(24, 8, {T0, V0}) \/ CallAt(8, 12, {T0, V0}) \/ CallAt(12, 16, {T0, T1, V0})
       \/ stop = "exception" /\ pc = 12 /\ \A r \in {T0, T1, V0} : gpr[r] = ToWord(start.gpr[r] + 1)

(* The call, whichever it is.                                              *)
LEMMA CallGoes ==
  ASSUME Untranslated, Next, Calls(Current, start.gpr), gpr = start.gpr, gpr[0] = 0, adv1 = 0, adv2 = 4
  PROVE  /\ adv1' = 4 /\ adv2' = 16 /\ cpr' = cpr /\ stop' = stop /\ gpr'[Ra] = 8
         /\ \A r \in {T0, T1, V0} : gpr'[r] = gpr[r]
<1> DEFINE i == Current
<1>1. gpr \in [Regs -> Word] /\ 0 \in Regs /\ Ra \in Regs
  BY MachineAssumption DEF Untranslated, MInv, MachineTypeOK
<1>2. ToWord(8) = 8 /\ ToWord(16) = 16
  BY ProgramWidths
<1>3. ASSUME Linked
      PROVE  /\ cpr' = cpr /\ stop' = stop /\ gpr'[Ra] = 8
             /\ \A r \in {T0, T1, V0} : gpr'[r] = gpr[r]
             /\ \A r \in Regs : r # Ra => gpr'[r] = gpr[r]
  <2>1. gpr' = [gpr EXCEPT ![Ra] = 8, ![0] = 0] /\ cpr' = cpr /\ stop' = stop
    BY <1>2, <1>3, Fetches DEF Linked, Write, Recording
  <2> QED
    BY <1>1, <2>1, RegisterNumbers
<1>4. Executes(i)
  BY ExecutesCurrent
<1>9. i.rs \in Regs
  BY CurrentTyped DEF Instruction
<1> HIDE DEF i
<1>5. CASE i.op = "JAL" /\ i.im = 4
  <2>1. Linked /\ BranchTo(ToWord(4 * 4))
    BY <1>4, <1>5 DEF Executes
  <2> QED
    BY <1>2, <1>3, <2>1 DEF BranchTo
<1>6. CASE i.op = "JALR" /\ i.rs # Ra /\ start.gpr[i.rs] = 16
  <2>1. Linked /\ BranchTo(gpr'[i.rs])
    BY <1>4, <1>6 DEF Executes
  <2> QED
    BY <1>3, <1>6, <1>9, <2>1 DEF BranchTo
<1>7. CASE i.op = "BGEZAL" /\ i.rs # Ra /\ Signed(start.gpr[i.rs]) >= 0 /\ i.im = 3
  <2>1. Linked /\ BranchIf(i, Signed(gpr'[i.rs]) >= 0)
    BY <1>4, <1>7 DEF Executes
  <2>2. Signed(gpr'[i.rs]) >= 0
    BY <1>3, <1>7, <1>9, <2>1
  <2>3. SignedImm(3) = 3
    BY SmallImmediates
  <2>4. BranchTo(ToWord(0 + 4 + 4 * 3))
    BY <1>7, <2>1, <2>2, <2>3 DEF BranchIf
  <2> QED
    BY <1>2, <1>3, <2>1, <2>4 DEF BranchTo
<1> QED
  BY <1>5, <1>6, <1>7 DEF Calls, i

(* It is kept by the steps of a program that calls.                        *)
LEMMA CallSteps == MInv /\ CallInv /\ [Next]_vars => CallInv'
<1>1. CASE UNCHANGED vars
  BY <1>1 DEF vars, pipeline, storage, CallInv, CallAt, Untranslated, MInv, MachineTypeOK
<1>2. ASSUME MInv, CallInv, Next PROVE CallInv'
  <2> SUFFICES ASSUME start'.name = "call" PROVE CallInv'
    BY DEF CallInv
  <2>1. start' = start /\ MInv'
    BY <1>2, StartStays, MInvNext
  <2>2. start.name = "call" /\ Untranslated
    BY <1>2, <2>1 DEF CallInv
  <2>3. stop = "no"
    BY <1>2, <2>2, ExecutesCurrent
  <2>4. /\ Calls(CodeAt(0), start.gpr) /\ CodeAt(4) = I("ADDI", T0, T0, 1)
        /\ CodeAt(8) = I("ADDI", T1, T1, 1) /\ CodeAt(12) = Reserved
        /\ CodeAt(16) = I("ADDI", V0, V0, 1) /\ CodeAt(20) = R("JR", 0, Ra, 0)
        /\ CodeAt(24) = Nop
    BY <2>1, <2>2, CallCode DEF Untranslated
  <2>5. Untranslated' <=> cpr'[GDTBASE] = 0
    BY <2>1 DEF Untranslated
  <2>6. /\ ToWord(8 + 4) = 12 /\ ToWord(12 + 4) = 16 /\ ToWord(16 + 4) = 20 /\ ToWord(20 + 4) = 24
    BY ProgramWidths
  <2>7. CASE CallAt(0, 4, {}) /\ gpr = start.gpr
    <3>1. Calls(Current, start.gpr) /\ gpr[0] = 0
      BY <2>2, <2>4, <2>7, NamedPrograms DEF CallAt, Current, Untranslated, MInv, Begins
    <3>2. /\ adv1' = 4 /\ adv2' = 16 /\ cpr' = cpr /\ stop' = stop /\ gpr'[Ra] = 8
          /\ \A r \in {T0, T1, V0} : gpr'[r] = gpr[r]
      BY <1>2, <2>2, <2>7, <3>1, CallGoes DEF CallAt
    <3>3. CallAt(4, 16, {})'
      BY <2>1, <2>7, <3>2 DEF CallAt
    <3> QED
      BY <2>2, <2>5, <3>2, <3>3 DEF CallInv, Untranslated
  <2>8. CASE CallAt(4, 16, {})
    <3>1. Current = I("ADDI", T0, T0, 1)
      BY <2>4, <2>8 DEF Current, CallAt
    <3>2. /\ Follows
          /\ \A s \in Regs :
               gpr'[s] = IF s = 0 THEN 0 ELSE IF s = T0 THEN ToWord(gpr[T0] + 1) ELSE gpr[s]
      BY <1>2, <2>2, <3>1, AddsOne, RegisterNumbers
    <3>3. CallAt(16, 20, {T0})'
      BY <2>1, <2>6, <2>8, <3>2, RegisterNumbers DEF CallAt, Follows
    <3> QED
      BY <2>2, <2>5, <3>2, <3>3 DEF CallInv, Untranslated, Follows
  <2>9. CASE CallAt(16, 20, {T0})
    <3>1. Current = I("ADDI", V0, V0, 1)
      BY <2>4, <2>9 DEF Current, CallAt
    <3>2. /\ Follows
          /\ \A s \in Regs :
               gpr'[s] = IF s = 0 THEN 0 ELSE IF s = V0 THEN ToWord(gpr[V0] + 1) ELSE gpr[s]
      BY <1>2, <2>2, <3>1, AddsOne, RegisterNumbers
    <3>3. CallAt(20, 24, {T0, V0})'
      BY <2>1, <2>6, <2>9, <3>2, RegisterNumbers DEF CallAt, Follows
    <3> QED
      BY <2>2, <2>5, <3>2, <3>3 DEF CallInv, Untranslated, Follows
  <2>10. CASE CallAt(20, 24, {T0, V0})
    <3>1. Current.op = "JR" /\ Current.rs = Ra
      BY <2>4, <2>10 DEF Current, CallAt, R
    <3>2. BranchTo(gpr[Ra]) /\ Unlinked
      BY <1>2, <2>2, <3>1, ExecutesCurrent DEF Executes
    <3>3. adv1' = 24 /\ adv2' = 8 /\ gpr' = gpr /\ stop' = stop /\ cpr' = cpr
      BY <2>2, <2>10, <3>2, Fetches DEF BranchTo, Unlinked, Recording, CallAt
    <3>4. CallAt(24, 8, {T0, V0})'
      BY <2>1, <2>10, <3>3 DEF CallAt
    <3> QED
      BY <2>2, <2>5, <3>3, <3>4 DEF CallInv, Untranslated
  <2>11. CASE CallAt(24, 8, {T0, V0})
    <3>1. Current = Nop
      BY <2>4, <2>11 DEF Current, CallAt
    <3>2. Follows /\ gpr' = [gpr EXCEPT ![0] = 0]
      BY <1>2, <2>2, <3>1, Nops
    <3>3. gpr'[Ra] = gpr[Ra] /\ \A r \in {T0, T1, V0} : gpr'[r] = gpr[r]
      BY <3>2, RegisterNumbers DEF Untranslated, MInv, MachineTypeOK
    <3>4. CallAt(8, 12, {T0, V0})'
      BY <2>1, <2>6, <2>11, <3>2, <3>3 DEF CallAt, Follows
    <3> QED
      BY <2>2, <2>5, <3>2, <3>4 DEF CallInv, Untranslated, Follows
  <2>12. CASE CallAt(8, 12, {T0, V0})
    <3>1. Current = I("ADDI", T1, T1, 1)
      BY <2>4, <2>12 DEF Current, CallAt
    <3>2. /\ Follows
          /\ \A s \in Regs :
               gpr'[s] = IF s = 0 THEN 0 ELSE IF s = T1 THEN ToWord(gpr[T1] + 1) ELSE gpr[s]
      BY <1>2, <2>2, <3>1, AddsOne, RegisterNumbers
    <3>3. CallAt(12, 16, {T0, T1, V0})'
      BY <2>1, <2>6, <2>12, <3>2, RegisterNumbers DEF CallAt, Follows
    <3> QED
      BY <2>2, <2>5, <3>2, <3>3 DEF CallInv, Untranslated, Follows
  <2>13. CASE CallAt(12, 16, {T0, T1, V0})
    <3>1. Current = Reserved
      BY <2>4, <2>13 DEF Current, CallAt
    <3>2. stop' = "exception" /\ pc' = adv1 /\ cpr' = cpr /\ gpr' = gpr
      BY <1>2, <2>2, <3>1, Ending
    <3> QED
      BY <2>1, <2>2, <2>5, <2>13, <3>2 DEF CallInv, CallAt, Untranslated
  <2> QED
    BY <1>2, <2>2, <2>3, <2>7, <2>8, <2>9, <2>10, <2>11, <2>12, <2>13 DEF CallInv
<1> QED
  BY <1>1, <1>2

(* A call comes back behind its delay slot whichever instruction made it   *)
(* and whatever the registers hold (inst.c:488-498, 646-659, 836-877).     *)
THEOREM CallsComeBack == Spec => []CallsReturn
<1>1. Init => CallInv
  <2> SUFFICES ASSUME Init, start.name = "call" PROVE CallInv
    BY DEF CallInv
  <2>1. Begins(start, Calling(start.code[0]))
    BY NamedPrograms DEF Init
  <2> QED
    BY <2>1, Beginning DEF CallInv, CallAt
<1>2. CallInv => CallsReturn
  BY DEF CallInv, CallAt, CallsReturn, Ended
<1> QED
  BY <1>1, <1>2, CallSteps, MInvInit, MInvNext, PTL DEF Spec

-----------------------------------------------------------------------------
(* Bits of words.                                                          *)

(* A quotient and a remainder are determined by being ones.                *)
LEMMA DivisionUnique ==
  ASSUME NEW d \in Nat, NEW q \in Int, NEW r \in Nat, r < d
  PROVE  (q * d + r) \div d = q /\ (q * d + r) % d = r
<1>1. PICK n \in Int : n = q * d + r
  OBVIOUS
<1>2. PICK p \in Int, s \in Nat : p = n \div d /\ s = n % d /\ s < d /\ n = p * d + s
  <2>1. d # 0
    OBVIOUS
  <2> QED
    BY <2>1, Division
<1>3. ~(p < q)
  <2> SUFFICES ASSUME p < q PROVE FALSE
    OBVIOUS
  <2>1. PICK e \in Nat : q = p + 1 + e
    <3>1. q - p - 1 \in Nat
      OBVIOUS
    <3> QED
      BY <3>1
  <2>2. q * d = p * d + d + e * d /\ e * d \in Nat /\ p * d \in Int
    BY <2>1
  <2> QED
    BY <1>1, <1>2, <2>2
<1>4. ~(q < p)
  <2> SUFFICES ASSUME q < p PROVE FALSE
    OBVIOUS
  <2>1. PICK e \in Nat : p = q + 1 + e
    <3>1. p - q - 1 \in Nat
      OBVIOUS
    <3> QED
      BY <3>1
  <2>2. p * d = q * d + d + e * d /\ e * d \in Nat /\ q * d \in Int
    BY <2>1
  <2> QED
    BY <1>1, <1>2, <2>2
<1>5. p = q
  BY <1>3, <1>4
<1>6. s = r
  <2>1. q * d \in Int
    OBVIOUS
  <2> QED
    BY <1>1, <1>2, <1>5, <2>1
<1> QED
  BY <1>1, <1>2, <1>5, <1>6

(* The low k bits of a number: those below, and the last of them.          *)
LEMMA LowBits ==
  ASSUME NEW x \in Nat, NEW k \in 1..WordBits
  PROVE  /\ k - 1 \in Bits /\ x % Power2[k] \in Nat
         /\ x % Power2[k] = (x % Power2[k - 1]) + Bit(x, k - 1) * Power2[k - 1]
<1>1. WordBits \in Nat /\ k - 1 \in Bits /\ k - 1 \in 0..WordBits
  BY Powers DEF Bits
<1>2. PICK p \in Nat : p = Power2[k - 1] /\ p # 0 /\ Power2[k] = 2 * p
  BY <1>1, Powers
<1>3. PICK q \in Int, r \in Nat : q = x \div p /\ r = x % p /\ r < p /\ x = q * p + r
  BY <1>2, Division, SMTT(30)
<1>4. PICK h \in Int, b \in Nat : h = q \div 2 /\ b = q % 2 /\ b < 2 /\ q = h * 2 + b
  OBVIOUS
<1>5. b = Bit(x, k - 1)
  BY <1>2, <1>3, <1>4 DEF Bit
<1>6. b * p \in Nat /\ b * p + r < 2 * p /\ b * p + r \in Nat
  <2>1. b = 0 \/ b = 1
    BY <1>4
  <2> QED
    BY <1>3, <2>1
<1>7. x = h * (2 * p) + (b * p + r)
  <2>1. (h * 2 + b) * p = h * (2 * p) + b * p
    OBVIOUS
  <2>2. x = (h * 2 + b) * p + r
    BY <1>3, <1>4, Zenon
  <2>3. PICK y \in Int, z \in Int : y = h * (2 * p) /\ z = b * p
    OBVIOUS
  <2>4. y + z + r = y + (z + r)
    OBVIOUS
  <2> QED
    BY <2>1, <2>2, <2>3, <2>4, Zenon
<1>8. 2 * p \in Nat
  OBVIOUS
<1>9. (h * (2 * p) + (b * p + r)) % (2 * p) = b * p + r
  BY <1>6, <1>8, DivisionUnique
<1> QED
  BY <1>1, <1>2, <1>3, <1>5, <1>6, <1>7, <1>9

(* The number whose bits are those of one word or of another which has     *)
(* none of them in common with it is their sum.                            *)
LEMMA SumOfWords ==
  ASSUME NEW v \in Word, NEW w \in Word, NEW b \in [Bits -> Int],
         \A k \in Bits : b[k] = Bit(v, k) + Bit(w, k)
  PROVE  FromBits(b) = v + w
<1>1. v \in Nat /\ w \in Nat /\ v < WordSpace /\ w < WordSpace /\ WordSpace \in Nat
  BY Widths DEF Word
<1>2. PICK g \in [0..WordBits -> Int] :
        /\ g[0] = 0 /\ \A k \in 1..WordBits : g[k] = g[k - 1] + b[k - 1] * Power2[k - 1]
        /\ FromBits(b) = g[WordBits]
  BY SumOfBits
<1> DEFINE Low(k) == (v % Power2[k]) + (w % Power2[k])
           Bad == {k \in 0..WordBits : g[k] # Low(k)}
<1>3. WordBits \in Nat
  BY Powers
<1>4. 0 \notin Bad
  <2>1. v % 1 = 0 /\ w % 1 = 0
    BY <1>1
  <2>2. Low(0) = 0
    BY <2>1, Powers
  <2> HIDE DEF Low
  <2> QED
    BY <1>2, <2>2
<1>5. ASSUME NEW k \in 1..WordBits, k - 1 \notin Bad PROVE k \notin Bad
  <2>1. k - 1 \in 0..WordBits /\ k - 1 \in Bits
    BY <1>3 DEF Bits
  <2>2. g[k - 1] = Low(k - 1)
    BY <1>5, <2>1
  <2>3. /\ v % Power2[k] = (v % Power2[k - 1]) + Bit(v, k - 1) * Power2[k - 1]
        /\ w % Power2[k] = (w % Power2[k - 1]) + Bit(w, k - 1) * Power2[k - 1]
    BY <1>1, LowBits
  <2>4. g[k] = g[k - 1] + (Bit(v, k - 1) + Bit(w, k - 1)) * Power2[k - 1]
    BY <1>2, <2>1
  <2>5. PICK x \in Int, y \in Int, p \in Nat, s \in Int, t \in Int :
          /\ x = Bit(v, k - 1) /\ y = Bit(w, k - 1) /\ p = Power2[k - 1]
          /\ s = v % Power2[k - 1] /\ t = w % Power2[k - 1]
    <3>1. Bit(v, k - 1) \in Int /\ Bit(w, k - 1) \in Int
      BY <1>1, <2>1, BitOf
    <3>2. Power2[k - 1] \in Nat /\ Power2[k - 1] # 0
      BY <2>1, Powers
    <3>3. \A n \in Nat, d \in Nat : d # 0 => n % d \in Int
      OBVIOUS
    <3>4. v % Power2[k - 1] \in Int /\ w % Power2[k - 1] \in Int
      BY <1>1, <3>2, <3>3
    <3> QED
      BY <3>1, <3>2, <3>4
  <2>6. (s + t) + (x + y) * p = (s + x * p) + (t + y * p)
    OBVIOUS
  <2>7. Low(k) = (s + x * p) + (t + y * p)
    BY <2>3, <2>5, Zenon
  <2>8. g[k] = (s + t) + (x + y) * p
    BY <2>2, <2>4, <2>5, Zenon
  <2>9. g[k] = Low(k)
    BY <2>6, <2>7, <2>8, Zenon
  <2> HIDE DEF Low
  <2> QED
    BY <2>9
<1>6. Bad = {}
  <2> SUFFICES ASSUME Bad # {} PROVE FALSE
    OBVIOUS
  <2>1. Bad \subseteq Nat /\ Bad \subseteq 0..WordBits
    OBVIOUS
  <2> HIDE DEF Bad
  <2>2. PICK m \in Bad : \A n \in Bad : m <= n
    BY <2>1, LeastNumber
  <2>3. m \in 1..WordBits /\ ~(m <= m - 1)
    <3>1. m \in 0..WordBits /\ m # 0
      BY <1>4, <2>1, <2>2
    <3> QED
      BY <1>3, <3>1
  <2> QED
    BY <1>5, <2>2, <2>3
<1>7. g[WordBits] = Low(WordBits)
  <2>1. WordBits \in 0..WordBits
    BY <1>3
  <2> QED
    BY <1>6, <2>1
<1>8. v % WordSpace = v /\ w % WordSpace = w
  <2>1. \A n, d \in Nat : n < d => n % d = n
    OBVIOUS
  <2> QED
    BY <1>1, <2>1
<1>9. Power2[WordBits] = WordSpace
  BY MachineAssumption
<1>10. Low(WordBits) = v + w
  BY <1>8, <1>9, Zenon
<1> QED
  BY <1>2, <1>7, <1>10, Zenon

(* A bit of zero is zero.                                                  *)
LEMMA BitsOfZero == \A k \in Bits : Bit(0, k) = 0
<1> SUFFICES ASSUME NEW k \in Bits PROVE Bit(0, k) = 0
  OBVIOUS
<1>1. k \in 0..WordBits
  BY Powers DEF Bits
<1>2. PICK p \in Nat : p = Power2[k] /\ p # 0
  BY <1>1, Powers
<1>3. 0 \div p = 0
  BY <1>2
<1> QED
  BY <1>2, <1>3 DEF Bit

(* The conjunction of truth values.                                        *)
LEMMA AndOfTruths ==
  ASSUME NEW x \in {0, 1}, NEW y \in {0, 1}
  PROVE  And(x, y) = x * y
<1>1. PICK z \in Word : z = x * y
  <2>1. x * y \in {0, 1}
    OBVIOUS
  <2> QED
    BY <2>1, ProgramWidths
<1> DEFINE b == [k \in Bits |-> Bit(x, k) * Bit(y, k)]
<1>2. \A k \in Bits : b[k] = Bit(z, k) + Bit(0, k) /\ b[k] \in Int
  <2> SUFFICES ASSUME NEW k \in Bits PROVE b[k] = Bit(z, k) + Bit(0, k) /\ b[k] \in Int
    OBVIOUS
  <2>1. Bit(0, k) = 0 /\ Bit(1, k) \in {0, 1}
    BY BitsOfZero, BitOf
  <2>2. z = (IF x = 0 \/ y = 0 THEN 0 ELSE 1) /\ x \in {0, 1} /\ y \in {0, 1}
    BY <1>1
  <2>3. b[k] = Bit(x, k) * Bit(y, k)
    OBVIOUS
  <2> HIDE DEF b
  <2>4. CASE x = 0 \/ y = 0
    <3>1. z = 0 /\ Bit(x, k) * Bit(y, k) = 0
      BY <2>1, <2>2, <2>4
    <3> QED
      BY <2>1, <2>3, <3>1
  <2>5. CASE x = 1 /\ y = 1
    <3>1. z = 1 /\ Bit(1, k) * Bit(1, k) = Bit(1, k)
      BY <2>1, <2>2, <2>5
    <3> QED
      BY <2>1, <2>3, <2>5, <3>1
  <2> QED
    BY <2>2, <2>4, <2>5
<1>3. b \in [Bits -> Int] /\ 0 \in Word
  BY <1>2, ProgramWidths
<1> HIDE DEF b
<1>4. FromBits(b) = z + 0
  BY <1>2, <1>3, SumOfWords
<1> QED
  BY <1>1, <1>4, Widths DEF And, b, Word

-----------------------------------------------------------------------------
(* The macros.                                                             *)

(* A placed program has as many instructions as there are in its text.     *)
LEMMA PlacedSize ==
  ASSUME NEW code, NEW n, n \in Nat, DOMAIN code = 1..n, start.code = Placed(0, code)
  PROVE  Cardinality(DOMAIN start.code) = n
<1> DEFINE f == [k \in 1..n |-> 4 * k - 4]
           D == {4 * k - 4 : k \in 1..n}
<1>1. DOMAIN start.code = D
  BY PlacedCode, Zenon
<1>2. f \in Bijection(1..n, D)
  <2>1. f \in [1..n -> D]
    OBVIOUS
  <2>2. \A j, k \in 1..n : f[j] = f[k] => j = k
    OBVIOUS
  <2>3. \A x \in D : \E k \in 1..n : f[k] = x
    OBVIOUS
  <2> HIDE DEF f, D
  <2> QED
    BY <2>1, <2>2, <2>3 DEF Bijection, Injection, Surjection, IsInjective
<1>3. ExistsBijection(1..n, D)
  BY <1>2 DEF ExistsBijection
<1>4. IsFiniteSet(1..n) /\ Cardinality(1..n) = n
  <2>1. 1 \in Int /\ n \in Int
    OBVIOUS
  <2>2. IsFiniteSet(1..n) /\ Cardinality(1..n) = IF 1 > n THEN 0 ELSE n - 1 + 1
    BY <2>1, FS_Interval
  <2>3. (IF 1 > n THEN 0 ELSE n - 1 + 1) = n
    OBVIOUS
  <2> QED
    BY <2>2, <2>3
<1> HIDE DEF D
<1> QED
  BY <1>1, <1>3, <1>4, FS_Bijection, Zenon

(* A register other than $zero is set.                                     *)
LEMMA SettingOne ==
  ASSUME Untranslated, gpr[0] = 0, NEW r \in Regs, r # 0, NEW n, Sets(r, n)
  PROVE  Follows /\ gpr' = [gpr EXCEPT ![r] = ToWord(n)]
<1>1. Follows /\ gpr' = [gpr EXCEPT ![r] = ToWord(n), ![0] = 0]
  BY Setting
<1>2. gpr \in [Regs -> Word] /\ 0 \in Regs
  BY MachineAssumption DEF Untranslated, MInv, MachineTypeOK
<1> QED
  BY <1>1, <1>2

(* Nothing is set.                                                         *)
LEMMA SettingNone ==
  ASSUME Untranslated, gpr[0] = 0, Next, Current = Nop
  PROVE  Follows /\ gpr' = gpr
<1>1. Follows /\ gpr' = [gpr EXCEPT ![0] = 0]
  BY Nops
<1>2. gpr \in [Regs -> Word] /\ 0 \in Regs
  BY MachineAssumption DEF Untranslated, MInv, MachineTypeOK
<1> QED
  BY <1>1, <1>2

(* A branch with one instruction behind the delay slot.                    *)
LEMMA Branching ==
  ASSUME Untranslated, Next, NEW eq \in BOOLEAN, NEW a \in 0..32, adv1 = a, adv2 = a + 4,
         NEW r \in Regs, NEW q \in Regs,
         Current = I(IF eq THEN "BEQ" ELSE "BNE", r, q, 1 + 1)
  PROVE  /\ adv1' = a + 4 /\ gpr' = gpr /\ cpr' = cpr /\ stop' = stop
         /\ adv2' = IF (gpr[q] = gpr[r]) = eq THEN a + 12 ELSE a + 8
<1>1. SignedImm(Current.im) = 2 /\ Current.rt = r /\ Current.rs = q
  <2>1. Current.im = (1 + 1) % Half
    BY DEF I
  <2>2. 1 + 1 = 2
    OBVIOUS
  <2>3. Current.rt = r /\ Current.rs = q
    BY DEF I
  <2> QED
    BY <2>1, <2>2, <2>3, SmallImmediates
<1>2. ToWord(a + 12) = a + 12 /\ ToWord(a + 8) = a + 8
  BY ProgramWidths
<1>3. a + 4 + 4 * 2 = a + 12 /\ (a + 4) + 4 = a + 8
  OBVIOUS
<1>4. Executes(Current)
  BY ExecutesCurrent
<1>5. \A taken \in BOOLEAN :
        BranchIf(Current, taken) /\ Unlinked =>
          /\ adv1' = a + 4 /\ gpr' = gpr /\ cpr' = cpr /\ stop' = stop
          /\ adv2' = IF taken THEN a + 12 ELSE a + 8
  BY <1>1, <1>2, <1>3, Fetches DEF BranchIf, BranchTo, Unlinked, Recording
<1>6. CASE eq
  <2>1. Current.op = "BEQ"
    BY <1>6 DEF I
  <2>2. BranchIf(Current, gpr[q] = gpr[r]) /\ Unlinked
    BY <1>1, <1>4, <2>1 DEF Executes
  <2> QED
    BY <1>5, <1>6, <2>2
<1>7. CASE ~eq
  <2>1. Current.op = "BNE"
    BY <1>7 DEF I
  <2>2. BranchIf(Current, gpr[q] # gpr[r]) /\ Unlinked
    BY <1>1, <1>4, <2>1 DEF Executes
  <2> QED
    BY <1>5, <1>7, <2>2
<1> QED
  BY <1>6, <1>7

(* Where the run of a macro is, and what is in the registers.              *)
MacroAt(a1, a2, regs) == stop = "no" /\ adv1 = a1 /\ adv2 = a2 /\ gpr = regs

(* How a macro of n instructions ends that has a branch, the last but one. *)
BranchesTo(s, n) ==
  4 * n + IF Meant(s.name, s.gpr[A0], s.gpr[A1]) THEN 4 ELSE 0

(* The comparison macros compare one way or the other, with or without a   *)
(* sign, and branch when the comparison finds something or when not.       *)
LEMMA ComparisonKinds ==
  ASSUME NEW name \in DOMAIN Comparisons
  PROVE  /\ Comparisons[name].cmp \in {"SLT", "SLTU"} /\ Comparisons[name].swapped \in BOOLEAN
         /\ Comparisons[name].branch \in {"BEQ", "BNE"} /\ name \notin {"baln", "bnaln", "sovlp", "lli"}
         /\ \A a, b \in Word :
              Meant(name, a, b) <=>
                LET m == Comparisons[name]
                    p == IF m.swapped THEN b ELSE a
                    q == IF m.swapped THEN a ELSE b
                IN  (m.branch = "BNE") = (IF m.cmp = "SLT" THEN Signed(p) < Signed(q) ELSE p < q)
<1> DEFINE M(cmp, swapped, branch) == [cmp |-> cmp, swapped |-> swapped, branch |-> branch]
<1>0. \A w \in Word : w \in Int /\ Signed(w) \in Int
  BY SignedNumbers, Widths DEF Word
<1>1. name \in {"blt", "bltu", "ble", "bleu", "bgt", "bgtu", "bge", "bgeu"}
  BY DEF Comparisons
<1>2. CASE name = "blt"
  <2>1. Comparisons[name] = M("SLT", FALSE, "BNE")
    BY <1>2 DEF Comparisons
  <2> QED
    BY <1>0, <1>2, <2>1 DEF Meant
<1>3. CASE name = "bltu"
  <2>1. Comparisons[name] = M("SLTU", FALSE, "BNE")
    BY <1>3 DEF Comparisons
  <2> QED
    BY <1>0, <1>3, <2>1 DEF Meant
<1>4. CASE name = "ble"
  <2>1. Comparisons[name] = M("SLT", TRUE, "BEQ")
    BY <1>4 DEF Comparisons
  <2> QED
    BY <1>0, <1>4, <2>1 DEF Meant
<1>5. CASE name = "bleu"
  <2>1. Comparisons[name] = M("SLTU", TRUE, "BEQ")
    BY <1>5 DEF Comparisons
  <2> QED
    BY <1>0, <1>5, <2>1 DEF Meant
<1>6. CASE name = "bgt"
  <2>1. Comparisons[name] = M("SLT", TRUE, "BNE")
    BY <1>6 DEF Comparisons
  <2> QED
    BY <1>0, <1>6, <2>1 DEF Meant
<1>7. CASE name = "bgtu"
  <2>1. Comparisons[name] = M("SLTU", TRUE, "BNE")
    BY <1>7 DEF Comparisons
  <2> QED
    BY <1>0, <1>7, <2>1 DEF Meant
<1>8. CASE name = "bge"
  <2>1. Comparisons[name] = M("SLT", FALSE, "BEQ")
    BY <1>8 DEF Comparisons
  <2> QED
    BY <1>0, <1>8, <2>1 DEF Meant
<1>9. CASE name = "bgeu"
  <2>1. Comparisons[name] = M("SLTU", FALSE, "BEQ")
    BY <1>9 DEF Comparisons
  <2> QED
    BY <1>0, <1>9, <2>1 DEF Meant
<1> QED
  BY <1>1, <1>2, <1>3, <1>4, <1>5, <1>6, <1>7, <1>8, <1>9

(* The registers when the comparison has been made.                        *)
Found(s) ==
  LET m == Comparisons[s.name]
      p == s.gpr[IF m.swapped THEN A1 ELSE A0]
      q == s.gpr[IF m.swapped THEN A0 ELSE A1]
  IN  [s.gpr EXCEPT ![AT] = Truth(IF m.cmp = "SLT" THEN Signed(p) < Signed(q) ELSE p < q)]

(* The comparison, the branch, its delay slot, and what it branches to.    *)
ComparedInv ==
  start.name \in DOMAIN Comparisons =>
    /\ Untranslated
    /\ \/ MacroAt(0, 4, start.gpr)
       \/ MacroAt(4, 8, Found(start))
       \/ MacroAt(8, BranchesTo(start, 3), Found(start))
       \/ MacroAt(BranchesTo(start, 3), BranchesTo(start, 3) + 4, Found(start))
       \/ stop = "exception" /\ pc = BranchesTo(start, 3) /\ gpr = Found(start)

(* The code of a comparison macro.                                         *)
LEMMA ComparedCode ==
  ASSUME MInv, start.name \in DOMAIN Comparisons
  PROVE  LET m == Comparisons[start.name]
         IN  /\ start.gpr[0] = 0 /\ Cardinality(DOMAIN start.code) = 3
             /\ CodeAt(0) = IF m.swapped THEN R(m.cmp, AT, A1, A0) ELSE R(m.cmp, AT, A0, A1)
             /\ CodeAt(4) = I(m.branch, 0, AT, 1 + 1) /\ CodeAt(8) = Nop
             /\ \A p \in Nat : p >= 12 => CodeAt(p) = Reserved
<1> DEFINE m == Comparisons[start.name]
           code == Compared(start.name, A0, A1, 1)
<1>1. start.code = Placed(0, code) /\ start.gpr[0] = 0
  BY NamedPrograms DEF MInv, Begins
<1>2. /\ DOMAIN code = 1..3
      /\ code[1] = IF m.swapped THEN R(m.cmp, AT, A1, A0) ELSE R(m.cmp, AT, A0, A1)
      /\ code[2] = I(m.branch, 0, AT, 1 + 1) /\ code[3] = Nop
  BY DEF Compared, Branch
<1> HIDE DEF code
<1>3. \A k \in 1..3 : CodeAt(4 * k - 4) = code[k]
  BY <1>1, <1>2, PlacedCode
<1>4. CodeAt(0) = code[1] /\ CodeAt(4) = code[2] /\ CodeAt(8) = code[3]
  BY <1>3
<1>5. \A p \in Nat : p >= 4 * 3 => CodeAt(p) = Reserved
  BY <1>1, <1>2, PlacedCode
<1>6. Cardinality(DOMAIN start.code) = 3
  BY <1>1, <1>2, PlacedSize
<1> QED
  BY <1>1, <1>2, <1>4, <1>5, <1>6

(* The comparison.                                                         *)
LEMMA Compares ==
  ASSUME Untranslated, Next, start.name \in DOMAIN Comparisons, adv1 = 0, gpr = start.gpr
  PROVE  Follows /\ gpr' = Found(start)
<1> DEFINE m == Comparisons[start.name]
           p == IF m.swapped THEN A1 ELSE A0
           q == IF m.swapped THEN A0 ELSE A1
           found == IF m.cmp = "SLT" THEN Signed(gpr[p]) < Signed(gpr[q]) ELSE gpr[p] < gpr[q]
<1>1. gpr[0] = 0 /\ Current = R(m.cmp, AT, p, q)
  BY ComparedCode DEF Current, Untranslated
<1>2. m.cmp \in {"SLT", "SLTU"}
  BY ComparisonKinds
<1>3. Current.op = m.cmp /\ Current.rd = AT /\ Current.rs = p /\ Current.rt = q
  BY <1>1 DEF R
<1>4. Sets(AT, Truth(found))
  <2>1. Executes(Current)
    BY ExecutesCurrent
  <2>2. CASE m.cmp = "SLT"
    BY <1>3, <2>1, <2>2 DEF Executes
  <2>3. CASE m.cmp = "SLTU"
    BY <1>3, <2>1, <2>3 DEF Executes
  <2> QED
    BY <1>2, <2>2, <2>3
<1>5. Follows /\ gpr' = [gpr EXCEPT ![AT] = ToWord(Truth(found))]
  BY <1>1, <1>4, RegisterNumbers, SettingOne
<1>6. ToWord(Truth(found)) = Truth(found)
  BY ProgramWidths DEF Truth
<1>7. Found(start) = [gpr EXCEPT ![AT] = Truth(found)]
  BY Zenon DEF Found
<1> QED
  BY <1>5, <1>6, <1>7, Zenon

(* The steps of a comparison macro.                                        *)
LEMMA ComparedSteps == MInv /\ ComparedInv /\ [Next]_vars => ComparedInv'
<1>1. CASE UNCHANGED vars
  BY <1>1 DEF vars, pipeline, storage, ComparedInv, MacroAt, Untranslated, MInv, MachineTypeOK
<1>2. ASSUME MInv, ComparedInv, Next PROVE ComparedInv'
  <2> SUFFICES ASSUME start'.name \in DOMAIN Comparisons PROVE ComparedInv'
    BY DEF ComparedInv
  <2>1. start' = start /\ MInv'
    BY <1>2, StartStays, MInvNext
  <2>2. start.name \in DOMAIN Comparisons /\ Untranslated
    BY <1>2, <2>1 DEF ComparedInv
  <2>3. stop = "no"
    BY <1>2, <2>2, ExecutesCurrent
  <2>a. PICK found : found = Found(start)
    OBVIOUS
  <2>b. PICK to \in {12, 16} : to = BranchesTo(start, 3)
    BY DEF BranchesTo
  <2>4. to = BranchesTo(start, 3) /\ found = Found(start)
    BY <2>a, <2>b
  <2> DEFINE m == Comparisons[start.name]
  <2>5. /\ start.gpr[0] = 0 /\ CodeAt(4) = I(m.branch, 0, AT, 1 + 1) /\ CodeAt(8) = Nop
        /\ \A p \in Nat : p >= 12 => CodeAt(p) = Reserved
    BY <2>2, ComparedCode DEF Untranslated
  <2>6. to = BranchesTo(start', 3) /\ found = Found(start')
    BY <2>1, <2>4
  <2>7. found[0] = 0
    BY <2>4, <2>5, RegisterNumbers DEF Found
  <2>8. ASSUME cpr' = cpr, stop' = "no",
               \/ MacroAt(4, 8, found)' \/ MacroAt(8, to, found)' \/ MacroAt(to, to + 4, found)'
        PROVE  ComparedInv'
    BY <2>1, <2>2, <2>6, <2>8 DEF ComparedInv, Untranslated, MacroAt
  <2>9. CASE MacroAt(0, 4, start.gpr)
    <3>1. Follows /\ gpr' = found
      BY <1>2, <2>2, <2>4, <2>9, Compares DEF MacroAt
    <3>2. ToWord(4 + 4) = 8
      BY ProgramWidths
    <3>3. cpr' = cpr /\ stop' = "no" /\ MacroAt(4, 8, found)'
      BY <2>3, <2>9, <3>1, <3>2 DEF MacroAt, Follows
    <3> QED
      BY <2>8, <3>3
  <2>10. CASE MacroAt(4, 8, found)
    <3> DEFINE eq == m.branch = "BEQ"
    <3>1. m.branch \in {"BEQ", "BNE"}
      BY <2>2, ComparisonKinds
    <3>2. Current = I(IF eq THEN "BEQ" ELSE "BNE", 0, AT, 1 + 1) /\ eq \in BOOLEAN
      BY <2>5, <2>10, <3>1 DEF Current, MacroAt
    <3>3. PICK at \in 0..32, z \in Regs : at = 4 /\ z = 0 /\ adv1 = at /\ adv2 = at + 4 /\ AT \in Regs
      BY <2>10, RegisterNumbers DEF MacroAt
    <3> HIDE DEF eq
    <3>7. Current = I(IF eq THEN "BEQ" ELSE "BNE", z, AT, 1 + 1)
      BY <3>2, <3>3
    <3>8. /\ adv1' = at + 4 /\ gpr' = gpr /\ cpr' = cpr /\ stop' = stop
          /\ adv2' = IF (gpr[AT] = gpr[z]) = eq THEN at + 12 ELSE at + 8
      BY <1>2, <2>2, <3>2, <3>3, <3>7, Branching
    <3>4. /\ adv1' = 8 /\ gpr' = gpr /\ cpr' = cpr /\ stop' = stop
          /\ adv2' = IF (gpr[AT] = gpr[0]) = eq THEN 16 ELSE 12
      BY <3>3, <3>8
    <3>5. to = IF (found[AT] = 0) = eq THEN 16 ELSE 12
      <4> DEFINE a == start.gpr[A0]
                 b == start.gpr[A1]
                 p == IF m.swapped THEN b ELSE a
                 q == IF m.swapped THEN a ELSE b
                 finds == IF m.cmp = "SLT" THEN Signed(p) < Signed(q) ELSE p < q
      <4>1. a \in Word /\ b \in Word
        BY RegisterNumbers, StartsAssumption, <2>2 DEF Untranslated, MInv
      <4>2. Meant(start.name, a, b) <=> ((m.branch = "BNE") = finds)
        BY <2>2, <4>1, ComparisonKinds
      <4>3. found[AT] = Truth(finds)
        <5>1. p = start.gpr[IF m.swapped THEN A1 ELSE A0] /\ q = start.gpr[IF m.swapped THEN A0 ELSE A1]
          OBVIOUS
        <5>2. AT \in DOMAIN start.gpr
          BY RegisterNumbers, StartsAssumption, <2>2 DEF Untranslated, MInv
        <5>3. found = [start.gpr EXCEPT ![AT] = Truth(finds)]
          BY <2>4, <5>1, Zenon DEF Found
        <5> HIDE DEF finds
        <5> QED
          BY <5>2, <5>3
      <4>5. to = IF Meant(start.name, a, b) THEN 16 ELSE 12
        BY <2>4 DEF BranchesTo
      <4>6. eq <=> m.branch # "BNE"
        BY <3>1 DEF eq
      <4>7. CASE finds
        <5>1. Meant(start.name, a, b) <=> ~eq
          BY <4>2, <4>6, <4>7
        <5>2. found[AT] # 0
          BY <4>3, <4>7 DEF Truth
        <5> HIDE DEF a, b, finds
        <5> QED
          BY <3>2, <4>5, <5>1, <5>2
      <4>8. CASE ~finds
        <5>1. Meant(start.name, a, b) <=> eq
          BY <4>2, <4>6, <4>8
        <5>2. found[AT] = 0
          BY <4>3, <4>8 DEF Truth
        <5> HIDE DEF a, b, finds
        <5> QED
          BY <3>2, <4>5, <5>1, <5>2
      <4> QED
        BY <4>7, <4>8
    <3>6. cpr' = cpr /\ stop' = "no" /\ MacroAt(8, to, found)'
      BY <2>3, <2>7, <2>10, <3>4, <3>5 DEF MacroAt
    <3> QED
      BY <2>8, <3>6
  <2>11. CASE MacroAt(8, to, found)
    <3>1. Current = Nop /\ gpr[0] = 0
      BY <2>5, <2>7, <2>11 DEF Current, MacroAt
    <3>2. Follows /\ gpr' = gpr
      BY <1>2, <2>2, <3>1, SettingNone
    <3>3. ToWord(to + 4) = to + 4
      BY ProgramWidths
    <3>4. cpr' = cpr /\ stop' = "no" /\ MacroAt(to, to + 4, found)'
      BY <2>3, <2>11, <3>2, <3>3 DEF MacroAt, Follows
    <3> QED
      BY <2>8, <3>4
  <2>12. CASE MacroAt(to, to + 4, found)
    <3>1. Current = Reserved
      BY <2>5, <2>12 DEF Current, MacroAt
    <3>2. stop' = "exception" /\ pc' = adv1 /\ cpr' = cpr /\ gpr' = gpr
      BY <1>2, <2>2, <3>1, Ending
    <3>3. pc' = to /\ gpr' = found
      BY <2>12, <3>2 DEF MacroAt
    <3> QED
      BY <2>1, <2>2, <2>6, <3>2, <3>3 DEF ComparedInv, Untranslated
  <2> QED
    BY <1>2, <2>2, <2>3, <2>4, <2>9, <2>10, <2>11, <2>12 DEF ComparedInv
<1> QED
  BY <1>1, <1>2

(* The number of a word that an address is in, and the address of the word *)
(* it is in.                                                               *)
Quartered(s) == [s.gpr EXCEPT ![AT] = s.gpr[A0] \div 4]
Aligned(s) == [s.gpr EXCEPT ![AT] = (s.gpr[A0] \div 4) * 4]

(* Two shifts, the branch, its delay slot, and what it branches to.        *)
AlignedInv ==
  start.name \in {"baln", "bnaln"} =>
    /\ Untranslated
    /\ \/ MacroAt(0, 4, start.gpr)
       \/ MacroAt(4, 8, Quartered(start))
       \/ MacroAt(8, 12, Aligned(start))
       \/ MacroAt(12, BranchesTo(start, 4), Aligned(start))
       \/ MacroAt(BranchesTo(start, 4), BranchesTo(start, 4) + 4, Aligned(start))
       \/ stop = "exception" /\ pc = BranchesTo(start, 4) /\ gpr = Aligned(start)

(* The code of the macros that look at the alignment.                      *)
LEMMA AlignedCode ==
  ASSUME MInv, start.name \in {"baln", "bnaln"}
  PROVE  /\ start.gpr[0] = 0 /\ Cardinality(DOMAIN start.code) = 4
         /\ CodeAt(0) = Shift("SRL", AT, A0, 2) /\ CodeAt(4) = Shift("SLL", AT, AT, 2)
         /\ CodeAt(8) = I(IF start.name = "baln" THEN "BEQ" ELSE "BNE", A0, AT, 1 + 1)
         /\ CodeAt(12) = Nop
         /\ \A p \in Nat : p >= 16 => CodeAt(p) = Reserved
<1> DEFINE code == IF start.name = "baln" THEN baln(A0, 1) ELSE bnaln(A0, 1)
<1>1. start.code = Placed(0, code) /\ start.gpr[0] = 0
  BY NamedPrograms DEF MInv, Begins
<1>2. /\ DOMAIN code = 1..4
      /\ code[1] = Shift("SRL", AT, A0, 2) /\ code[2] = Shift("SLL", AT, AT, 2)
      /\ code[3] = I(IF start.name = "baln" THEN "BEQ" ELSE "BNE", A0, AT, 1 + 1) /\ code[4] = Nop
  BY DEF baln, bnaln, Branch
<1> HIDE DEF code
<1>3. \A k \in 1..4 : CodeAt(4 * k - 4) = code[k]
  BY <1>1, <1>2, PlacedCode
<1>4. /\ CodeAt(0) = code[1] /\ CodeAt(4) = code[2] /\ CodeAt(8) = code[3] /\ CodeAt(12) = code[4]
  BY <1>3
<1>5. \A p \in Nat : p >= 4 * 4 => CodeAt(p) = Reserved
  BY <1>1, <1>2, PlacedCode
<1>6. Cardinality(DOMAIN start.code) = 4
  BY <1>1, <1>2, PlacedSize
<1> QED
  BY <1>1, <1>2, <1>4, <1>5, <1>6

(* A shift by two is by a factor of four.                                  *)
LEMMA TwoBits == 2 \in 0..WordBits /\ Power2[2] = 4
<1>1. WordBits \in Nat /\ WordBits # 0
  BY Powers
<1>2. WordBits # 1
  <2> SUFFICES ASSUME WordBits = 1 PROVE FALSE
    OBVIOUS
  <2>1. Power2[1] = 2 * Power2[1 - 1] /\ Power2[0] = 1
    BY <1>1, Powers
  <2>2. Power2[1] = WordSpace
    BY MachineAssumption
  <2> QED
    BY <2>1, <2>2, ProgramWidths
<1>3. 1 \in 1..WordBits /\ 2 \in 1..WordBits
  BY <1>1, <1>2
<1>4. Power2[1] = 2 * Power2[1 - 1] /\ Power2[2] = 2 * Power2[2 - 1]
  BY <1>3, Powers
<1> QED
  BY <1>3, <1>4, Powers

(* The shifts.                                                             *)
LEMMA Shifts ==
  ASSUME Untranslated, Next, gpr[0] = 0, NEW r \in Regs
  PROVE  /\ Current = Shift("SRL", AT, r, 2) =>
              Follows /\ gpr' = [gpr EXCEPT ![AT] = ToWord(gpr[r] \div 4)]
         /\ Current = Shift("SLL", AT, r, 2) =>
              Follows /\ gpr' = [gpr EXCEPT ![AT] = ToWord(gpr[r] * 4)]
<1>1. Executes(Current)
  BY ExecutesCurrent
<1>2. AT \in Regs /\ AT # 0
  BY RegisterNumbers
<1>3. ASSUME Current = Shift("SRL", AT, r, 2)
      PROVE  Follows /\ gpr' = [gpr EXCEPT ![AT] = ToWord(gpr[r] \div 4)]
  <2>1. Current.op = "SRL" /\ Current.rd = AT /\ Current.rt = r /\ Current.sa = 2
    BY <1>3 DEF Shift
  <2>2. Sets(AT, gpr[r] \div 4)
    BY <1>1, <2>1, TwoBits DEF Executes
  <2> QED
    BY <1>2, <2>2, SettingOne
<1>4. ASSUME Current = Shift("SLL", AT, r, 2)
      PROVE  Follows /\ gpr' = [gpr EXCEPT ![AT] = ToWord(gpr[r] * 4)]
  <2>1. Current.op = "SLL" /\ Current.rd = AT /\ Current.rt = r /\ Current.sa = 2
    BY <1>4 DEF Shift
  <2>2. Sets(AT, gpr[r] * 4)
    BY <1>1, <2>1, TwoBits DEF Executes
  <2> QED
    BY <1>2, <2>2, SettingOne
<1> QED
  BY <1>3, <1>4

(* A word is aligned when it is four times its quarter.                    *)
LEMMA AlignedWord ==
  ASSUME NEW w \in Word
  PROVE  /\ ToWord(w \div 4) = w \div 4 /\ ToWord((w \div 4) * 4) = (w \div 4) * 4
         /\ (w \div 4) * 4 = w <=> w % 4 = 0
<1>1. w \in Nat /\ w < WordSpace /\ WordSpace \in Nat
  BY Widths DEF Word
<1>2. PICK q \in Int, r \in Nat : q = w \div 4 /\ r = w % 4 /\ r < 4 /\ w = q * 4 + r
  BY <1>1
<1>3. q \in Nat /\ q < WordSpace /\ q * 4 \in Nat /\ q * 4 < WordSpace
  BY <1>1, <1>2
<1>4. \A n, d \in Nat : n < d => n % d = n
  OBVIOUS
<1> QED
  BY <1>1, <1>2, <1>3, <1>4 DEF ToWord

(* The steps of a macro that looks at the alignment.                       *)
LEMMA AlignedSteps == MInv /\ AlignedInv /\ [Next]_vars => AlignedInv'
<1>1. CASE UNCHANGED vars
  BY <1>1 DEF vars, pipeline, storage, AlignedInv, MacroAt, Untranslated, MInv, MachineTypeOK
<1>2. ASSUME MInv, AlignedInv, Next PROVE AlignedInv'
  <2> SUFFICES ASSUME start'.name \in {"baln", "bnaln"} PROVE AlignedInv'
    BY DEF AlignedInv
  <2>1. start' = start /\ MInv'
    BY <1>2, StartStays, MInvNext
  <2>2. start.name \in {"baln", "bnaln"} /\ Untranslated
    BY <1>2, <2>1 DEF AlignedInv
  <2>3. stop = "no"
    BY <1>2, <2>2, ExecutesCurrent
  <2>a. PICK quarter, al : quarter = Quartered(start) /\ al = Aligned(start)
    OBVIOUS
  <2>b. PICK to \in {16, 20} : to = BranchesTo(start, 4)
    BY DEF BranchesTo
  <2>4. to = BranchesTo(start, 4) /\ quarter = Quartered(start) /\ al = Aligned(start)
    BY <2>a, <2>b
  <2>5. /\ start.gpr[0] = 0
        /\ CodeAt(0) = Shift("SRL", AT, A0, 2) /\ CodeAt(4) = Shift("SLL", AT, AT, 2)
        /\ CodeAt(8) = I(IF start.name = "baln" THEN "BEQ" ELSE "BNE", A0, AT, 1 + 1)
        /\ CodeAt(12) = Nop
        /\ \A p \in Nat : p >= 16 => CodeAt(p) = Reserved
    BY <2>2, AlignedCode DEF Untranslated
  <2>6. to = BranchesTo(start', 4) /\ quarter = Quartered(start') /\ al = Aligned(start')
    BY <2>1, <2>4
  <2>7. start.gpr \in [Regs -> Word]
    BY <2>2, StartsAssumption DEF Untranslated, MInv
  <2>8. PICK w \in Word : w = start.gpr[A0]
    BY <2>7, RegisterNumbers
  <2>9. /\ quarter = [start.gpr EXCEPT ![AT] = w \div 4] /\ quarter[AT] = w \div 4 /\ quarter[0] = 0
        /\ al = [quarter EXCEPT ![AT] = (w \div 4) * 4] /\ al[AT] = (w \div 4) * 4 /\ al[0] = 0
        /\ al[A0] = w
    BY <2>4, <2>5, <2>7, <2>8, RegisterNumbers DEF Quartered, Aligned
  <2>10. /\ ToWord(w \div 4) = w \div 4 /\ ToWord((w \div 4) * 4) = (w \div 4) * 4
         /\ (w \div 4) * 4 = w <=> w % 4 = 0
    BY AlignedWord
  <2>11. ToWord(4 + 4) = 8 /\ ToWord(8 + 4) = 12 /\ ToWord(to + 4) = to + 4
    BY ProgramWidths
  <2>12. ASSUME cpr' = cpr, stop' = "no",
                \/ MacroAt(4, 8, quarter)' \/ MacroAt(8, 12, al)' \/ MacroAt(12, to, al)'
                \/ MacroAt(to, to + 4, al)'
         PROVE  AlignedInv'
    BY <2>1, <2>2, <2>6, <2>12 DEF AlignedInv, Untranslated, MacroAt
  <2>13. CASE MacroAt(0, 4, start.gpr)
    <3>1. Current = Shift("SRL", AT, A0, 2) /\ gpr[0] = 0 /\ A0 \in Regs
      BY <2>5, <2>13, RegisterNumbers DEF Current, MacroAt
    <3>2. Follows /\ gpr' = [gpr EXCEPT ![AT] = ToWord(gpr[A0] \div 4)]
      BY <1>2, <2>2, <3>1, Shifts
    <3>3. gpr' = quarter
      BY <2>8, <2>9, <2>10, <2>13, <3>2 DEF MacroAt
    <3>4. cpr' = cpr /\ stop' = "no" /\ MacroAt(4, 8, quarter)'
      BY <2>3, <2>11, <2>13, <3>2, <3>3 DEF MacroAt, Follows
    <3> QED
      BY <2>12, <3>4
  <2>14. CASE MacroAt(4, 8, quarter)
    <3>1. Current = Shift("SLL", AT, AT, 2) /\ gpr[0] = 0 /\ AT \in Regs
      BY <2>5, <2>9, <2>14, RegisterNumbers DEF Current, MacroAt
    <3>2. Follows /\ gpr' = [gpr EXCEPT ![AT] = ToWord(gpr[AT] * 4)]
      BY <1>2, <2>2, <3>1, Shifts
    <3>3. gpr' = al
      BY <2>9, <2>10, <2>14, <3>2 DEF MacroAt
    <3>4. cpr' = cpr /\ stop' = "no" /\ MacroAt(8, 12, al)'
      BY <2>3, <2>11, <2>14, <3>2, <3>3 DEF MacroAt, Follows
    <3> QED
      BY <2>12, <3>4
  <2>15. CASE MacroAt(8, 12, al)
    <3> DEFINE eq == start.name = "baln"
    <3>0. eq \in BOOLEAN /\ (eq <=> start.name = "baln")
      OBVIOUS
    <3>1. PICK a \in 0..32 : a = 8 /\ adv1 = a /\ adv2 = a + 4
      BY <2>15 DEF MacroAt
    <3>2. Current = I(IF eq THEN "BEQ" ELSE "BNE", A0, AT, 1 + 1) /\ AT \in Regs /\ A0 \in Regs
      BY <2>5, <2>15, <3>1, RegisterNumbers DEF Current, MacroAt
    <3> HIDE DEF eq
    <3>3. /\ adv1' = a + 4 /\ gpr' = gpr /\ cpr' = cpr /\ stop' = stop
          /\ adv2' = IF (gpr[AT] = gpr[A0]) = eq THEN a + 12 ELSE a + 8
      BY <1>2, <2>2, <3>0, <3>1, <3>2, Branching
    <3>4. to = IF Meant(start.name, w, start.gpr[A1]) THEN 20 ELSE 16
      BY <2>4, <2>8 DEF BranchesTo
    <3>5. Meant(start.name, w, start.gpr[A1]) <=> (w % 4 = 0 <=> eq)
      BY <2>2, <3>0 DEF Meant
    <3>6. gpr[AT] = gpr[A0] <=> w % 4 = 0
      BY <2>9, <2>10, <2>15 DEF MacroAt
    <3>7. adv2' = to
      <4>1. (gpr[AT] = gpr[A0]) = eq <=> Meant(start.name, w, start.gpr[A1])
        BY <3>0, <3>5, <3>6, Zenon
      <4>2. adv2' = IF Meant(start.name, w, start.gpr[A1]) THEN a + 12 ELSE a + 8
        BY <3>3, <4>1, Zenon
      <4> QED
        BY <3>1, <3>4, <4>2
    <3>8. cpr' = cpr /\ stop' = "no" /\ MacroAt(12, to, al)'
      BY <2>3, <2>15, <3>1, <3>3, <3>7 DEF MacroAt
    <3> QED
      BY <2>12, <3>8
  <2>16. CASE MacroAt(12, to, al)
    <3>1. Current = Nop /\ gpr[0] = 0
      BY <2>5, <2>9, <2>16 DEF Current, MacroAt
    <3>2. Follows /\ gpr' = gpr
      BY <1>2, <2>2, <3>1, SettingNone
    <3>3. cpr' = cpr /\ stop' = "no" /\ MacroAt(to, to + 4, al)'
      BY <2>3, <2>11, <2>16, <3>2 DEF MacroAt, Follows
    <3> QED
      BY <2>12, <3>3
  <2>17. CASE MacroAt(to, to + 4, al)
    <3>1. Current = Reserved
      BY <2>5, <2>17 DEF Current, MacroAt
    <3>2. stop' = "exception" /\ pc' = adv1 /\ cpr' = cpr /\ gpr' = gpr
      BY <1>2, <2>2, <3>1, Ending
    <3>3. pc' = to /\ gpr' = al
      BY <2>17, <3>2 DEF MacroAt
    <3> QED
      BY <2>1, <2>2, <2>6, <3>2, <3>3 DEF AlignedInv, Untranslated
  <2> QED
    BY <1>2, <2>2, <2>3, <2>4, <2>13, <2>14, <2>15, <2>16, <2>17 DEF AlignedInv
<1> QED
  BY <1>1, <1>2

(* An addition, a comparison and a conjunction of registers.               *)
LEMMA Registers ==
  ASSUME Untranslated, Next, gpr[0] = 0, NEW d \in Regs, d # 0, NEW p \in Regs, NEW q \in Regs
  PROVE  /\ Current = R("ADD", d, p, q) =>
              Follows /\ gpr' = [gpr EXCEPT ![d] = ToWord(gpr[p] + gpr[q])]
         /\ Current = R("SLTU", d, p, q) =>
              Follows /\ gpr' = [gpr EXCEPT ![d] = Truth(gpr[p] < gpr[q])]
         /\ Current = R("AND", d, p, q) =>
              Follows /\ gpr' = [gpr EXCEPT ![d] = ToWord(And(gpr[p], gpr[q]))]
<1>1. Executes(Current)
  BY ExecutesCurrent
<1>2. ASSUME NEW op, Current = R(op, d, p, q)
      PROVE  Current.op = op /\ Current.rd = d /\ Current.rs = p /\ Current.rt = q
  BY <1>2 DEF R
<1>3. ASSUME Current = R("ADD", d, p, q)
      PROVE  Follows /\ gpr' = [gpr EXCEPT ![d] = ToWord(gpr[p] + gpr[q])]
  <2>1. Sets(d, gpr[p] + gpr[q])
    BY <1>1, <1>2, <1>3 DEF Executes
  <2> QED
    BY <2>1, SettingOne
<1>4. ASSUME Current = R("SLTU", d, p, q)
      PROVE  Follows /\ gpr' = [gpr EXCEPT ![d] = Truth(gpr[p] < gpr[q])]
  <2>1. Sets(d, Truth(gpr[p] < gpr[q]))
    BY <1>1, <1>2, <1>4 DEF Executes
  <2>2. ToWord(Truth(gpr[p] < gpr[q])) = Truth(gpr[p] < gpr[q])
    BY ProgramWidths DEF Truth
  <2>3. Follows /\ gpr' = [gpr EXCEPT ![d] = ToWord(Truth(gpr[p] < gpr[q]))]
    BY <2>1, SettingOne
  <2> QED
    BY <2>2, <2>3
<1>5. ASSUME Current = R("AND", d, p, q)
      PROVE  Follows /\ gpr' = [gpr EXCEPT ![d] = ToWord(And(gpr[p], gpr[q]))]
  <2>1. Sets(d, And(gpr[p], gpr[q]))
    BY <1>1, <1>2, <1>5 DEF Executes
  <2> QED
    BY <2>1, SettingOne
<1> QED
  BY <1>3, <1>4, <1>5

(* Two ranges have an address in common.                                   *)
LEMMA CommonAddress ==
  ASSUME NEW a \in Nat, NEW b \in Nat, NEW n \in Nat
  PROVE  Common(a, b, n) # {} <=> b < a + n /\ a < b + n
<1>1. ASSUME b < a + n, a < b + n PROVE Common(a, b, n) # {}
  <2>1. CASE a <= b
    <3>1. b \in Common(a, b, n)
      BY <1>1, <2>1 DEF Common
    <3> QED
      BY <3>1
  <2>2. CASE b <= a
    <3>1. a \in Common(a, b, n)
      BY <1>1, <2>2 DEF Common
    <3> QED
      BY <3>1
  <2> QED
    BY <2>1, <2>2
<1>2. ASSUME NEW x \in Common(a, b, n) PROVE b < a + n /\ a < b + n
  BY <1>2 DEF Common
<1> QED
  BY <1>1, <1>2

(* The registers of sovlp: $t1 and $at.                                    *)
With(s, t, x) == [s.gpr EXCEPT ![T1] = t, ![AT] = x]

(* The ends of the ranges, and which of them is behind the other's begin.  *)
End(s, r) == ToWord(s.gpr[r] + s.gpr[A2])
Behind(s, r, q) == Truth(s.gpr[q] < End(s, r))
Both(s) == ToWord(And(Behind(s, A0, A1), Behind(s, A1, A0)))

(* The five steps of sovlp.                                                *)
OverlapInv ==
  start.name = "sovlp" =>
    /\ Untranslated
    /\ \/ MacroAt(0, 4, start.gpr)
       \/ MacroAt(4, 8, With(start, End(start, A0), start.gpr[AT]))
       \/ MacroAt(8, 12, With(start, Behind(start, A0, A1), start.gpr[AT]))
       \/ MacroAt(12, 16, With(start, Behind(start, A0, A1), End(start, A1)))
       \/ MacroAt(16, 20, With(start, Behind(start, A0, A1), Behind(start, A1, A0)))
       \/ MacroAt(20, 24, With(start, Both(start), Behind(start, A1, A0)))
       \/ stop = "exception" /\ gpr = With(start, Both(start), Behind(start, A1, A0))

(* The code of sovlp.                                                      *)
LEMMA OverlapCode ==
  ASSUME MInv, start.name = "sovlp"
  PROVE  /\ start.gpr[0] = 0
         /\ CodeAt(0) = R("ADD", T1, A0, A2) /\ CodeAt(4) = R("SLTU", T1, A1, T1)
         /\ CodeAt(8) = R("ADD", AT, A1, A2) /\ CodeAt(12) = R("SLTU", AT, A0, AT)
         /\ CodeAt(16) = R("AND", T1, T1, AT) /\ CodeAt(20) = Reserved
<1> DEFINE code == sovlp(T1, A0, A1, A2)
<1>1. start.code = Placed(0, code) /\ start.gpr[0] = 0
  BY NamedPrograms DEF MInv, Begins
<1>2. /\ DOMAIN code = 1..5
      /\ code[1] = R("ADD", T1, A0, A2) /\ code[2] = R("SLTU", T1, A1, T1)
      /\ code[3] = R("ADD", AT, A1, A2) /\ code[4] = R("SLTU", AT, A0, AT)
      /\ code[5] = R("AND", T1, T1, AT)
  BY DEF sovlp
<1> HIDE DEF code
<1>3. \A k \in 1..5 : CodeAt(4 * k - 4) = code[k]
  BY <1>1, <1>2, PlacedCode
<1>4. /\ CodeAt(0) = code[1] /\ CodeAt(4) = code[2] /\ CodeAt(8) = code[3] /\ CodeAt(12) = code[4]
      /\ CodeAt(16) = code[5]
  BY <1>3
<1>5. \A p \in Nat : p >= 4 * 5 => CodeAt(p) = Reserved
  BY <1>1, <1>2, PlacedCode
<1> QED
  BY <1>1, <1>2, <1>4, <1>5

(* What is in the registers when nothing but $t1 and $at has been set.     *)
LEMMA WithRegisters ==
  ASSUME MInv, start.gpr[0] = 0, NEW t, NEW x
  PROVE  LET g == With(start, t, x)
         IN  /\ g[T1] = t /\ g[AT] = x /\ g[0] = 0
             /\ g[A0] = start.gpr[A0] /\ g[A1] = start.gpr[A1] /\ g[A2] = start.gpr[A2]
             /\ start.gpr = With(start, start.gpr[T1], start.gpr[AT])
             /\ \A y : [g EXCEPT ![T1] = y] = With(start, y, x) /\ [g EXCEPT ![AT] = y] = With(start, t, y)
<1>1. DOMAIN start.gpr = Regs
  BY StartsAssumption DEF MInv
<1>2. start.gpr = [r \in Regs |-> start.gpr[r]]
  BY StartsAssumption DEF MInv
<1> QED
  BY <1>1, <1>2, RegisterNumbers DEF With

(* The steps of sovlp.                                                     *)
LEMMA OverlapSteps == MInv /\ OverlapInv /\ [Next]_vars => OverlapInv'
<1>1. CASE UNCHANGED vars
  BY <1>1 DEF vars, pipeline, storage, OverlapInv, MacroAt, Untranslated, MInv, MachineTypeOK
<1>2. ASSUME MInv, OverlapInv, Next PROVE OverlapInv'
  <2> SUFFICES ASSUME start'.name = "sovlp" PROVE OverlapInv'
    BY DEF OverlapInv
  <2>1. start' = start /\ MInv'
    BY <1>2, StartStays, MInvNext
  <2>2. start.name = "sovlp" /\ Untranslated
    BY <1>2, <2>1 DEF OverlapInv
  <2>3. stop = "no"
    BY <1>2, <2>2, ExecutesCurrent
  <2>4. PICK g1, g2, g3, g4, g5 :
          /\ g1 = With(start, End(start, A0), start.gpr[AT])
          /\ g2 = With(start, Behind(start, A0, A1), start.gpr[AT])
          /\ g3 = With(start, Behind(start, A0, A1), End(start, A1))
          /\ g4 = With(start, Behind(start, A0, A1), Behind(start, A1, A0))
          /\ g5 = With(start, Both(start), Behind(start, A1, A0))
    OBVIOUS
  <2>5. /\ start.gpr[0] = 0
        /\ CodeAt(0) = R("ADD", T1, A0, A2) /\ CodeAt(4) = R("SLTU", T1, A1, T1)
        /\ CodeAt(8) = R("ADD", AT, A1, A2) /\ CodeAt(12) = R("SLTU", AT, A0, AT)
        /\ CodeAt(16) = R("AND", T1, T1, AT) /\ CodeAt(20) = Reserved
    BY <2>2, OverlapCode DEF Untranslated
  <2>6.
        /\ g1 = With(start', End(start', A0), start'.gpr[AT])
        /\ g2 = With(start', Behind(start', A0, A1), start'.gpr[AT])
        /\ g3 = With(start', Behind(start', A0, A1), End(start', A1))
        /\ g4 = With(start', Behind(start', A0, A1), Behind(start', A1, A0))
        /\ g5 = With(start', Both(start'), Behind(start', A1, A0))
    BY <2>1, <2>4
  <2>7. /\ ToWord(4 + 4) = 8 /\ ToWord(8 + 4) = 12 /\ ToWord(12 + 4) = 16 /\ ToWord(16 + 4) = 20
        /\ ToWord(20 + 4) = 24
    BY ProgramWidths
  <2>8. ASSUME cpr' = cpr, stop' = "no",
               \/ MacroAt(4, 8, g1)' \/ MacroAt(8, 12, g2)' \/ MacroAt(12, 16, g3)'
               \/ MacroAt(16, 20, g4)' \/ MacroAt(20, 24, g5)'
        PROVE  OverlapInv'
    BY <2>1, <2>2, <2>6, <2>8 DEF OverlapInv, Untranslated, MacroAt
  <2>9. \A t, x :
          LET g == With(start, t, x)
          IN  /\ g[T1] = t /\ g[AT] = x /\ g[0] = 0
              /\ g[A0] = start.gpr[A0] /\ g[A1] = start.gpr[A1] /\ g[A2] = start.gpr[A2]
              /\ start.gpr = With(start, start.gpr[T1], start.gpr[AT])
              /\ \A y : [g EXCEPT ![T1] = y] = With(start, y, x) /\ [g EXCEPT ![AT] = y] = With(start, t, y)
    BY <2>2, <2>5, WithRegisters DEF Untranslated
  <2>10. /\ AT \in Regs /\ T1 \in Regs /\ A0 \in Regs /\ A1 \in Regs /\ A2 \in Regs
         /\ AT # 0 /\ T1 # 0
    BY RegisterNumbers
  <2>11. CASE MacroAt(0, 4, start.gpr)
    <3>1. Current = R("ADD", T1, A0, A2) /\ gpr[0] = 0
      BY <2>4, <2>5, <2>9, <2>11 DEF Current, MacroAt
    <3>2. Follows /\ gpr' = [gpr EXCEPT ![T1] = ToWord(gpr[A0] + gpr[A2])]
      BY <1>2, <2>2, <2>10, <3>1, Registers
    <3>3. gpr' = g1
      BY <2>4, <2>9, <2>11, <3>2 DEF MacroAt, End
    <3>4. cpr' = cpr /\ stop' = "no" /\ MacroAt(4, 8, g1)'
      BY <2>3, <2>7, <2>11, <3>2, <3>3 DEF MacroAt, Follows
    <3> QED
      BY <2>8, <3>4
  <2>12. CASE MacroAt(4, 8, g1)
    <3>1. Current = R("SLTU", T1, A1, T1) /\ gpr[0] = 0
      BY <2>4, <2>5, <2>9, <2>12 DEF Current, MacroAt
    <3>2. Follows /\ gpr' = [gpr EXCEPT ![T1] = Truth(gpr[A1] < gpr[T1])]
      BY <1>2, <2>2, <2>10, <3>1, Registers
    <3>3. gpr' = g2
      BY <2>4, <2>9, <2>12, <3>2 DEF MacroAt, Behind
    <3>4. cpr' = cpr /\ stop' = "no" /\ MacroAt(8, 12, g2)'
      BY <2>3, <2>7, <2>12, <3>2, <3>3 DEF MacroAt, Follows
    <3> QED
      BY <2>8, <3>4
  <2>13. CASE MacroAt(8, 12, g2)
    <3>1. Current = R("ADD", AT, A1, A2) /\ gpr[0] = 0
      BY <2>4, <2>5, <2>9, <2>13 DEF Current, MacroAt
    <3>2. Follows /\ gpr' = [gpr EXCEPT ![AT] = ToWord(gpr[A1] + gpr[A2])]
      BY <1>2, <2>2, <2>10, <3>1, Registers
    <3>3. gpr' = g3
      BY <2>4, <2>9, <2>13, <3>2 DEF MacroAt, End
    <3>4. cpr' = cpr /\ stop' = "no" /\ MacroAt(12, 16, g3)'
      BY <2>3, <2>7, <2>13, <3>2, <3>3 DEF MacroAt, Follows
    <3> QED
      BY <2>8, <3>4
  <2>14. CASE MacroAt(12, 16, g3)
    <3>1. Current = R("SLTU", AT, A0, AT) /\ gpr[0] = 0
      BY <2>4, <2>5, <2>9, <2>14 DEF Current, MacroAt
    <3>2. Follows /\ gpr' = [gpr EXCEPT ![AT] = Truth(gpr[A0] < gpr[AT])]
      BY <1>2, <2>2, <2>10, <3>1, Registers
    <3>3. gpr' = g4
      BY <2>4, <2>9, <2>14, <3>2 DEF MacroAt, Behind
    <3>4. cpr' = cpr /\ stop' = "no" /\ MacroAt(16, 20, g4)'
      BY <2>3, <2>7, <2>14, <3>2, <3>3 DEF MacroAt, Follows
    <3> QED
      BY <2>8, <3>4
  <2>15. CASE MacroAt(16, 20, g4)
    <3>1. Current = R("AND", T1, T1, AT) /\ gpr[0] = 0
      BY <2>4, <2>5, <2>9, <2>15 DEF Current, MacroAt
    <3>2. Follows /\ gpr' = [gpr EXCEPT ![T1] = ToWord(And(gpr[T1], gpr[AT]))]
      BY <1>2, <2>2, <2>10, <3>1, Registers
    <3>3. gpr' = g5
      BY <2>4, <2>9, <2>15, <3>2 DEF MacroAt, Both
    <3>4. cpr' = cpr /\ stop' = "no" /\ MacroAt(20, 24, g5)'
      BY <2>3, <2>7, <2>15, <3>2, <3>3 DEF MacroAt, Follows
    <3> QED
      BY <2>8, <3>4
  <2>16. CASE MacroAt(20, 24, g5)
    <3>1. Current = Reserved
      BY <2>5, <2>16 DEF Current, MacroAt
    <3>2. stop' = "exception" /\ cpr' = cpr /\ gpr' = g5
      BY <1>2, <2>2, <2>16, <3>1, Ending DEF MacroAt
    <3> QED
      BY <2>1, <2>2, <2>6, <3>2 DEF OverlapInv, Untranslated
  <2> QED
    BY <1>2, <2>2, <2>3, <2>4, <2>11, <2>12, <2>13, <2>14, <2>15, <2>16 DEF OverlapInv
<1> QED
  BY <1>1, <1>2

(* What sovlp finds.                                                       *)
LEMMA OverlapFound ==
  ASSUME MInv, start.name = "sovlp",
         start.gpr[A0] + start.gpr[A2] < WordSpace, start.gpr[A1] + start.gpr[A2] < WordSpace
  PROVE  Both(start) = Truth(Common(start.gpr[A0], start.gpr[A1], start.gpr[A2]) # {})
<1>1. PICK a \in Nat, b \in Nat, n \in Nat :
        a = start.gpr[A0] /\ b = start.gpr[A1] /\ n = start.gpr[A2]
  <2>1. start.gpr \in [Regs -> Word] /\ A0 \in Regs /\ A1 \in Regs /\ A2 \in Regs
    BY StartsAssumption, RegisterNumbers DEF MInv
  <2>2. \A w \in Word : w \in Nat
    BY Widths DEF Word
  <2> QED
    BY <2>1, <2>2
<1>2. \A m, w \in Nat : m < w => m % w = m
  OBVIOUS
<1>3. WordSpace \in Nat
  BY Widths
<1>4. ToWord(a + n) = a + n /\ ToWord(b + n) = b + n
  <2>1. a + n < WordSpace /\ b + n < WordSpace /\ a + n \in Nat /\ b + n \in Nat
    BY <1>1
  <2> QED
    BY <1>2, <1>3, <2>1 DEF ToWord
<1>5. End(start, A0) = a + n /\ End(start, A1) = b + n
  BY <1>1, <1>4 DEF End
<1>6. PICK x \in {0, 1}, y \in {0, 1} :
        /\ x = Behind(start, A0, A1) /\ (x = 1 <=> b < a + n)
        /\ y = Behind(start, A1, A0) /\ (y = 1 <=> a < b + n)
  BY <1>1, <1>5 DEF Behind, Truth
<1>7. And(x, y) = x * y /\ x * y \in {0, 1}
  BY AndOfTruths
<1>8. Both(start) = x * y
  BY <1>6, <1>7, ProgramWidths DEF Both
<1>9. x * y = 1 <=> b < a + n /\ a < b + n
  <2>1. x * y = 1 <=> x = 1 /\ y = 1
    OBVIOUS
  <2> QED
    BY <1>6, <2>1
<1>10. Common(a, b, n) # {} <=> x * y = 1
  BY <1>9, CommonAddress
<1> QED
  BY <1>1, <1>7, <1>8, <1>10 DEF Truth

(* A factor of a power of two is a power of two.                           *)
LEMMA FactorsOfPowers ==
  ASSUME NEW n \in 0..WordBits, NEW d \in Nat, NEW e \in Nat, d * e = Power2[n]
  PROVE  \E k \in 0..n : d = Power2[k]
<1> DEFINE Factors(m) == \A x, y \in Nat : x * y = Power2[m] => \E k \in 0..m : x = Power2[k]
           Bad == {m \in 0..WordBits : ~Factors(m)}
<1>1. WordBits \in Nat
  BY Powers
<1>2. 0 \notin Bad
  <2> SUFFICES ASSUME NEW x \in Nat, NEW y \in Nat, x * y = 1 PROVE x = 1
    BY Powers
  <2>1. x # 0 /\ y # 0
    OBVIOUS
  <2>2. PICK c \in Nat, z \in Nat : x = 1 + c /\ y = 1 + z
    <3>1. x - 1 \in Nat /\ y - 1 \in Nat
      BY <2>1
    <3> QED
      BY <3>1
  <2>3. x * y = 1 + c + z + c * z /\ c * z \in Nat
    BY <2>2
  <2> QED
    BY <2>2, <2>3
<1>3. ASSUME NEW m \in 1..WordBits, m - 1 \notin Bad PROVE m \notin Bad
  <2> SUFFICES ASSUME NEW x \in Nat, NEW y \in Nat, x * y = Power2[m]
               PROVE  \E k \in 0..m : x = Power2[k]
    OBVIOUS
  <2>1. m - 1 \in 0..WordBits /\ Factors(m - 1)
    BY <1>1, <1>3
  <2>2. PICK p \in Nat : p = Power2[m - 1] /\ Power2[m] = 2 * p
    BY <2>1, Powers
  <2>3. CASE \E z \in Nat : x = 2 * z
    <3>1. PICK z \in Nat : x = 2 * z
      BY <2>3
    <3>2. z * y = p
      <4>1. x * y = 2 * (z * y) /\ z * y \in Nat
        BY <3>1
      <4> QED
        BY <2>2, <4>1
    <3>3. PICK k \in 0..m - 1 : z = Power2[k]
      BY <2>1, <2>2, <3>2
    <3>4. k + 1 \in 0..m /\ k + 1 \in 1..WordBits /\ (k + 1) - 1 = k
      BY <1>1, <3>3
    <3>5. Power2[k + 1] = 2 * Power2[(k + 1) - 1]
      BY <3>4, Powers
    <3> QED
      BY <3>1, <3>3, <3>4, <3>5
  <2>4. CASE \E z \in Nat : y = 2 * z
    <3>1. PICK z \in Nat : y = 2 * z
      BY <2>4
    <3>2. x * z = p
      <4>1. x * y = 2 * (x * z) /\ x * z \in Nat
        BY <3>1
      <4> QED
        BY <2>2, <4>1
    <3>3. PICK k \in 0..m - 1 : x = Power2[k]
      BY <2>1, <2>2, <3>2
    <3> QED
      BY <1>1, <3>3
  <2>5. CASE (\A z \in Nat : x # 2 * z) /\ (\A z \in Nat : y # 2 * z)
    <3>1. \A v \in Nat : (\E z \in Nat : v = 2 * z) \/ (\E z \in Nat : v = 2 * z + 1)
      <4> SUFFICES ASSUME NEW v \in Nat
                   PROVE  (\E z \in Nat : v = 2 * z) \/ (\E z \in Nat : v = 2 * z + 1)
        OBVIOUS
      <4>1. v \div 2 \in Nat /\ (v = 2 * (v \div 2) \/ v = 2 * (v \div 2) + 1)
        OBVIOUS
      <4> QED
        BY <4>1
    <3>2. PICK c \in Nat, z \in Nat : x = 2 * c + 1 /\ y = 2 * z + 1
      BY <2>5, <3>1
    <3>3. x * y = 2 * (2 * (c * z) + c + z) + 1 /\ c * z \in Nat
      BY <3>2
    <3>4. FALSE
      BY <2>2, <3>3
    <3> QED
      BY <3>4
  <2> QED
    BY <2>3, <2>4, <2>5
<1>4. Bad = {}
  <2> SUFFICES ASSUME Bad # {} PROVE FALSE
    OBVIOUS
  <2>1. Bad \subseteq Nat /\ Bad \subseteq 0..WordBits
    OBVIOUS
  <2> HIDE DEF Bad
  <2>2. PICK m \in Bad : \A j \in Bad : m <= j
    BY <2>1, LeastNumber
  <2>3. m \in 1..WordBits /\ ~(m <= m - 1)
    <3>1. m \in 0..WordBits /\ m # 0
      BY <1>2, <2>1, <2>2
    <3> QED
      BY <1>1, <3>1
  <2> QED
    BY <1>3, <2>2, <2>3
<1> QED
  BY <1>4

(* A power of two divides the larger ones.                                 *)
LEMMA PowersDivide ==
  ASSUME NEW j \in 0..WordBits, NEW k \in 0..WordBits, j <= k
  PROVE  \E m \in Nat : m # 0 /\ Power2[k] = m * Power2[j]
<1> DEFINE Bad == {x \in 0..WordBits : j <= x /\ ~\E m \in Nat : m # 0 /\ Power2[x] = m * Power2[j]}
<1>1. WordBits \in Nat /\ Power2[j] \in Nat
  BY Powers
<1>2. j \notin Bad
  <2>1. Power2[j] = 1 * Power2[j] /\ 1 \in Nat /\ 1 # 0
    BY <1>1
  <2> QED
    BY <2>1
<1>3. ASSUME NEW x \in 1..WordBits, j <= x - 1, x - 1 \notin Bad PROVE x \notin Bad
  <2>1. x - 1 \in 0..WordBits /\ Power2[x] = 2 * Power2[x - 1]
    BY <1>1, Powers
  <2>2. PICK m \in Nat : m # 0 /\ Power2[x - 1] = m * Power2[j]
    BY <1>3, <2>1
  <2>3. Power2[x] = (2 * m) * Power2[j] /\ 2 * m \in Nat /\ 2 * m # 0
    BY <1>1, <2>1, <2>2
  <2> QED
    BY <2>3
<1>4. Bad = {}
  <2> SUFFICES ASSUME Bad # {} PROVE FALSE
    OBVIOUS
  <2>1. Bad \subseteq Nat /\ Bad \subseteq 0..WordBits /\ \A x \in Bad : j <= x
    OBVIOUS
  <2> HIDE DEF Bad
  <2>2. PICK x \in Bad : \A y \in Bad : x <= y
    BY <2>1, LeastNumber
  <2>3. x \in 1..WordBits /\ ~(x <= x - 1) /\ j <= x - 1
    <3>1. x \in 0..WordBits /\ x # j /\ j <= x
      BY <1>2, <2>1, <2>2
    <3> QED
      BY <1>1, <3>1
  <2> QED
    BY <1>3, <2>2, <2>3
<1> QED
  BY <1>4

(* The halves of a word have no bits in common.                            *)
LEMMA HalvesOfWord ==
  ASSUME NEW h \in 0..Half - 1, NEW l \in 0..Half - 1
  PROVE  /\ h * Half + l \in Word /\ h * Half \in Word /\ l \in Word
         /\ Or(h * Half, l) = h * Half + l
<1>0. Half \in Nat /\ Half >= 64 /\ WordSpace = Half * Half /\ WordSpace \in Nat
  BY ProgramWidths DEF WordSpace
<1>1. h \in Nat /\ l \in Nat /\ h < Half /\ l < Half
  BY <1>0
<1>2. PICK v \in Nat : v = h * Half
  BY <1>0, <1>1
<1>3. v + l < WordSpace
  <2>1. PICK c \in Nat : Half = h + 1 + c
    <3>1. Half - h - 1 \in Nat
      BY <1>0, <1>1
    <3> QED
      BY <1>0, <1>1, <3>1
  <2>2. Half * Half = h * Half + Half + c * Half /\ c * Half \in Nat /\ h * Half \in Nat
    BY <1>0, <1>1, <2>1
  <2> QED
    BY <1>0, <1>1, <1>2, <2>2
<1>4. v \in Word /\ l \in Word /\ v + l \in Word
  BY <1>0, <1>1, <1>2, <1>3 DEF Word
<1>5. PICK n \in 0..WordBits : Half = Power2[n]
  <2>1. Half * Half = Power2[WordBits] /\ WordBits \in 0..WordBits
    BY <1>0, MachineAssumption, Powers
  <2> QED
    BY <1>0, <2>1, FactorsOfPowers
<1>6. ASSUME NEW k \in Bits
      PROVE  /\ Bit(v, k) = 0 \/ Bit(l, k) = 0
             /\ Bit(v, k) \in {0, 1} /\ Bit(l, k) \in {0, 1}
  <2>1. k \in 0..WordBits /\ k + 1 \in 0..WordBits /\ k + 1 \in 1..WordBits /\ (k + 1) - 1 = k
    BY Powers DEF Bits
  <2>2. PICK p \in Nat : p = Power2[k] /\ p # 0
    BY <2>1, Powers
  <2>3. CASE k < n
    <3>1. PICK m \in Nat : Half = m * Power2[k + 1]
      <4>1. k + 1 <= n
        BY <1>5, <2>1, <2>3
      <4> QED
        BY <1>5, <2>1, <4>1, PowersDivide
    <3>2. Power2[k + 1] = 2 * p
      BY <2>1, <2>2, Powers
    <3>3. v = (2 * (h * m)) * p + 0
      <4>1. h * (m * (2 * p)) = (2 * (h * m)) * p
        BY <1>1
      <4>2. v = h * (m * (2 * p))
        BY <1>2, <3>1, <3>2
      <4>3. (2 * (h * m)) * p \in Int
        BY <1>1
      <4> QED
        BY <4>1, <4>2, <4>3
    <3>4. PICK q \in Int : q = 2 * (h * m) /\ q % 2 = 0
      <4>1. PICK z \in Int : z = h * m
        BY <1>1
      <4>2. 2 * z \in Int /\ (2 * z) % 2 = 0
        OBVIOUS
      <4> QED
        BY <4>1, <4>2
    <3>5. 0 \in Nat /\ 0 < p
      BY <2>2
    <3>6. (q * p + 0) \div p = q
      BY <3>5, DivisionUnique
    <3>7. Bit(v, k) = 0
      BY <2>2, <3>3, <3>4, <3>6 DEF Bit
    <3> QED
      BY <1>1, <3>7, BitOf
  <2>4. CASE k >= n
    <3>1. PICK m \in Nat : m # 0 /\ p = m * Half
      BY <1>5, <2>1, <2>2, <2>4, PowersDivide
    <3>2. p >= Half
      <4>1. PICK c \in Nat : m = 1 + c
        <5>1. m - 1 \in Nat
          BY <3>1
        <5> QED
          BY <5>1
      <4>2. p = Half + c * Half /\ c * Half \in Nat
        BY <1>0, <3>1, <4>1
      <4> QED
        BY <1>0, <4>2
    <3>3. l < p
      BY <1>0, <1>1, <3>2
    <3>4. (0 * p + l) \div p = 0
      BY <1>1, <3>3, DivisionUnique
    <3>5. l \div p = 0
      BY <1>1, <3>4
    <3>6. Bit(l, k) = 0
      BY <2>2, <3>5 DEF Bit
    <3> QED
      BY <1>2, <3>6, BitOf
  <2> QED
    BY <1>5, <2>1, <2>3, <2>4
<1> DEFINE b == [k \in Bits |-> IF Bit(v, k) + Bit(l, k) > 0 THEN 1 ELSE 0]
<1>7. \A k \in Bits : b[k] = Bit(v, k) + Bit(l, k) /\ b[k] \in Int
  BY <1>6
<1>8. b \in [Bits -> Int]
  BY <1>7
<1> HIDE DEF b
<1>9. FromBits(b) = v + l
  BY <1>4, <1>7, <1>8, SumOfWords
<1>10. Or(v, l) = v + l
  BY <1>9 DEF Or, b
<1> QED
  BY <1>2, <1>4, <1>10

(* A word is made of two halves.                                           *)
LEMMA HalvesSplit ==
  ASSUME NEW w \in Word
  PROVE  \E h \in 0..Half - 1, l \in 0..Half - 1 :
           /\ h = w \div Half /\ l = w % Half /\ w = h * Half + l
           /\ h % Half = h /\ l % Half = l
<1>0. Half \in Nat /\ Half >= 64 /\ WordSpace = Half * Half /\ WordSpace \in Nat
  BY ProgramWidths DEF WordSpace
<1>1. w \in Nat /\ w < Half * Half
  BY <1>0 DEF Word
<1>2. PICK h \in Int, l \in Nat : h = w \div Half /\ l = w % Half /\ l < Half /\ w = h * Half + l
  BY <1>0, <1>1, Division
<1>3. h >= 0
  <2> SUFFICES ASSUME h < 0 PROVE FALSE
    OBVIOUS
  <2>1. PICK d \in Nat : h = -1 - d
    <3>1. -1 - h \in Nat
      OBVIOUS
    <3> QED
      BY <3>1
  <2>2. h * Half = -Half - d * Half /\ d * Half \in Nat
    BY <1>0, <2>1
  <2> QED
    BY <1>0, <1>1, <1>2, <2>2
<1>4. h < Half
  <2> SUFFICES ASSUME h >= Half PROVE FALSE
    BY <1>0
  <2>1. PICK d \in Nat : h = Half + d
    <3>1. h - Half \in Nat
      BY <1>0
    <3> QED
      BY <1>0, <3>1
  <2>2. h * Half = Half * Half + d * Half /\ d * Half \in Nat
    BY <1>0, <2>1
  <2> QED
    BY <1>0, <1>1, <1>2, <2>2
<1>5. \A n, d \in Nat : n < d => n % d = n
  OBVIOUS
<1>6. h % Half = h /\ l % Half = l
  BY <1>0, <1>2, <1>3, <1>4, <1>5
<1>7. h \in 0..Half - 1 /\ l \in 0..Half - 1
  BY <1>0, <1>2, <1>3, <1>4
<1> QED
  BY <1>2, <1>6, <1>7

(* The upper half of a word in $t0, and the word.                          *)
Upper(s) == [s.gpr EXCEPT ![T0] = (s.gpr[A0] \div Half) * Half]
Loaded(s) == [s.gpr EXCEPT ![T0] = s.gpr[A0]]

(* The two steps of lli.                                                   *)
LoadInv ==
  start.name = "lli" =>
    /\ Untranslated
    /\ \/ MacroAt(0, 4, start.gpr) \/ MacroAt(4, 8, Upper(start)) \/ MacroAt(8, 12, Loaded(start))
       \/ stop = "exception" /\ gpr = Loaded(start)

(* The code of lli.                                                        *)
LEMMA LoadCode ==
  ASSUME MInv, start.name = "lli"
  PROVE  /\ start.gpr[0] = 0
         /\ CodeAt(0) = I("LUI", T0, 0, start.gpr[A0] \div Half)
         /\ CodeAt(4) = I("ORI", T0, T0, start.gpr[A0] % Half)
         /\ CodeAt(8) = Reserved
<1> DEFINE code == lli(T0, start.gpr[A0])
<1>1. start.code = Placed(0, code) /\ start.gpr[0] = 0
  BY NamedPrograms DEF MInv, Begins
<1>2. /\ DOMAIN code = 1..2
      /\ code[1] = I("LUI", T0, 0, start.gpr[A0] \div Half)
      /\ code[2] = I("ORI", T0, T0, start.gpr[A0] % Half)
  BY DEF lli
<1> HIDE DEF code
<1>3. \A k \in 1..2 : CodeAt(4 * k - 4) = code[k]
  BY <1>1, <1>2, PlacedCode
<1>4. CodeAt(0) = code[1] /\ CodeAt(4) = code[2]
  BY <1>3
<1>5. \A p \in Nat : p >= 4 * 2 => CodeAt(p) = Reserved
  BY <1>1, <1>2, PlacedCode
<1> QED
  BY <1>1, <1>2, <1>4, <1>5

(* The steps of lli.                                                       *)
LEMMA LoadSteps == MInv /\ LoadInv /\ [Next]_vars => LoadInv'
<1>1. CASE UNCHANGED vars
  BY <1>1 DEF vars, pipeline, storage, LoadInv, MacroAt, Untranslated, MInv, MachineTypeOK
<1>2. ASSUME MInv, LoadInv, Next PROVE LoadInv'
  <2> SUFFICES ASSUME start'.name = "lli" PROVE LoadInv'
    BY DEF LoadInv
  <2>1. start' = start /\ MInv'
    BY <1>2, StartStays, MInvNext
  <2>2. start.name = "lli" /\ Untranslated
    BY <1>2, <2>1 DEF LoadInv
  <2>3. stop = "no"
    BY <1>2, <2>2, ExecutesCurrent
  <2>4. PICK g1, g2 : g1 = Upper(start) /\ g2 = Loaded(start)
    OBVIOUS
  <2>5. /\ start.gpr[0] = 0
        /\ CodeAt(0) = I("LUI", T0, 0, start.gpr[A0] \div Half)
        /\ CodeAt(4) = I("ORI", T0, T0, start.gpr[A0] % Half)
        /\ CodeAt(8) = Reserved
    BY <2>2, LoadCode DEF Untranslated
  <2>6. g1 = Upper(start') /\ g2 = Loaded(start')
    BY <2>1, <2>4
  <2>7. ToWord(4 + 4) = 8 /\ ToWord(8 + 4) = 12
    BY ProgramWidths
  <2>8. ASSUME cpr' = cpr, stop' = "no", MacroAt(4, 8, g1)' \/ MacroAt(8, 12, g2)' PROVE LoadInv'
    BY <2>1, <2>2, <2>6, <2>8 DEF LoadInv, Untranslated, MacroAt
  <2>9. start.gpr \in [Regs -> Word]
    BY <2>2, StartsAssumption DEF Untranslated, MInv
  <2>10. PICK w \in Word : w = start.gpr[A0]
    BY <2>9, RegisterNumbers
  <2>11. PICK h \in 0..Half - 1, l \in 0..Half - 1 :
           /\ h = w \div Half /\ l = w % Half /\ w = h * Half + l
           /\ h % Half = h /\ l % Half = l
    BY <2>10, HalvesSplit
  <2>12. h * Half \in Word /\ l \in Word /\ Or(h * Half, l) = w
    BY <2>11, HalvesOfWord
  <2>13. ToWord(h * Half) = h * Half /\ ToWord(w) = w
    <3>1. \A x \in Word : ToWord(x) = x
      BY Widths DEF Word, ToWord
    <3> QED
      BY <2>12, <3>1
  <2>14. T0 \in Regs /\ T0 # 0 /\ T0 # A0
    BY RegisterNumbers
  <2>15. /\ g1 = [start.gpr EXCEPT ![T0] = h * Half] /\ g1[T0] = h * Half /\ g1[0] = 0
         /\ g2 = [g1 EXCEPT ![T0] = w]
    BY <2>4, <2>5, <2>9, <2>10, <2>11, <2>14 DEF Upper, Loaded
  <2>16. CASE MacroAt(0, 4, start.gpr)
    <3>1. Current.op = "LUI" /\ Current.rt = T0 /\ Current.im = h /\ gpr[0] = 0
      BY <2>5, <2>10, <2>11, <2>16 DEF Current, MacroAt, I
    <3>2. Sets(T0, h * Half)
      BY <1>2, <2>2, <3>1, ExecutesCurrent DEF Executes
    <3>3. Follows /\ gpr' = [gpr EXCEPT ![T0] = h * Half]
      BY <2>2, <2>13, <2>14, <3>1, <3>2, SettingOne
    <3>4. cpr' = cpr /\ stop' = "no" /\ MacroAt(4, 8, g1)'
      BY <2>3, <2>7, <2>15, <2>16, <3>3 DEF MacroAt, Follows
    <3> QED
      BY <2>8, <3>4
  <2>17. CASE MacroAt(4, 8, g1)
    <3>1. Current.op = "ORI" /\ Current.rt = T0 /\ Current.rs = T0 /\ Current.im = l /\ gpr[0] = 0
      BY <2>5, <2>10, <2>11, <2>15, <2>17 DEF Current, MacroAt, I
    <3>2. Sets(T0, Or(gpr[T0], l))
      BY <1>2, <2>2, <3>1, ExecutesCurrent DEF Executes
    <3>3. Or(gpr[T0], l) = w
      BY <2>12, <2>15, <2>17 DEF MacroAt
    <3>4. Follows /\ gpr' = [gpr EXCEPT ![T0] = w]
      BY <2>2, <2>13, <2>14, <3>1, <3>2, <3>3, SettingOne
    <3>5. cpr' = cpr /\ stop' = "no" /\ MacroAt(8, 12, g2)'
      BY <2>3, <2>7, <2>15, <2>17, <3>4 DEF MacroAt, Follows
    <3> QED
      BY <2>8, <3>5
  <2>18. CASE MacroAt(8, 12, g2)
    <3>1. Current = Reserved
      BY <2>5, <2>18 DEF Current, MacroAt
    <3>2. stop' = "exception" /\ cpr' = cpr /\ gpr' = g2
      BY <1>2, <2>2, <2>18, <3>1, Ending DEF MacroAt
    <3> QED
      BY <2>1, <2>2, <2>6, <3>2 DEF LoadInv, Untranslated
  <2> QED
    BY <1>2, <2>2, <2>3, <2>4, <2>16, <2>17, <2>18 DEF LoadInv
<1> QED
  BY <1>1, <1>2

(* The macros mean what their names say, for operands of any value and     *)
(* words of any width: the branches of pseudo_inst.inc:1-48 and 97-110,    *)
(* the overlap of 111-120 where the ranges do not wrap around, and the     *)
(* words of 49-53.                                                         *)
THEOREM MacrosMean == Spec => []MacrosMeet
<1> DEFINE Inv == ComparedInv /\ AlignedInv /\ OverlapInv /\ LoadInv
<1>1. Init => Inv
  <2> SUFFICES ASSUME Init PROVE Inv
    OBVIOUS
  <2>1. ASSUME NEW code, Begins(start, code)
        PROVE  Untranslated /\ MacroAt(0, 4, start.gpr)
    BY <2>1, Beginning DEF MacroAt
  <2>2. ComparedInv
    <3> SUFFICES ASSUME start.name \in DOMAIN Comparisons PROVE ComparedInv
      BY DEF ComparedInv
    <3>1. Begins(start, Compared(start.name, A0, A1, 1))
      BY NamedPrograms DEF Init
    <3> QED
      BY <2>1, <3>1 DEF ComparedInv
  <2>3. AlignedInv
    <3> SUFFICES ASSUME start.name \in {"baln", "bnaln"} PROVE AlignedInv
      BY DEF AlignedInv
    <3>1. Begins(start, baln(A0, 1)) \/ Begins(start, bnaln(A0, 1))
      BY NamedPrograms DEF Init
    <3> QED
      BY <2>1, <3>1 DEF AlignedInv
  <2>4. OverlapInv
    <3> SUFFICES ASSUME start.name = "sovlp" PROVE OverlapInv
      BY DEF OverlapInv
    <3>1. Begins(start, sovlp(T1, A0, A1, A2))
      BY NamedPrograms DEF Init
    <3> QED
      BY <2>1, <3>1 DEF OverlapInv
  <2>5. LoadInv
    <3> SUFFICES ASSUME start.name = "lli" PROVE LoadInv
      BY DEF LoadInv
    <3>1. Begins(start, lli(T0, start.gpr[A0]))
      BY NamedPrograms DEF Init
    <3> QED
      BY <2>1, <3>1 DEF LoadInv
  <2> QED
    BY <2>2, <2>3, <2>4, <2>5
<1>2. MInv /\ Inv /\ [Next]_vars => Inv'
  BY ComparedSteps, AlignedSteps, OverlapSteps, LoadSteps
<1>3. MInv /\ Inv => MacrosMeet
  <2> SUFFICES ASSUME MInv, Inv PROVE MacrosMeet
    OBVIOUS
  <2>0. start.gpr \in [Regs -> Word] /\ AT \in Regs /\ T1 \in Regs /\ AT # T1
    BY StartsAssumption, RegisterNumbers DEF MInv
  <2>1. ASSUME NEW name \in DOMAIN Comparisons, Ended(name)
        PROVE  /\ pc = 4 * Cardinality(DOMAIN start.code)
                         + IF Meant(name, start.gpr[A0], start.gpr[A1]) THEN 4 ELSE 0
               /\ gpr = [start.gpr EXCEPT ![AT] = gpr[AT]]
    <3>1. start.name = name /\ stop = "exception"
      BY <2>1 DEF Ended
    <3>2. pc = BranchesTo(start, 3) /\ gpr = Found(start)
      BY <2>1, <3>1 DEF ComparedInv, MacroAt
    <3>3. Cardinality(DOMAIN start.code) = 3
      BY <2>1, <3>1, ComparedCode
    <3>4. PICK x : Found(start) = [start.gpr EXCEPT ![AT] = x]
      BY Zenon DEF Found
    <3>5. gpr = [start.gpr EXCEPT ![AT] = gpr[AT]]
      BY <2>0, <3>2, <3>4
    <3> QED
      BY <3>1, <3>2, <3>3, <3>5 DEF BranchesTo
  <2>2. ASSUME NEW name \in {"baln", "bnaln"}, Ended(name)
        PROVE  /\ pc = 4 * Cardinality(DOMAIN start.code)
                         + IF Meant(name, start.gpr[A0], start.gpr[A1]) THEN 4 ELSE 0
               /\ gpr = [start.gpr EXCEPT ![AT] = gpr[AT]]
    <3>1. start.name = name /\ stop = "exception"
      BY <2>2 DEF Ended
    <3>2. pc = BranchesTo(start, 4) /\ gpr = Aligned(start)
      BY <2>2, <3>1 DEF AlignedInv, MacroAt
    <3>3. Cardinality(DOMAIN start.code) = 4
      BY <2>2, <3>1, AlignedCode
    <3>4. gpr = [start.gpr EXCEPT ![AT] = gpr[AT]]
      BY <2>0, <3>2 DEF Aligned
    <3> QED
      BY <3>1, <3>2, <3>3, <3>4 DEF BranchesTo
  <2>3. ASSUME Ended("sovlp"), start.gpr[A0] + start.gpr[A2] < WordSpace,
               start.gpr[A1] + start.gpr[A2] < WordSpace
        PROVE  gpr = [start.gpr EXCEPT
                        ![AT] = gpr[AT],
                        ![T1] = Truth(Common(start.gpr[A0], start.gpr[A1], start.gpr[A2]) # {})]
    <3>1. gpr = With(start, Both(start), Behind(start, A1, A0))
      BY <2>3 DEF OverlapInv, Ended, MacroAt
    <3>2. Both(start) = Truth(Common(start.gpr[A0], start.gpr[A1], start.gpr[A2]) # {})
      BY <2>3, OverlapFound DEF Ended
    <3>3. PICK t, x : t = Both(start) /\ x = Behind(start, A1, A0)
      OBVIOUS
    <3>4. gpr = [start.gpr EXCEPT ![AT] = gpr[AT], ![T1] = t]
      BY <2>0, <3>1, <3>3 DEF With
    <3> QED
      BY <3>2, <3>3, <3>4
  <2>4. ASSUME Ended("lli") PROVE gpr = [start.gpr EXCEPT ![T0] = start.gpr[A0]]
    BY <2>4 DEF LoadInv, Ended, MacroAt, Loaded
  <2> QED
    BY <2>1, <2>2, <2>3, <2>4 DEF MacrosMeet
<1> QED
  BY <1>1, <1>2, <1>3, MInvInit, MInvNext, PTL DEF Spec

-----------------------------------------------------------------------------
(* Words in memory.                                                        *)

(* A word is made of its bytes.                                            *)
LEMMA BytesOfWord ==
  ASSUME NEW w \in Word
  PROVE  ByteOf(w, 0) + Byte * ByteOf(w, 1) + Half * ByteOf(w, 2) + Half * Byte * ByteOf(w, 3) = w
<1>1. Byte \in Nat /\ Byte # 0 /\ Half = Byte * Byte /\ Half \in Nat /\ w \in Nat
  BY Widths DEF Half, Word
<1>2. PICK b \in Nat : b = Byte /\ b # 0
  BY <1>1
<1>3. PICK q1 \in Int, r1 \in Nat : q1 = w \div b /\ r1 = w % b /\ r1 < b /\ w = q1 * b + r1
  BY <1>1, <1>2, Division
<1>4. PICK q2 \in Int, r2 \in Nat : q2 = q1 \div b /\ r2 = q1 % b /\ r2 < b /\ q1 = q2 * b + r2
  BY <1>2, Division
<1>5. PICK q3 \in Int, r3 \in Nat : q3 = q2 \div b /\ r3 = q2 % b /\ r3 < b /\ q2 = q3 * b + r3
  BY <1>2, Division
<1>6. PICK h \in Nat : h = b * b /\ h = Half
  BY <1>1, <1>2
<1>7. w \div h = q2
  <2>1. r2 * b + r1 < h /\ r2 * b + r1 \in Nat
    <3>1. PICK d \in Nat : b = r2 + 1 + d
      <4>1. b - r2 - 1 \in Nat
        BY <1>4
      <4> QED
        BY <4>1
    <3>2. b * b = r2 * b + b + d * b /\ d * b \in Nat /\ r2 * b \in Nat
      BY <3>1
    <3> QED
      BY <1>3, <1>6, <3>2
  <2>2. w = q2 * h + (r2 * b + r1)
    <3>1. (q2 * b + r2) * b = q2 * (b * b) + r2 * b
      OBVIOUS
    <3>2. w = (q2 * b + r2) * b + r1
      BY <1>3, <1>4, Zenon
    <3>3. PICK x \in Int, y \in Int : x = q2 * (b * b) /\ y = r2 * b
      OBVIOUS
    <3>4. x + y + r1 = x + (y + r1)
      OBVIOUS
    <3> QED
      BY <1>6, <3>1, <3>2, <3>3, <3>4, Zenon
  <2>3. (q2 * h + (r2 * b + r1)) \div h = q2
    BY <2>1, DivisionUnique
  <2> QED
    BY <2>2, <2>3
<1>8. w \div (Half * Byte) = q3
  <2>1. PICK c \in Nat : c = h * b /\ c = Half * Byte
    BY <1>2, <1>6
  <2>2. PICK s \in Nat : s = r3 * h + (r2 * b + r1)
    OBVIOUS
  <2>3. s < c
    <3>1. PICK d \in Nat : b = r2 + 1 + d
      <4>1. b - r2 - 1 \in Nat
        BY <1>4
      <4> QED
        BY <4>1
    <3>2. b * b = r2 * b + b + d * b /\ d * b \in Nat /\ r2 * b \in Nat
      BY <3>1
    <3>3. r2 * b + r1 < h
      BY <1>3, <1>6, <3>2
    <3>4. PICK e \in Nat : b = r3 + 1 + e
      <4>1. b - r3 - 1 \in Nat
        BY <1>5
      <4> QED
        BY <4>1
    <3>5. h * b = r3 * h + h + e * h /\ e * h \in Nat /\ r3 * h \in Nat
      BY <3>4
    <3> QED
      BY <2>1, <2>2, <3>2, <3>3, <3>5
  <2>4. w = q3 * c + s
    <3>1. ((q3 * b + r3) * b + r2) * b + r1 = q3 * ((b * b) * b) + (r3 * (b * b) + (r2 * b + r1))
      OBVIOUS
    <3>2. w = ((q3 * b + r3) * b + r2) * b + r1
      BY <1>3, <1>4, <1>5, Zenon
    <3> QED
      BY <1>6, <2>1, <2>2, <3>1, <3>2, Zenon
  <2>5. (q3 * c + s) \div c = q3
    BY <2>3, DivisionUnique
  <2> QED
    BY <2>1, <2>4, <2>5
<1>9. ByteOf(w, 0) = r1
  BY <1>2, <1>3 DEF ByteOf
<1>10. ByteOf(w, 1) = r2
  <2>1. ByteOf(w, 1) = (w \div Byte) % Byte
    BY DEF ByteOf
  <2> QED
    BY <1>2, <1>3, <1>4, <2>1, Zenon
<1>11. ByteOf(w, 2) = r3
  BY <1>2, <1>5, <1>6, <1>7 DEF ByteOf
<1>12. ByteOf(w, 3) = q3
  BY <1>8 DEF ByteOf
<1>13. r1 + b * r2 + (b * b) * r3 + ((b * b) * b) * q3 = ((q3 * b + r3) * b + r2) * b + r1
  OBVIOUS
<1>14. w = ((q3 * b + r3) * b + r2) * b + r1
  BY <1>3, <1>4, <1>5, Zenon
<1> QED
  BY <1>2, <1>6, <1>9, <1>10, <1>11, <1>12, <1>13, <1>14, Zenon

(* What is stored is what is there.                                        *)
LEMMA WordStored ==
  ASSUME NEW n \in Nat, NEW m \in Bytes(n), NEW a \in Nat, a + 4 <= n, NEW w \in Word
  PROVE  WordAt(Put(m, a, 4, w), a) = w
<1>1. PICK p : p = Put(m, a, 4, w)
  OBVIOUS
<1>2. \A k \in 0..3 : p[a + k] = ByteOf(w, k)
  <2> SUFFICES ASSUME NEW k \in 0..3 PROVE p[a + k] = ByteOf(w, k)
    OBVIOUS
  <2>1. a + k \in DOMAIN m /\ a + k \in a..a + 4 - 1 /\ (a + k) - a = k
    BY DEF Bytes
  <2> QED
    BY <1>1, <2>1 DEF Put
<1>3. p[a] = ByteOf(w, 0) /\ p[a + 1] = ByteOf(w, 1) /\ p[a + 2] = ByteOf(w, 2) /\ p[a + 3] = ByteOf(w, 3)
  <2>1. a + 0 = a
    OBVIOUS
  <2> QED
    BY <1>2, <2>1
<1>4. WordAt(p, a) = w
  BY <1>3, BytesOfWord, Zenon DEF WordAt
<1> QED
  BY <1>1, <1>4

(* Nothing changes elsewhere.                                              *)
LEMMA StoredElsewhere ==
  ASSUME NEW n \in Nat, NEW m \in Bytes(n), NEW a \in Nat, NEW len \in {1, 4}, NEW w \in Word
  PROVE  /\ \A x \in 0..n - 1 : x \notin a..a + len - 1 => Put(m, a, len, w)[x] = m[x]
         /\ \A x \in Nat : x + 4 <= n /\ (x + 4 <= a \/ a + len <= x) =>
                             WordAt(Put(m, a, len, w), x) = WordAt(m, x)
<1>1. ASSUME NEW x \in 0..n - 1, x \notin a..a + len - 1 PROVE Put(m, a, len, w)[x] = m[x]
  BY <1>1 DEF Put, Bytes
<1>2. ASSUME NEW x \in Nat, x + 4 <= n, x + 4 <= a \/ a + len <= x
      PROVE  WordAt(Put(m, a, len, w), x) = WordAt(m, x)
  <2>1. /\ x \in 0..n - 1 /\ x + 1 \in 0..n - 1 /\ x + 2 \in 0..n - 1 /\ x + 3 \in 0..n - 1
        /\ x \notin a..a + len - 1 /\ x + 1 \notin a..a + len - 1
        /\ x + 2 \notin a..a + len - 1 /\ x + 3 \notin a..a + len - 1
    BY <1>2
  <2> QED
    BY <1>1, <2>1 DEF WordAt
<1> QED
  BY <1>1, <1>2

-----------------------------------------------------------------------------
(* Requests to the ports.                                                  *)

(* A step goes on to the next instruction and leaves most registers alone. *)
Advances ==
  /\ pc' = adv1 /\ adv1' = adv2 /\ adv2' = ToWord(adv2 + 4)
  /\ cpr' = cpr /\ UNCHANGED <<start, gpr, shadow, hi, lo>>

(* A word or a byte is stored at the address in a register and a small     *)
(* offset.                                                                 *)
LEMMA Storing ==
  ASSUME Untranslated, Next, NEW t \in Regs, NEW b \in Regs, NEW n \in 0..31, NEW len \in {1, 4},
         NEW p \in Nat, p = gpr[b] + n, p + len <= MemSize,
         Current = I(IF len = 4 THEN "SW" ELSE "SB", t, b, n)
  PROVE  /\ stop = "no" /\ Advances
         /\ \/ Store(p, len, gpr[t]) /\ stop' = "no"
            \/ StoreUndefined(p, len, gpr[t]) /\ stop' = "crash"
<1>1. /\ Current.op = IF len = 4 THEN "SW" ELSE "SB"
      /\ Current.rt = t /\ Current.rs = b /\ SignedImm(Current.im) = n
  BY SmallImmediates DEF I
<1>2. stop = "no" /\ Executes(Current)
  BY ExecutesCurrent
<1>3. StoreIn(Current, len)
  <2>1. CASE len = 4
    BY <1>1, <1>2, <2>1 DEF Executes
  <2>2. CASE len = 1
    BY <1>1, <1>2, <2>2 DEF Executes
  <2> QED
    BY <2>1, <2>2
<1>4. Vaddr(Current) = p
  <2>1. p \in Word
    BY Widths, MemoryAssumption DEF Word
  <2>2. p % WordSpace = p
    BY <2>1, Widths DEF Word
  <2> QED
    BY <1>1, <2>2 DEF Vaddr, ToWord
<1>5. Paddrs(p) = {p} /\ AfterAccess(Current) = {cpr}
  <2>1. Paddrs(p) = {p}
    BY Fetches
  <2>2. Recorded(cpr, adv1) = {cpr} /\ Recorded(cpr, p) = {cpr}
    BY Fetches
  <2>3. AfterAccess(Current) = UNION {Recorded(c, p) : c \in {cpr}}
    BY <1>4, <2>2 DEF AfterAccess
  <2> QED
    BY <2>1, <2>2, <2>3
<1>6. ~AddressError(p, len)
  BY Storage DEF AddressError, Untranslated
<1> QED
  BY <1>1, <1>2, <1>3, <1>4, <1>5, <1>6 DEF StoreIn, Advance, Advances

(* Only a store to the first word of a port is more than a store.          *)
LEMMA PlainStores ==
  ASSUME NEW p, NEW len, NEW w, p # HddPort, p # DmaPort
  PROVE  /\ Store(p, len, w) => mem' = Put(mem, p, len, w) /\ disk' = disk
         /\ ~StoreUndefined(p, len, w)
BY DEF Store, StoreUndefined

(* The addresses of the ports.                                             *)
LEMMA Ports ==
  /\ HddPort \in Nat /\ DmaPort \in Nat /\ HddPort + 16 <= DmaPort /\ DmaPort + 16 <= MemSize
  /\ MemSize \in Nat
  /\ \A port \in {HddPort, DmaPort}, k \in 1..3 :
       port + 4 * k \in Nat /\ port + 4 * k # HddPort /\ port + 4 * k # DmaPort
<1>1. MemSize \in Nat
  BY MemoryAssumption, Widths
<1> QED
  BY <1>1, MemoryAssumption

(* A parameter is stored behind the command of a port.                     *)
LEMMA StoresParameter ==
  ASSUME Untranslated, Next, NEW port \in {HddPort, DmaPort}, NEW k \in 1..3, NEW r \in Regs,
         NEW b \in Regs, gpr[b] = port, Current = I("SW", r, b, 4 * k)
  PROVE  /\ stop' = "no" /\ Advances /\ disk' = disk /\ DOMAIN mem' = DOMAIN mem
         /\ \A x \in 0..MemSize - 1 : x \notin port..port + 15 => mem'[x] = mem[x]
         /\ Port(mem', port, k) = gpr[r]
         /\ \A j \in 0..3 : j # k => Port(mem', port, j) = Port(mem, port, j)
<1>1. /\ port \in Nat /\ port + 16 <= MemSize /\ MemSize \in Nat
      /\ port + 4 * k # HddPort /\ port + 4 * k # DmaPort
  BY Ports
<1>2. PICK n \in 0..31, len \in {1, 4}, p \in Nat :
        n = 4 * k /\ len = 4 /\ p = port + 4 * k /\ p = gpr[b] + n /\ p + len <= MemSize
  BY <1>1
<1>3. Current = I(IF len = 4 THEN "SW" ELSE "SB", r, b, n)
  BY <1>2
<1>4. /\ stop = "no" /\ Advances
      /\ \/ Store(p, len, gpr[r]) /\ stop' = "no"
         \/ StoreUndefined(p, len, gpr[r]) /\ stop' = "crash"
  BY <1>2, <1>3, Storing
<1>5. mem' = Put(mem, p, 4, gpr[r]) /\ disk' = disk /\ stop' = "no"
  BY <1>1, <1>2, <1>4, PlainStores
<1>6. mem \in Bytes(MemSize) /\ gpr[r] \in Word
  BY Storage DEF Untranslated, MInv, MachineTypeOK
<1>7. p + 4 <= MemSize /\ WordAt(mem', p) = gpr[r]
  BY <1>1, <1>2, <1>5, <1>6, WordStored
<1>8. \A x \in 0..MemSize - 1 : x \notin p..p + 4 - 1 => mem'[x] = mem[x]
  BY <1>1, <1>5, <1>6, StoredElsewhere
<1>9. \A x \in Nat : x + 4 <= MemSize /\ (x + 4 <= p \/ p + 4 <= x) => WordAt(mem', x) = WordAt(mem, x)
  BY <1>1, <1>5, <1>6, StoredElsewhere
<1>10. \A j \in 0..3 : j # k => Port(mem', port, j) = Port(mem, port, j)
  <2> SUFFICES ASSUME NEW j \in 0..3, j # k PROVE Port(mem', port, j) = Port(mem, port, j)
    OBVIOUS
  <2>1. PICK x \in Nat : x = port + 4 * j /\ x + 4 <= MemSize /\ (x + 4 <= p \/ p + 4 <= x)
    BY <1>1, <1>2
  <2> QED
    BY <1>9, <2>1 DEF Port
<1>11. DOMAIN mem' = DOMAIN mem
  BY <1>5 DEF Put
<1>12. Port(mem', port, k) = gpr[r]
  BY <1>2, <1>7 DEF Port
<1>13. \A x \in 0..MemSize - 1 : x \notin port..port + 15 => mem'[x] = mem[x]
  BY <1>1, <1>2, <1>8
<1> QED
  BY <1>4, <1>5, <1>10, <1>11, <1>12, <1>13

(* The command of a port is stored, with the parameters behind it.         *)
LEMMA StoresCommand ==
  ASSUME Untranslated, Next, NEW port \in {HddPort, DmaPort}, NEW b \in Regs, T0 \in Regs,
         gpr[b] = port, Current = I("SW", T0, b, 0)
  PROVE  /\ stop = "no" /\ Advances
         /\ \E m \in Bytes(MemSize) :
              /\ \A x \in 0..MemSize - 1 : x \notin port..port + 15 => m[x] = mem[x]
              /\ Port(m, port, 0) = gpr[T0]
              /\ \A j \in 1..3 : Port(m, port, j) = Port(mem, port, j)
              /\ \/ stop' = "crash"
                 \/ stop' = "no" /\ port = HddPort /\ gpr[T0] = 1 /\ HddRead(m)
                 \/ stop' = "no" /\ port = HddPort /\ gpr[T0] = 2 /\ HddWrite(m)
                 \/ stop' = "no" /\ port = DmaPort /\ gpr[T0] = 1 /\ DmaCopy(m)
                 \/ gpr[T0] \notin {1, 2} \/ (port = DmaPort /\ gpr[T0] # 1)
<1>1. /\ port \in Nat /\ port + 16 <= MemSize /\ MemSize \in Nat /\ HddPort # DmaPort
  BY Ports
<1>2. PICK n \in 0..31, len \in {1, 4}, p \in Nat :
        n = 0 /\ len = 4 /\ p = port /\ p = gpr[b] + n /\ p + len <= MemSize
  BY <1>1
<1>3. Current = I(IF len = 4 THEN "SW" ELSE "SB", T0, b, n)
  BY <1>2
<1>4. /\ stop = "no" /\ Advances
      /\ \/ Store(p, len, gpr[T0]) /\ stop' = "no"
         \/ StoreUndefined(p, len, gpr[T0]) /\ stop' = "crash"
  BY <1>2, <1>3, Storing
<1>5. mem \in Bytes(MemSize) /\ gpr[T0] \in Word
  BY Storage DEF Untranslated, MInv, MachineTypeOK
<1>6. PICK m : m = Put(mem, port, 4, gpr[T0])
  OBVIOUS
<1>7. m \in Bytes(MemSize)
  BY <1>1, <1>5, <1>6, PutTyped
<1>8. WordAt(m, port) = gpr[T0]
  BY <1>1, <1>5, <1>6, WordStored
<1>9. \A x \in 0..MemSize - 1 : x \notin port..port + 4 - 1 => m[x] = mem[x]
  BY <1>1, <1>5, <1>6, StoredElsewhere
<1>10. \A x \in Nat : x + 4 <= MemSize /\ (x + 4 <= port \/ port + 4 <= x) => WordAt(m, x) = WordAt(mem, x)
  BY <1>1, <1>5, <1>6, StoredElsewhere
<1>11. \A j \in 1..3 : Port(m, port, j) = Port(mem, port, j)
  <2> SUFFICES ASSUME NEW j \in 1..3 PROVE Port(m, port, j) = Port(mem, port, j)
    OBVIOUS
  <2>1. PICK x \in Nat : x = port + 4 * j /\ x + 4 <= MemSize /\ port + 4 <= x
    BY <1>1
  <2> QED
    BY <1>10, <2>1 DEF Port
<1>12. Port(m, port, 0) = gpr[T0]
  <2>1. port + 4 * 0 = port
    BY <1>1
  <2> QED
    BY <1>8, <2>1 DEF Port
<1>13. \A x \in 0..MemSize - 1 : x \notin port..port + 15 => m[x] = mem[x]
  BY <1>1, <1>9
<1>14. \/ stop' = "crash"
       \/ stop' = "no" /\ port = HddPort /\ gpr[T0] = 1 /\ HddRead(m)
       \/ stop' = "no" /\ port = HddPort /\ gpr[T0] = 2 /\ HddWrite(m)
       \/ stop' = "no" /\ port = DmaPort /\ gpr[T0] = 1 /\ DmaCopy(m)
       \/ gpr[T0] \notin {1, 2} \/ (port = DmaPort /\ gpr[T0] # 1)
  <2>1. CASE Store(p, len, gpr[T0]) /\ stop' = "no"
    <3>1. /\ m = Put(mem, p, len, gpr[T0])
          /\ p = HddPort => Port(m, HddPort, 0) = gpr[T0]
          /\ p = DmaPort => Port(m, DmaPort, 0) = gpr[T0]
      BY <1>2, <1>6, <1>12
    <3> QED
      BY <1>1, <1>2, <2>1, <3>1, Zenon DEF Store
  <2>2. CASE stop' = "crash"
    BY <2>2
  <2> QED
    BY <1>4, <2>1, <2>2
<1> QED
  BY <1>4, <1>7, <1>11, <1>12, <1>13, <1>14
===============================================================================
