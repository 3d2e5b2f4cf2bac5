---------------------------- MODULE TerminalProofs ----------------------------
(***************************************************************************)
(* The rings of Terminal, of any size, hold what LineDiscipline says.      *)
(***************************************************************************)
EXTENDS Terminal, TLAPS

Slots == Chars \cup {Unset}

(* Slot k after slot i.                                                    *)
At(i, k, n) == IF i + k < n THEN i + k ELSE i + k - n

(* A position is wrapped at most once.                                     *)
LEMMA WrapOnce ==
  ASSUME NEW n \in Nat \ {0}, NEW i \in 0 .. n - 1, NEW k \in 0 .. n
  PROVE  (i + k) % n = At(i, k, n) /\ At(i, k, n) \in 0 .. n - 1
<1>1. \A a \in 0 .. n - 1 : a % n = a
  OBVIOUS
<1>2. \A a \in 0 .. n - 1 : (a + n) % n = a
  OBVIOUS
<1>3. CASE i + k < n
  BY <1>1, <1>3 DEF At
<1>4. CASE i + k >= n
  <2>1. i + k - n \in 0 .. n - 1 /\ i + k = (i + k - n) + n
    BY <1>4
  <2> QED BY <1>2, <1>4, <2>1 DEF At
<1> QED BY <1>3, <1>4

(* The contents of a ring are a sequence, shorter than the ring.           *)
LEMMA ContentsAre ==
  ASSUME NEW n \in Nat \ {0}, NEW q \in Ring(n)
  PROVE  /\ Count(q, n) \in 0 .. n - 1
         /\ Contents(q, n) \in Seq(Slots)
         /\ Len(Contents(q, n)) = Count(q, n)
         /\ \A k \in 1 .. Count(q, n) : Contents(q, n)[k] = q.data[At(q.start, k - 1, n)]
<1>1. Count(q, n) \in 0 .. n - 1
  BY DEF Count, From, Ring
<1>2. ASSUME NEW k \in 1 .. Count(q, n)
      PROVE  /\ (q.start + k - 1) % n = At(q.start, k - 1, n)
             /\ q.data[At(q.start, k - 1, n)] \in Slots
  <2>1. q.start \in 0 .. n - 1 /\ k - 1 \in 0 .. n /\ q.start + k - 1 = q.start + (k - 1)
    BY <1>1 DEF Ring
  <2> QED BY <2>1, WrapOnce DEF Ring, Slots
<1>3. Contents(q, n) = [k \in 1 .. Count(q, n) |-> q.data[At(q.start, k - 1, n)]]
  BY <1>2 DEF Contents
<1> QED BY <1>1, <1>2, <1>3

(* Sequences of the same elements are the same.                            *)
LEMMA SameElements ==
  ASSUME NEW T, NEW s \in Seq(T), NEW t \in Seq(T), Len(s) = Len(t),
         \A k \in 1 .. Len(s) : s[k] = t[k]
  PROVE  s = t
OBVIOUS

-----------------------------------------------------------------------------
(* A character goes behind the contents, if there is room.                 *)
LEMMA PushAppends ==
  ASSUME NEW n \in Nat \ {0}, NEW q \in Ring(n), NEW ch \in Slots,
         After(q.end, n) # q.start
  PROVE  LET r == [[q EXCEPT !.data[q.end] = ch] EXCEPT !.end = After(q.end, n)]
         IN  r \in Ring(n) /\ Contents(r, n) = Append(Contents(q, n), ch)
<1> DEFINE r == [[q EXCEPT !.data[q.end] = ch] EXCEPT !.end = After(q.end, n)]
           c == Count(q, n)
<1>1. /\ q.start \in 0 .. n - 1 /\ q.end \in 0 .. n - 1 /\ q.data \in [0 .. n - 1 -> Slots]
      /\ After(q.end, n) \in 0 .. n - 1
  BY DEF Ring, Slots, After
<1>2. /\ r.start = q.start /\ r.end = After(q.end, n)
      /\ r.data = [q.data EXCEPT ![q.end] = ch]
  BY DEF Ring
<1>3. r \in Ring(n)
  BY <1>1 DEF Ring, Slots
<1> HIDE DEF r
<1>4. Count(r, n) = c + 1 /\ c \in 0 .. n - 1
  <2>1. c \in 0 .. n - 1
    BY ContentsAre
  <2>2. Count(r, n) = From(q.start, After(q.end, n), n) /\ c = From(q.start, q.end, n)
    BY <1>2 DEF Count
  <2>3. \A i, j \in 0 .. n - 1 : After(j, n) # i =>
          From(i, After(j, n), n) = From(i, j, n) + 1
    BY DEF From, After
  <2> QED BY <1>1, <2>1, <2>2, <2>3
<1>5. At(q.start, c, n) = q.end
  BY <1>1 DEF Count, From, At
<1>6. \A k \in 1 .. c : At(q.start, k - 1, n) # q.end /\ At(q.start, k - 1, n) \in 0 .. n - 1
  BY <1>1, SMTT(30) DEF Count, From, At
<1> HIDE DEF c
<1>7. /\ Contents(q, n) \in Seq(Slots) /\ Len(Contents(q, n)) = c
      /\ \A k \in 1 .. c : Contents(q, n)[k] = q.data[At(q.start, k - 1, n)]
  BY ContentsAre DEF c
<1>8. /\ Contents(r, n) \in Seq(Slots) /\ Len(Contents(r, n)) = c + 1
      /\ \A k \in 1 .. c + 1 : Contents(r, n)[k] = r.data[At(q.start, k - 1, n)]
  <2>1. /\ Contents(r, n) \in Seq(Slots) /\ Len(Contents(r, n)) = Count(r, n)
        /\ \A k \in 1 .. Count(r, n) : Contents(r, n)[k] = r.data[At(r.start, k - 1, n)]
    BY <1>3, ContentsAre
  <2> QED BY <1>2, <1>4, <2>1
<1>9. \A k \in 1 .. c : Contents(r, n)[k] = Contents(q, n)[k]
  <2>1. \A k \in 1 .. c : k \in 1 .. c + 1
    BY <1>4
  <2>2. \A k \in 1 .. c : r.data[At(q.start, k - 1, n)] = q.data[At(q.start, k - 1, n)]
    BY <1>1, <1>2, <1>6
  <2> QED BY <1>7, <1>8, <2>1, <2>2
<1>10. Contents(r, n)[c + 1] = ch
  <2>1. r.data[q.end] = ch
    BY <1>1, <1>2
  <2>2. c + 1 \in 1 .. c + 1 /\ (c + 1) - 1 = c
    BY <1>4
  <2> QED BY <1>5, <1>8, <2>1, <2>2
<1>11. /\ Append(Contents(q, n), ch) \in Seq(Slots)
       /\ Len(Append(Contents(q, n), ch)) = c + 1
       /\ \A k \in 1 .. c : Append(Contents(q, n), ch)[k] = Contents(q, n)[k]
       /\ Append(Contents(q, n), ch)[c + 1] = ch
  BY <1>4, <1>7
<1>12. \A k \in 1 .. c + 1 : k \in 1 .. c \/ k = c + 1
  BY <1>4
<1>13. Contents(r, n) = Append(Contents(q, n), ch)
  BY <1>8, <1>9, <1>10, <1>11, <1>12, SameElements
<1> QED BY <1>3, <1>13 DEF r

(* The slot that stays free is not part of the contents.                   *)
LEMMA FreeSlotUnseen ==
  ASSUME NEW n \in Nat \ {0}, NEW q \in Ring(n), NEW ch \in Slots
  PROVE  LET r == [q EXCEPT !.data[q.end] = ch]
         IN  r \in Ring(n) /\ Contents(r, n) = Contents(q, n)
<1> DEFINE r == [q EXCEPT !.data[q.end] = ch]
           c == Count(q, n)
<1>1. /\ q.start \in 0 .. n - 1 /\ q.end \in 0 .. n - 1 /\ q.data \in [0 .. n - 1 -> Slots]
  BY DEF Ring, Slots
<1>2. r.start = q.start /\ r.end = q.end /\ r.data = [q.data EXCEPT ![q.end] = ch]
  BY DEF Ring
<1>3. r \in Ring(n)
  BY <1>1 DEF Ring, Slots
<1> HIDE DEF r
<1>4. Count(r, n) = c
  BY <1>2 DEF Count
<1>5. \A k \in 1 .. c : At(q.start, k - 1, n) # q.end /\ At(q.start, k - 1, n) \in 0 .. n - 1
  BY <1>1, SMTT(30) DEF Count, From, At
<1> HIDE DEF c
<1>6. /\ Contents(q, n) \in Seq(Slots) /\ Len(Contents(q, n)) = c
      /\ \A k \in 1 .. c : Contents(q, n)[k] = q.data[At(q.start, k - 1, n)]
  BY ContentsAre DEF c
<1>7. /\ Contents(r, n) \in Seq(Slots) /\ Len(Contents(r, n)) = c
      /\ \A k \in 1 .. c : Contents(r, n)[k] = r.data[At(q.start, k - 1, n)]
  <2>1. /\ Contents(r, n) \in Seq(Slots) /\ Len(Contents(r, n)) = Count(r, n)
        /\ \A k \in 1 .. Count(r, n) : Contents(r, n)[k] = r.data[At(r.start, k - 1, n)]
    BY <1>3, ContentsAre
  <2> QED BY <1>2, <1>4, <2>1
<1>8. \A k \in 1 .. c : Contents(r, n)[k] = Contents(q, n)[k]
  BY <1>1, <1>2, <1>5, <1>6, <1>7
<1>9. Contents(r, n) = Contents(q, n)
  BY <1>6, <1>7, <1>8, SameElements
<1> QED BY <1>3, <1>9 DEF r

(* Backspace takes the last character.                                     *)
LEMMA EraseTakesLast ==
  ASSUME NEW n \in Nat \ {0}, NEW q \in Ring(n), q.start # q.end
  PROVE  LET r == [q EXCEPT !.end = IF q.end > 0 THEN q.end - 1 ELSE n - 1]
         IN  /\ r \in Ring(n) /\ Contents(q, n) # <<>>
             /\ Contents(r, n) = SubSeq(Contents(q, n), 1, Len(Contents(q, n)) - 1)
<1> DEFINE r == [q EXCEPT !.end = IF q.end > 0 THEN q.end - 1 ELSE n - 1]
           c == Count(q, n)
<1>1. q.start \in 0 .. n - 1 /\ q.end \in 0 .. n - 1
  BY DEF Ring
<1>2. /\ r.start = q.start /\ r.end = IF q.end > 0 THEN q.end - 1 ELSE n - 1
      /\ r.data = q.data
  BY DEF Ring
<1>3. r \in Ring(n)
  BY <1>1 DEF Ring
<1> HIDE DEF r
<1>4. Count(r, n) = c - 1 /\ c \in 1 .. n - 1
  BY <1>1, <1>2 DEF Count, From
<1> HIDE DEF c
<1>5. /\ Contents(q, n) \in Seq(Slots) /\ Len(Contents(q, n)) = c
      /\ \A k \in 1 .. c : Contents(q, n)[k] = q.data[At(q.start, k - 1, n)]
  BY ContentsAre DEF c
<1>6. /\ Contents(r, n) \in Seq(Slots) /\ Len(Contents(r, n)) = c - 1
      /\ \A k \in 1 .. c - 1 : Contents(r, n)[k] = q.data[At(q.start, k - 1, n)]
  BY <1>2, <1>3, <1>4, ContentsAre
<1> DEFINE t == SubSeq(Contents(q, n), 1, c - 1)
<1>7. /\ t \in Seq(Slots) /\ Len(t) = c - 1
      /\ \A k \in 1 .. c - 1 : t[k] = Contents(q, n)[k]
  BY <1>4, <1>5
<1>8. \A k \in 1 .. c - 1 : k \in 1 .. c
  BY <1>4
<1> HIDE DEF t
<1>9. Contents(r, n) = t
  <2>1. \A k \in 1 .. c - 1 : Contents(r, n)[k] = t[k]
    BY <1>5, <1>6, <1>7, <1>8
  <2>2. Len(t) = Len(Contents(r, n)) /\ \A k \in 1 .. Len(t) : t[k] = Contents(r, n)[k]
    BY <1>6, <1>7, <2>1
  <2> QED BY <1>6, <1>7, <2>2, SameElements
<1>10. Contents(q, n) # <<>>
  BY <1>4, <1>5
<1> QED BY <1>3, <1>5, <1>9, <1>10 DEF r, t

(* Reading takes the first character.                                      *)
LEMMA ReadTakesFirst ==
  ASSUME NEW n \in Nat \ {0}, NEW q \in Ring(n), q.start # q.end
  PROVE  LET r == [q EXCEPT !.start = After(q.start, n)]
         IN  /\ r \in Ring(n) /\ Contents(q, n) # <<>>
             /\ Head(Contents(q, n)) = q.data[q.start]
             /\ Contents(r, n) = Tail(Contents(q, n))
<1> DEFINE r == [q EXCEPT !.start = After(q.start, n)]
           c == Count(q, n)
<1>1. /\ q.start \in 0 .. n - 1 /\ q.end \in 0 .. n - 1
      /\ After(q.start, n) \in 0 .. n - 1
  BY DEF Ring, After
<1>2. r.start = After(q.start, n) /\ r.end = q.end /\ r.data = q.data
  BY DEF Ring
<1>3. r \in Ring(n)
  BY <1>1 DEF Ring
<1> HIDE DEF r
<1>4. Count(r, n) = c - 1 /\ c \in 1 .. n - 1
  BY <1>1, <1>2 DEF Count, From, After
<1>5. At(q.start, 0, n) = q.start
  BY <1>1 DEF At
<1>6. \A k \in 1 .. c - 1 : At(After(q.start, n), k - 1, n) = At(q.start, (k + 1) - 1, n)
  BY <1>1, <1>4 DEF At, After
<1> HIDE DEF c
<1>7. /\ Contents(q, n) \in Seq(Slots) /\ Len(Contents(q, n)) = c
      /\ \A k \in 1 .. c : Contents(q, n)[k] = q.data[At(q.start, k - 1, n)]
  BY ContentsAre DEF c
<1>8. /\ Contents(r, n) \in Seq(Slots) /\ Len(Contents(r, n)) = c - 1
      /\ \A k \in 1 .. c - 1 : Contents(r, n)[k] = q.data[At(After(q.start, n), k - 1, n)]
  BY <1>2, <1>3, <1>4, ContentsAre
<1> DEFINE t == Tail(Contents(q, n))
<1>9. Contents(q, n) # <<>>
  BY <1>4, <1>7
<1>10. /\ t \in Seq(Slots) /\ Len(t) = c - 1
       /\ \A k \in 1 .. c - 1 : t[k] = Contents(q, n)[k + 1]
  BY <1>4, <1>7, <1>9
<1>11. \A k \in 1 .. c - 1 : k + 1 \in 1 .. c
  BY <1>4
<1> HIDE DEF t
<1>12. Contents(r, n) = t
  <2>1. \A k \in 1 .. c - 1 : Contents(r, n)[k] = t[k]
    BY <1>6, <1>7, <1>8, <1>10, <1>11, ZenonT(60)
  <2>2. Len(t) = Len(Contents(r, n)) /\ \A k \in 1 .. Len(t) : t[k] = Contents(r, n)[k]
    BY <1>8, <1>10, <2>1
  <2> QED BY <1>8, <1>10, <2>2, SameElements
<1>13. Head(Contents(q, n)) = q.data[q.start]
  <2>1. 1 \in 1 .. c /\ 1 - 1 = 0
    BY <1>4
  <2>2. Head(Contents(q, n)) = Contents(q, n)[1]
    BY <1>7, <1>9
  <2> QED BY <1>5, <1>7, <2>1, <2>2
<1> QED BY <1>3, <1>9, <1>12, <1>13 DEF r, t

(* The data d differ from those of the ring in the slots behind its end,   *)
(* where there are room characters of the text, and in the one after them. *)
Extends(d, q, text, room, n) ==
  \A i \in 0 .. n - 1 :
    /\ From(q.end, i, n) < room => d[i] = text[From(q.end, i, n) + 1]
    /\ From(q.end, i, n) > room => d[i] = q.data[i]

Extended(q, d, room, n) == [q EXCEPT !.end = At(q.end, room, n), !.data = d]

(* As much of a line as there is room for goes behind the contents,        *)
(* whatever is in the slot that stays free.                                *)
LEMMA FlushExtends ==
  ASSUME NEW n \in Nat \ {0}, NEW q \in Ring(n), NEW text \in Seq(Slots),
         NEW room \in 0 .. Len(text), Count(q, n) + room <= n - 1,
         NEW d \in [0 .. n - 1 -> Slots], Extends(d, q, text, room, n)
  PROVE  /\ Extended(q, d, room, n) \in Ring(n)
         /\ Contents(Extended(q, d, room, n), n)
              = SubSeq(Contents(q, n) \o text, 1, Count(q, n) + room)
<1> DEFINE c == Count(q, n)
           r == Extended(q, d, room, n)
<1>1. /\ q.start \in 0 .. n - 1 /\ q.end \in 0 .. n - 1 /\ Len(text) \in Nat
      /\ c \in 0 .. n - 1 /\ room \in 0 .. n - 1 /\ c + room \in 0 .. n - 1
  BY ContentsAre DEF Ring
<1>2. At(q.end, room, n) \in 0 .. n - 1
  BY <1>1, SMTT(30) DEF At
<1>3. r.start = q.start /\ r.end = At(q.end, room, n) /\ r.data = d
  BY DEF Ring, Extended
<1>4. r \in Ring(n)
  BY <1>2 DEF Ring, Slots, Extended
<1> HIDE DEF r
<1>5. Count(r, n) = c + room
  <2>1. c = From(q.start, q.end, n) /\ Count(r, n) = From(q.start, At(q.end, room, n), n)
    BY <1>3 DEF Count
  <2>2. \A i, j \in 0 .. n - 1 : From(i, j, n) + room <= n - 1 =>
          From(i, At(j, room, n), n) = From(i, j, n) + room
    BY <1>1 DEF From, At
  <2> QED BY <1>1, <2>1, <2>2
<1>6. /\ Contents(r, n) \in Seq(Slots) /\ Len(Contents(r, n)) = c + room
      /\ \A k \in 1 .. c + room : Contents(r, n)[k] = d[At(q.start, k - 1, n)]
  <2>1. /\ Contents(r, n) \in Seq(Slots) /\ Len(Contents(r, n)) = Count(r, n)
        /\ \A k \in 1 .. Count(r, n) : Contents(r, n)[k] = r.data[At(r.start, k - 1, n)]
    BY <1>4, ContentsAre
  <2> QED BY <1>3, <1>5, <2>1
<1>7. /\ Contents(q, n) \in Seq(Slots) /\ Len(Contents(q, n)) = c
      /\ \A k \in 1 .. c : Contents(q, n)[k] = q.data[At(q.start, k - 1, n)]
  BY ContentsAre
<1>8. \A k \in 1 .. c : /\ At(q.start, k - 1, n) \in 0 .. n - 1
                        /\ From(q.end, At(q.start, k - 1, n), n) > room
  <2>1. c = From(q.start, q.end, n)
    BY DEF Count
  <2>2. \A i, j \in 0 .. n - 1 : \A k \in 1 .. From(i, j, n) :
          /\ At(i, k - 1, n) \in 0 .. n - 1
          /\ From(j, At(i, k - 1, n), n) = n - From(i, j, n) + (k - 1)
    <3> SUFFICES ASSUME NEW i \in 0 .. n - 1, NEW j \in 0 .. n - 1, NEW k \in 1 .. From(i, j, n)
                 PROVE  /\ At(i, k - 1, n) \in 0 .. n - 1
                        /\ From(j, At(i, k - 1, n), n) = n - From(i, j, n) + (k - 1)
      OBVIOUS
    <3>1. k \in Int /\ (i <= j => From(i, j, n) = j - i) /\ (i > j => From(i, j, n) = j - i + n)
      BY DEF From
    <3>2. CASE i + (k - 1) < n
      <4>1. At(i, k - 1, n) = i + k - 1
        BY <3>1, <3>2 DEF At
      <4> QED BY <3>1, <3>2, <4>1 DEF From
    <3>3. CASE i + (k - 1) >= n
      <4>1. At(i, k - 1, n) = i + k - 1 - n
        BY <3>1, <3>3 DEF At
      <4>2. i > j /\ k <= j - i + n
        BY <3>1, <3>3
      <4>3. i + k - 1 - n < j /\ i + k - 1 - n \in 0 .. n - 1
        BY <3>1, <3>3, <4>2
      <4>4. From(j, At(i, k - 1, n), n) = i + k - 1 - n - j + n
        BY <4>1, <4>3 DEF From
      <4> QED BY <3>1, <3>3, <4>1, <4>2, <4>3, <4>4
    <3> QED BY <3>1, <3>2, <3>3
  <2> HIDE DEF c
  <2>3. \A k \in 1 .. c : n - c + (k - 1) > room
    BY <1>1
  <2> QED BY <1>1, <2>1, <2>2, <2>3, SMTT(30)
<1>9. \A k \in c + 1 .. c + room : /\ At(q.start, k - 1, n) \in 0 .. n - 1
                                   /\ From(q.end, At(q.start, k - 1, n), n) = k - 1 - c
  <2>1. c = From(q.start, q.end, n)
    BY DEF Count
  <2>2. \A i, j \in 0 .. n - 1 : \A k \in From(i, j, n) + 1 .. n - 1 :
          /\ At(i, k - 1, n) \in 0 .. n - 1
          /\ From(j, At(i, k - 1, n), n) = k - 1 - From(i, j, n)
    <3> SUFFICES ASSUME NEW i \in 0 .. n - 1, NEW j \in 0 .. n - 1, NEW k \in From(i, j, n) + 1 .. n - 1
                 PROVE  /\ At(i, k - 1, n) \in 0 .. n - 1
                        /\ From(j, At(i, k - 1, n), n) = k - 1 - From(i, j, n)
      OBVIOUS
    <3>1. k \in Int /\ (i <= j => From(i, j, n) = j - i) /\ (i > j => From(i, j, n) = j - i + n)
      BY DEF From
    <3>2. CASE i + (k - 1) < n
      <4>1. At(i, k - 1, n) = i + k - 1
        BY <3>1, <3>2 DEF At
      <4> QED BY <3>1, <3>2, <4>1 DEF From
    <3>3. CASE i + (k - 1) >= n
      <4>1. At(i, k - 1, n) = i + k - 1 - n
        BY <3>1, <3>3 DEF At
      <4>2. k <= n - 1
        OBVIOUS
      <4>3. i + k - 1 - n \in 0 .. n - 1
        BY <3>1, <3>3, <4>2
      <4>4. CASE i <= j
        <5>1. i + k - 1 - n < j
          BY <3>1, <4>2, <4>4
        <5> QED BY <3>1, <4>1, <4>3, <4>4, <5>1 DEF From
      <4>5. CASE i > j
        <5>1. i + k - 1 - n >= j
          BY <3>1, <4>5
        <5> QED BY <3>1, <4>1, <4>3, <4>5, <5>1 DEF From
      <4> QED BY <4>4, <4>5
    <3> QED BY <3>1, <3>2, <3>3
  <2> HIDE DEF c
  <2>3. \A k \in c + 1 .. c + room : k \in c + 1 .. n - 1
    BY <1>1
  <2> QED BY <1>1, <2>1, <2>2, <2>3
<1> DEFINE t == SubSeq(Contents(q, n) \o text, 1, c + room)
<1> HIDE DEF c
<1>10. /\ t \in Seq(Slots) /\ Len(t) = c + room
       /\ \A k \in 1 .. c + room : t[k] = (Contents(q, n) \o text)[k]
  <2>1. Contents(q, n) \o text \in Seq(Slots) /\ Len(Contents(q, n) \o text) = c + Len(text)
    <3>1. \A a, b \in Seq(Slots) : a \o b \in Seq(Slots) /\ Len(a \o b) = Len(a) + Len(b)
      OBVIOUS
    <3> QED BY <1>7, <3>1
  <2>2. \A a \in Seq(Slots) : \A m \in 0 .. Len(a) :
          /\ SubSeq(a, 1, m) \in Seq(Slots) /\ Len(SubSeq(a, 1, m)) = m
          /\ \A k \in 1 .. m : SubSeq(a, 1, m)[k] = a[k]
    OBVIOUS
  <2>3. c + room \in 0 .. c + Len(text)
    BY <1>1
  <2> QED BY <2>1, <2>2, <2>3
<1>11. /\ \A k \in 1 .. c : (Contents(q, n) \o text)[k] = Contents(q, n)[k]
       /\ \A k \in c + 1 .. c + room : (Contents(q, n) \o text)[k] = text[k - c]
  BY <1>1, <1>7, SMTT(30)
<1> HIDE DEF t
<1>12. ASSUME NEW k \in 1 .. c + room PROVE t[k] = Contents(r, n)[k]
  <2>1. CASE k \in 1 .. c
    <3>1. t[k] = Contents(q, n)[k]
      BY <1>10, <1>11, <2>1
    <3>2. Contents(q, n)[k] = q.data[At(q.start, k - 1, n)]
      BY <1>7, <2>1
    <3>3. d[At(q.start, k - 1, n)] = q.data[At(q.start, k - 1, n)]
      BY <1>8, <2>1 DEF Extends
    <3> QED BY <1>6, <3>1, <3>2, <3>3
  <2>2. CASE k \in c + 1 .. c + room
    <3>1. t[k] = text[k - c]
      BY <1>10, <1>11, <2>2
    <3>2. k - 1 - c < room /\ (k - 1 - c) + 1 = k - c
      BY <1>1, <2>2
    <3>3. d[At(q.start, k - 1, n)] = text[k - c]
      BY <1>9, <2>2, <3>2 DEF Extends
    <3> QED BY <1>6, <3>1, <3>3
  <2> QED BY <1>1, <2>1, <2>2
<1>13. t = Contents(r, n)
  <2>1. Len(t) = Len(Contents(r, n)) /\ \A k \in 1 .. Len(t) : t[k] = Contents(r, n)[k]
    BY <1>6, <1>10, <1>12
  <2> QED BY <1>6, <1>10, <2>1, SameElements
<1> QED BY <1>4, <1>13 DEF t, c, r

-----------------------------------------------------------------------------
(* The rings hold characters, not what the slots held at first.            *)
T == TERM_INBUF_SIZE
L == LIB_INBUF_SIZE
TInv ==
  /\ TypeOK
  /\ Contents(term, T) \in Seq(Chars) /\ Contents(lib, L) \in Seq(Chars)

(* An empty ring has no contents, and a ring with none is empty.           *)
LEMMA Empty ==
  ASSUME NEW n \in Nat \ {0}, NEW q \in Ring(n)
  PROVE  q.start = q.end <=> Contents(q, n) = <<>>
<1>1. q.start = q.end <=> Count(q, n) = 0
  BY DEF Ring, Count, From
<1>2. Contents(q, n) \in Seq(Slots) /\ Len(Contents(q, n)) = Count(q, n)
  BY ContentsAre
<1> QED BY <1>1, <1>2

(* FLUSH_TO_LIB hands over what there is room for, and empties the line.   *)
LEMMA FlushHandsOver ==
  ASSUME TInv, NEW q \in Ring(T), Contents(q, T) \in Seq(Chars), Flush(q)
  PROVE  LET text == Contents(lib, L) \o Contents(q, T)
         IN  /\ term' \in Ring(T) /\ Contents(term', T) = <<>>
             /\ lib' \in Ring(L)
             /\ Contents(lib', L) = SubSeq(text, 1, IF Len(text) < L - 1 THEN Len(text) ELSE L - 1)
<1> DEFINE line == Contents(q, T)
           k == Count(q, T)
           room == Room(q)
           c == Count(lib, L)
           Slot(i) == From(lib.end, i, L)
           d == [i \in 0 .. L - 1 |->
                   IF Slot(i) < room THEN line[Slot(i) + 1]
                   ELSE IF Slot(i) = room /\ room < k THEN line[k] ELSE lib.data[i]]
<1>1. T \in Nat \ {0} /\ L \in Nat \ {0}
  BY TerminalAssumption DEF T, L
<1>2. lib \in Ring(L)
  BY DEF TInv, TypeOK, L
<1>3. k \in Nat /\ c \in 0 .. L - 1 /\ line \in Seq(Slots) /\ Len(line) = k
      /\ Contents(lib, L) \in Seq(Slots) /\ Len(Contents(lib, L)) = c
  <2>1. k \in 0 .. T - 1 /\ line \in Seq(Slots) /\ Len(line) = k
    BY <1>1, ContentsAre
  <2>2. c \in 0 .. L - 1 /\ Contents(lib, L) \in Seq(Slots) /\ Len(Contents(lib, L)) = c
    BY <1>1, <1>2, ContentsAre
  <2> QED BY <1>1, <2>1, <2>2
<1>4. room = IF k < L - 1 - c THEN k ELSE L - 1 - c
  BY DEF Room, T, L
<1>5. /\ term' = [q EXCEPT !.start = q.end]
      /\ lib' = [lib EXCEPT !.end = (lib.end + room) % L, !.data = d]
  BY DEF Flush, T, L
<1>6. term' \in Ring(T) /\ Contents(term', T) = <<>>
  <2>1. term' \in Ring(T) /\ term'.start = term'.end
    BY <1>5 DEF Ring
  <2> QED BY <1>1, <2>1, Empty
<1>7. lib.end \in 0 .. L - 1 /\ lib.data \in [0 .. L - 1 -> Slots]
  BY <1>2 DEF Ring, Slots
<1> HIDE DEF k, c, room, line
<1>8. room \in 0 .. L - 1 /\ room \in 0 .. k /\ c + room <= L - 1
  BY <1>1, <1>3, <1>4
<1>9. (lib.end + room) % L = At(lib.end, room, L)
  <2>1. room \in 0 .. L
    BY <1>1, <1>8
  <2> QED BY <1>1, <1>7, <2>1, WrapOnce
<1>10. \A i \in 0 .. L - 1 : Slot(i) \in 0 .. L - 1
  BY <1>1, <1>7 DEF From
<1>11. d \in [0 .. L - 1 -> Slots]
  <2>1. \A j \in 1 .. k : line[j] \in Slots
    BY <1>3
  <2>2. /\ \A s \in 0 .. L - 1 : s < room => s + 1 \in 1 .. k
        /\ room < k => k \in 1 .. k
    BY <1>1, <1>3, <1>8
  <2>3. ASSUME NEW i \in 0 .. L - 1, NEW s \in 0 .. L - 1
        PROVE  (IF s < room THEN line[s + 1]
                ELSE IF s = room /\ room < k THEN line[k] ELSE lib.data[i]) \in Slots
    BY <1>7, <2>1, <2>2
  <2> QED BY <1>10, <2>3
<1>12. /\ \A i \in 0 .. L - 1 : Slot(i) < room => d[i] = line[Slot(i) + 1]
       /\ \A i \in 0 .. L - 1 : Slot(i) > room => d[i] = lib.data[i]
  BY <1>8, <1>10
<1> HIDE DEF d
<1>13. lib' = Extended(lib, d, room, L)
  BY <1>5, <1>9 DEF Extended
<1>14. /\ lib' \in Ring(L)
       /\ Contents(lib', L) = SubSeq(Contents(lib, L) \o line, 1, c + room)
  <2>1. room \in 0 .. Len(line) /\ Count(lib, L) + room <= L - 1
    BY <1>3, <1>8 DEF c
  <2>2. Extends(d, lib, line, room, L)
    BY <1>12 DEF Extends
  <2> QED BY <1>1, <1>2, <1>3, <1>11, <1>13, <2>1, <2>2, FlushExtends DEF c
<1>15. c + room = IF Len(Contents(lib, L) \o line) < L - 1
                  THEN Len(Contents(lib, L) \o line) ELSE L - 1
  <2>1. \A a, b \in Seq(Slots) : Len(a \o b) = Len(a) + Len(b)
    OBVIOUS
  <2>2. Len(Contents(lib, L) \o line) = c + k
    BY <1>3, <2>1
  <2> QED BY <1>1, <1>3, <1>4, <2>2
<1> QED BY <1>6, <1>14, <1>15 DEF line

-----------------------------------------------------------------------------
(* A key but backspace: each action keeps the types, and is one of        *)
(* LineDiscipline or unseen there.                                         *)
LEMMA KeyEdits ==
  ASSUME TInv, NEW ch \in Chars, Key(ch)
  PROVE  TInv' /\ [Line!Next]_(Line!vars)
<1> DEFINE stored == [term EXCEPT !.data[term.end] = ch]
           next == After(term.end, T)
           pushed == [stored EXCEPT !.end = next]
           line == Contents(term, T)
           ready == Contents(lib, L)
<1>1. /\ T \in Nat \ {0} /\ L \in Nat \ {0} /\ term \in Ring(T) /\ lib \in Ring(L)
      /\ line \in Seq(Chars) /\ ready \in Seq(Chars) /\ ch \in Slots
      /\ read \in Chars \cup {-1} /\ read' = read
  BY TerminalAssumption DEF TInv, TypeOK, T, L, Slots, Key
<1>2. CASE next = term.start
  <2>1. term' = stored /\ lib' = lib
    BY <1>2 DEF Key, PushC, T
  <2>2. term' \in Ring(T) /\ Contents(term', T) = line
    BY <1>1, <2>1, FreeSlotUnseen
  <2>3. TInv'
    BY <1>1, <2>1, <2>2 DEF TInv, TypeOK, T, L
  <2>4. UNCHANGED Line!vars
    BY <1>1, <2>1, <2>2 DEF Line!vars, T, L
  <2> QED BY <2>3, <2>4
<1>3. CASE next # term.start
  <2>1. pushed \in Ring(T) /\ Contents(pushed, T) = Append(line, ch)
    BY <1>1, <1>3, PushAppends
  <2>2. Len(line) < T - 1
    <3>1. Len(line) = Count(term, T) /\ Count(term, T) \in 0 .. T - 1
      BY <1>1, ContentsAre
    <3>2. Count(term, T) # T - 1
      BY <1>1, <1>3, SMTT(30) DEF Count, From, After, Ring
    <3> QED BY <1>1, <3>1, <3>2
  <2>3. Append(line, ch) \in Seq(Chars)
    BY <1>1
  <2>4. CASE ch = Newline
    <3>1. Flush(pushed)
      BY <1>3, <2>4 DEF Key, PushC, T
    <3> DEFINE text == ready \o Append(line, ch)
               m == IF Len(text) < L - 1 THEN Len(text) ELSE L - 1
    <3> HIDE DEF pushed
    <3>2. /\ term' \in Ring(T) /\ Contents(term', T) = <<>>
          /\ lib' \in Ring(L) /\ Contents(lib', L) = SubSeq(text, 1, m)
      BY <2>1, <2>3, <3>1, FlushHandsOver
    <3>3. SubSeq(text, 1, m) \in Seq(Chars)
      <4>1. text \in Seq(Chars)
        BY <1>1, <2>3
      <4>2. m \in 0 .. Len(text)
        BY <1>1, <4>1
      <4>3. \A s \in Seq(Chars) : \A j \in 0 .. Len(s) : SubSeq(s, 1, j) \in Seq(Chars)
        OBVIOUS
      <4> QED BY <4>1, <4>2, <4>3
    <3>4. TInv'
      <4>1. Contents(term', T) \in Seq(Chars) /\ Contents(lib', L) \in Seq(Chars)
        BY <3>2, <3>3
      <4> HIDE DEF text, m
      <4> QED BY <1>1, <3>2, <4>1 DEF TInv, TypeOK, T, L
    <3>5. Line!Enter
      BY <1>1, <2>2, <2>4, <3>2 DEF Line!Enter, T, L
    <3> QED BY <3>4, <3>5 DEF Line!Next
  <2>5. CASE ch # Newline
    <3>1. term' = pushed /\ lib' = lib
      BY <1>3, <2>5 DEF Key, PushC, T
    <3> HIDE DEF pushed
    <3>2. TInv'
      BY <1>1, <2>1, <2>3, <3>1 DEF TInv, TypeOK, T, L
    <3>3. Line!Type(ch)
      BY <1>1, <2>1, <2>2, <3>1 DEF Line!Type, T, L
    <3> QED BY <2>5, <3>2, <3>3 DEF Line!Next
  <2> QED BY <2>4, <2>5
<1> QED BY <1>2, <1>3

(* Backspace.                                                              *)
LEMMA EraseEdits ==
  ASSUME TInv, Erase
  PROVE  TInv' /\ [Line!Next]_(Line!vars)
<1> DEFINE r == [term EXCEPT !.end = IF term.end > 0 THEN term.end - 1 ELSE T - 1]
           line == Contents(term, T)
<1>1. /\ T \in Nat \ {0} /\ term \in Ring(T) /\ line \in Seq(Chars)
      /\ lib' = lib /\ read' = read
  BY TerminalAssumption DEF TInv, TypeOK, T, Erase
<1>2. CASE term.start = term.end
  <2>1. term' = term
    BY <1>2 DEF Erase
  <2> QED BY <1>1, <2>1 DEF TInv, TypeOK, Line!vars, T, L
<1>3. CASE term.start # term.end
  <2>1. term' = r
    BY <1>3 DEF Erase, T
  <2> HIDE DEF r
  <2>2. /\ term' \in Ring(T) /\ line # <<>>
        /\ Contents(term', T) = SubSeq(line, 1, Len(line) - 1)
    BY <1>1, <1>3, <2>1, EraseTakesLast DEF r
  <2>3. SubSeq(line, 1, Len(line) - 1) \in Seq(Chars)
    <3>1. Len(line) - 1 \in 0 .. Len(line)
      BY <1>1, <2>2
    <3>2. \A s \in Seq(Chars) : \A j \in 0 .. Len(s) : SubSeq(s, 1, j) \in Seq(Chars)
      OBVIOUS
    <3> QED BY <1>1, <3>1, <3>2
  <2>4. TInv'
    BY <1>1, <2>2, <2>3 DEF TInv, TypeOK, T, L
  <2>5. Line!Erase
    BY <1>1, <2>2 DEF Line!Erase, T, L
  <2> QED BY <2>4, <2>5 DEF Line!Next
<1> QED BY <1>2, <1>3

(* A program reads.                                                        *)
LEMMA GetcReads ==
  ASSUME TInv, TERM_GETC
  PROVE  TInv' /\ [Line!Next]_(Line!vars)
<1> DEFINE ready == Contents(lib, L)
<1>1. /\ L \in Nat \ {0} /\ lib \in Ring(L) /\ ready \in Seq(Chars) /\ term' = term
  BY TerminalAssumption DEF TInv, TypeOK, L, TERM_GETC
<1>2. CASE lib.start = lib.end
  <2>1. read' = -1 /\ lib' = lib
    BY <1>2 DEF TERM_GETC
  <2>2. ready = <<>>
    BY <1>1, <1>2, Empty
  <2>3. TInv'
    BY <1>1, <2>1 DEF TInv, TypeOK, T, L
  <2>4. Line!NothingToRead
    BY <1>1, <2>1, <2>2 DEF Line!NothingToRead, L
  <2> QED BY <2>3, <2>4 DEF Line!Next
<1>3. CASE lib.start # lib.end
  <2>1. read' = lib.data[lib.start] /\ lib' = [lib EXCEPT !.start = After(lib.start, L)]
    BY <1>3 DEF TERM_GETC, L
  <2>2. /\ lib' \in Ring(L) /\ ready # <<>> /\ Head(ready) = read'
        /\ Contents(lib', L) = Tail(ready)
    BY <1>1, <1>3, <2>1, ReadTakesFirst
  <2>3. Head(ready) \in Chars /\ Tail(ready) \in Seq(Chars)
    BY <1>1, <2>2
  <2>4. TInv'
    BY <1>1, <2>2, <2>3 DEF TInv, TypeOK, T, L
  <2>5. Line!Read
    BY <1>1, <2>2 DEF Line!Read, L
  <2> QED BY <2>4, <2>5 DEF Line!Next
<1> QED BY <1>2, <1>3

(* Every step keeps the types, and is one of LineDiscipline or a stutter.  *)
LEMMA StepEdits ==
  ASSUME TInv, [Next]_vars
  PROVE  TInv' /\ [Line!Next]_(Line!vars)
<1>1. CASE Output \/ UNCHANGED vars
  BY <1>1 DEF Output, vars, TInv, TypeOK, Line!vars
<1>2. CASE TERM_KEYBOARD
  BY <1>2, KeyEdits, EraseEdits DEF TERM_KEYBOARD
<1>3. CASE TERM_GETC
  BY <1>3, GetcReads
<1> QED BY <1>1, <1>2, <1>3 DEF Next

(* At first both rings are empty.                                          *)
LEMMA InitEdits == Init => TInv /\ Line!Init
<1> SUFFICES ASSUME Init PROVE TInv /\ Line!Init
  OBVIOUS
<1>1. /\ T \in Nat \ {0} /\ L \in Nat \ {0}
      /\ term = EmptyRing(T) /\ lib = EmptyRing(L) /\ read = -1
  BY TerminalAssumption DEF Init, T, L
<1>2. \A n \in Nat \ {0} : /\ EmptyRing(n) \in Ring(n)
                           /\ EmptyRing(n).start = EmptyRing(n).end
  BY DEF EmptyRing, Ring
<1>3. Contents(term, T) = <<>> /\ Contents(lib, L) = <<>>
  BY <1>1, <1>2, Empty
<1>4. <<>> \in Seq(Chars)
  OBVIOUS
<1>5. term \in Ring(T) /\ lib \in Ring(L)
  BY <1>1, <1>2
<1> QED BY <1>1, <1>3, <1>4, <1>5 DEF TInv, TypeOK, Line!Init, T, L

(* The rings of any size keep their types, and programs read characters    *)
(* only, never what a slot held at first.                                  *)
THEOREM Types == Spec => []TypeOK
<1>1. Init => TInv
  BY InitEdits
<1>2. TInv /\ [Next]_vars => TInv'
  BY StepEdits
<1>3. TInv => TypeOK
  BY DEF TInv
<1> QED BY <1>1, <1>2, <1>3, PTL DEF Spec

(* TERM_INBUF and LIB_INBUF of any size behave as the line being typed and *)
(* the characters handed over, with one slot of each ring free.            *)
THEOREM Refinement == Spec => EditsLines
<1>1. Init => TInv /\ Line!Init
  BY InitEdits
<1>2. TInv /\ [Next]_vars => TInv' /\ [Line!Next]_(Line!vars)
  BY StepEdits
<1> QED BY <1>1, <1>2, PTL DEF Spec, EditsLines, Line!Spec
===============================================================================
