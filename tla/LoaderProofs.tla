----------------------------- MODULE LoaderProofs -----------------------------
(***************************************************************************)
(* Theorems about Loader: which sources the assembler refuses, and what    *)
(* the processor makes of the output of the others.                        *)
(***************************************************************************)
EXTENDS Loader, WellFoundedInduction, TLAPS

(* What the assembler knows of the lines it has parsed: a label has an     *)
(* address if one of them declares it, and there is a reference for each   *)
(* of them that uses a label.                                              *)
Parsed(S) == {i \in S : i < line}

Typed ==
  /\ source \in Sources
  /\ line \in Nat \ {0}
  /\ pcount \in Nat /\ buf_offset \in Nat
  /\ addr \in [Labels -> Int]
  /\ message \in BOOLEAN

AllRead == \A i \in Parsed(DOMAIN source) : source[i].op \in Statements
AddrKnown == \A name \in Labels : addr[name] # NULL_ADDR <=> Parsed(Declared(name)) # {}
DeclaredOnce == \A name \in Labels : \A i, j \in Parsed(Declared(name)) : i = j
RefsUsed == \A ref \in refs : ref.label \in Labels /\ Parsed(Referenced(ref.label)) # {}
UsesRefd ==
  \A name \in Labels : Parsed(Referenced(name)) # {} => \E ref \in refs : ref.label = name
OffsetsAligned ==
  \A i \in Parsed(DOMAIN source) : source[i].op = ".offset" => source[i].args[1] % 4 = 0
(* The parser is at the line it has stopped at, if not behind the last;    *)
(* that, or what ended the assembler, is what the message is about.        *)
Ended ==
  status \in {"stopped", "written"} =>
    /\ line \notin Readable
    /\ line \in DOMAIN source => source[line].op # "bad token"
Told ==
  message <=> status = "failed" \/ (status \in {"stopped", "written"} /\ line \in DOMAIN source)
Written == status = "written" => \A ref \in refs : addr[ref.label] # NULL_ADDR
Failed == status = "failed" => ~Consistent \/ StopsAtToken

IInv ==
  /\ Typed /\ AllRead /\ AddrKnown /\ DeclaredOnce /\ RefsUsed /\ UsesRefd /\ OffsetsAligned
  /\ Ended /\ Told /\ Written /\ Failed

-----------------------------------------------------------------------------
(* Every statement writes one or two words.                                *)
LEMMA WordsCount ==
  ASSUME NEW l, l.op \in Instructions
  PROVE  Len(Words(l)) \in {1, 2}
<1>1. Len(LoadImmediate(l.args[1], l.args[2])) \in {1, 2}
  BY DEF LoadImmediate
<1> HIDE DEF LoadImmediate
<1> QED
  BY <1>1 DEF Words, Instructions, rd_rs_rt, none, rs_rt, rd_rs, rs_only, rd_only, rd_rt_sa,
     rd_rt_rs, rt_rs_im, rs_rt_label, rs_label, rt_im_rs, rt_im, j_label, cp0_none,
     cp0_rt_rd, cp0_rd_rt, fd_fs_ft, ft_fs, fd_fs, pseudo

(* A statement registers references to its label if it uses one, and no    *)
(* others.                                                                 *)
LEMMA ReferencesOfLine ==
  ASSUME NEW l, NEW pc
  PROVE  /\ \A ref \in References(l, pc) : ref.label = l.label
         /\ References(l, pc) # {} <=>
              l.op \in rs_rt_label \cup rs_label \cup j_label \cup {"BLT", "LLA"}
<1>1. \A at, mode : Ref(l, at, mode).label = l.label
  BY DEF Ref
<1> HIDE DEF Ref
<1> QED
  BY <1>1 DEF References, rs_rt_label, rs_label, j_label

(* What the grammar says of a line, whatever its class.                    *)
LEMMA LineFields ==
  ASSUME Typed, NEW i \in DOMAIN source
  PROVE  /\ WellFormed(source[i]) /\ source[i].label \in Labels
         /\ source[i].op \in {".dup", ".offset"} => source[i].args[1] \in Nat
<1>1. WellFormed(source[i])
  BY SourcesAssumption DEF Typed
<1>2. source[i].label \in Labels
  BY <1>1 DEF WellFormed
<1>3. source[i].op \in {".dup", ".offset"} => source[i].args[1] \in Nat
  BY <1>1 DEF WellFormed, rd_rs_rt, none, rs_rt, rd_rs, rs_only, rd_only, rd_rt_sa,
     rd_rt_rs, rt_rs_im, rs_rt_label, rs_label, rt_im_rs, rt_im, j_label, cp0_none,
     cp0_rt_rd, cp0_rd_rt, fd_fs_ft, ft_fs, fd_fs
<1> QED
  BY <1>1, <1>2, <1>3

(* The lines parsed are readable; a statement after them is, too, and if   *)
(* what follows is none they are all that is.                              *)
LEMMA ReadableLines ==
  ASSUME Typed, AllRead
  PROVE  /\ Parsed(DOMAIN source) \subseteq Readable /\ Readable \subseteq DOMAIN source
         /\ line \in DOMAIN source /\ source[line].op \in Statements => line \in Readable
         /\ line \notin Readable => /\ Parsed(DOMAIN source) = Readable
                                   /\ \A S \in SUBSET Readable : Parsed(S) = S
<1>1. DOMAIN source = 1..Len(source) /\ Len(source) \in Nat
  <2>1. source \in Seq({source[i] : i \in DOMAIN source})
    BY SourcesAssumption DEF Typed
  <2> QED
    BY <2>1
<1>2. \A j \in DOMAIN source : j < line => source[j].op \in Statements
  BY DEF AllRead, Parsed
<1>3. Parsed(DOMAIN source) \subseteq Readable
  BY <1>1, <1>2 DEF Parsed, Readable, Typed
<1>4. line \in DOMAIN source /\ source[line].op \in Statements => line \in Readable
  BY <1>1, <1>2 DEF Readable, Typed
<1>5. ASSUME line \notin Readable, NEW i \in Readable PROVE i < line
  <2> SUFFICES ASSUME ~(i < line) PROVE FALSE
    OBVIOUS
  <2>1. i \in 1..Len(source) /\ \A j \in 1..i : source[j].op \in Statements
    BY <1>1 DEF Readable
  <2>2. line \in DOMAIN source /\ line \in 1..i
    BY <1>1, <2>1 DEF Typed
  <2> QED
    BY <1>4, <1>5, <2>1, <2>2
<1>6. line \notin Readable => \A S \in SUBSET Readable : Parsed(S) = S
  BY <1>5 DEF Parsed
<1>7. Readable \subseteq DOMAIN source
  BY DEF Readable
<1>8. line \notin Readable => Readable \subseteq Parsed(DOMAIN source)
  BY <1>5, <1>7 DEF Parsed
<1> QED
  BY <1>3, <1>4, <1>6, <1>7, <1>8

(* What is parsed after one more line.                                     *)
LEMMA OneMoreLine ==
  ASSUME Typed, AllRead, line <= Len(source), This.op \in Statements,
         source' = source, line' = line + 1
  PROVE  /\ line \in DOMAIN source
         /\ \A name, i : i \in Parsed(Declared(name))' <=>
              \/ i \in Parsed(Declared(name))
              \/ i = line /\ This.op = "label" /\ This.label = name
         /\ \A name, i : i \in Parsed(Referenced(name))' <=>
              \/ i \in Parsed(Referenced(name))
              \/ /\ i = line /\ This.label = name
                 /\ This.op \in rs_rt_label \cup rs_label \cup j_label \cup {"BLT", "LLA"}
         /\ \A i : i \in Parsed(DOMAIN source)' <=> i \in Parsed(DOMAIN source) \/ i = line
         /\ This.label \in Labels /\ AllRead'
<1>1. source \in Seq({source[i] : i \in DOMAIN source})
  BY SourcesAssumption DEF Typed
<1>2. DOMAIN source = 1..Len(source) /\ Len(source) \in Nat
  BY <1>1
<1>3. line \in DOMAIN source /\ line \in Nat /\ line + 1 \in Nat
  BY <1>2 DEF Typed
<1>4. /\ \A i \in DOMAIN source : i \in Nat /\ (i < line + 1 <=> i < line \/ i = line)
      /\ line \in Readable /\ Readable \subseteq DOMAIN source /\ Readable' = Readable
  BY <1>2, <1>3, ReadableLines DEF This, Readable
<1>5. \A name, i : i \in Parsed(Declared(name))' <=>
        \/ i \in Parsed(Declared(name))
        \/ i = line /\ This.op = "label" /\ This.label = name
  BY <1>3, <1>4 DEF Parsed, Declared, This
<1>6. \A name, i : i \in Parsed(Referenced(name))' <=>
        \/ i \in Parsed(Referenced(name))
        \/ /\ i = line /\ This.label = name
           /\ This.op \in rs_rt_label \cup rs_label \cup j_label \cup {"BLT", "LLA"}
  BY <1>3, <1>4 DEF Parsed, Referenced, This
<1>7. \A i : i \in Parsed(DOMAIN source)' <=> i \in Parsed(DOMAIN source) \/ i = line
  BY <1>3, <1>4 DEF Parsed
<1>8. This.label \in Labels
  BY <1>3, LineFields DEF This
<1>9. AllRead'
  BY <1>7 DEF AllRead, This
<1> QED
  BY <1>3, <1>5, <1>6, <1>7, <1>8, <1>9

(* A line that neither declares nor uses a label leaves the tables alone.  *)
LEMMA PlainLine ==
  ASSUME IInv, status = "parsing", line <= Len(source), source' = source, line' = line + 1,
         addr' = addr, refs' = refs, status' = status, message' = message,
         pcount' \in Nat, buf_offset' \in Nat,
         This.op \in {".dup", ".offset"}, This.op = ".offset" => This.args[1] % 4 = 0
  PROVE  IInv'
<1> USE DEF IInv
<1>1. This.op # "label" /\ This.op \in Statements
      /\ This.op \notin rs_rt_label \cup rs_label \cup j_label \cup {"BLT", "LLA"}
  BY DEF rs_rt_label, rs_label, j_label, Statements
<1>2. Typed'
  BY DEF Typed
<1>3. \A name : Parsed(Declared(name))' = Parsed(Declared(name))
  <2>1. \A name, i : i \in Parsed(Declared(name))' <=> i \in Parsed(Declared(name))
    BY <1>1, OneMoreLine
  <2> QED
    BY <2>1 DEF Parsed
<1>4. \A name : Parsed(Referenced(name))' = Parsed(Referenced(name))
  <2>1. \A name, i : i \in Parsed(Referenced(name))' <=> i \in Parsed(Referenced(name))
    BY <1>1, OneMoreLine
  <2> QED
    BY <2>1 DEF Parsed
<1>5. AddrKnown' /\ DeclaredOnce'
  BY <1>3 DEF AddrKnown, DeclaredOnce
<1>6. RefsUsed' /\ UsesRefd'
  BY <1>4 DEF RefsUsed, UsesRefd
<1>7. OffsetsAligned' /\ AllRead'
  BY <1>1, OneMoreLine DEF OffsetsAligned, This
<1>8. Ended' /\ Told' /\ Written' /\ Failed'
  BY DEF Ended, Told, Written, Failed
<1> QED
  BY <1>2, <1>5, <1>6, <1>7, <1>8

(* Data is a plain line.                                                 *)
LEMMA RawCodeKeeps ==
  ASSUME IInv, RawCode
  PROVE  IInv'
<1>1. line <= Len(source) /\ This.op = ".dup" /\ This.args[1] \in Nat
  BY OneMoreLine, LineFields DEF RawCode, At, This, IInv, Statements
<1>2. pcount' \in Nat /\ buf_offset' \in Nat
  BY <1>1 DEF RawCode, IInv, Typed
<1> QED
  BY <1>1, <1>2, PlainLine DEF RawCode, At, This

(* So is an aligned offset.                                              *)
LEMMA OffsetKeeps ==
  ASSUME IInv, Offset
  PROVE  IInv'
<1>1. line <= Len(source) /\ This.op = ".offset" /\ This.args[1] \in Nat
  BY OneMoreLine, LineFields DEF Offset, At, This, IInv, Statements
<1>2. pcount' \in Nat /\ buf_offset' \in Nat
  BY <1>1 DEF Offset, IInv, Typed
<1> QED
  BY <1>1, <1>2, PlainLine DEF Offset, At, This

(* A statement: the references are those of the line.                      *)
LEMMA InstructionKeeps ==
  ASSUME IInv, Instruction
  PROVE  IInv'
<1> USE DEF IInv
<1>1. /\ status = "parsing" /\ line <= Len(source) /\ This.op \in Instructions
      /\ source' = source /\ line' = line + 1 /\ addr' = addr /\ status' = status
      /\ message' = message /\ This.op \in Statements
      /\ buf_offset' = buf_offset /\ refs' = refs \cup References(This, pcount)
      /\ pcount' = pcount + 4 * Len(Words(This))
  BY DEF Instruction, At, This, Statements
<1>2. pcount' \in Nat
  <2>1. Len(Words(This)) \in Nat
    BY <1>1, WordsCount
  <2> QED
    BY <1>1, <2>1 DEF Typed
<1>3. Typed'
  BY <1>1, <1>2 DEF Typed
<1>4. This.op # "label" /\ This.op # ".offset"
  BY <1>1 DEF Instructions, rd_rs_rt, none, rs_rt, rd_rs, rs_only, rd_only, rd_rt_sa,
     rd_rt_rs, rt_rs_im, rs_rt_label, rs_label, rt_im_rs, rt_im, j_label, cp0_none,
     cp0_rt_rd, cp0_rd_rt, fd_fs_ft, ft_fs, fd_fs, pseudo
<1>5. AddrKnown' /\ DeclaredOnce'
  <2>1. \A name : Parsed(Declared(name))' = Parsed(Declared(name))
    <3>1. \A name, i : i \in Parsed(Declared(name))' <=> i \in Parsed(Declared(name))
      BY <1>1, <1>4, OneMoreLine
    <3> QED
      BY <3>1 DEF Parsed
  <2> QED
    BY <1>1, <2>1 DEF AddrKnown, DeclaredOnce
<1>6. RefsUsed'
  <2> SUFFICES ASSUME NEW ref \in refs'
               PROVE  ref.label \in Labels /\ Parsed(Referenced(ref.label))' # {}
    BY DEF RefsUsed
  <2>1. CASE ref \in refs
    <3>1. PICK i : i \in Parsed(Referenced(ref.label))
      BY <2>1 DEF RefsUsed
    <3>2. i \in Parsed(Referenced(ref.label))'
      BY <1>1, <3>1, OneMoreLine
    <3> QED
      BY <2>1, <3>2 DEF RefsUsed
  <2>2. CASE ref \in References(This, pcount)
    <3>1. ref.label = This.label
          /\ This.op \in rs_rt_label \cup rs_label \cup j_label \cup {"BLT", "LLA"}
      BY <2>2, ReferencesOfLine
    <3>2. line \in Parsed(Referenced(ref.label))' /\ This.label \in Labels
      BY <1>1, <3>1, OneMoreLine
    <3> QED
      BY <3>1, <3>2
  <2> QED
    BY <1>1, <2>1, <2>2
<1>7. UsesRefd'
  <2> SUFFICES ASSUME NEW name \in Labels, NEW i, i \in Parsed(Referenced(name))'
               PROVE  \E ref \in refs' : ref.label = name
    BY DEF UsesRefd
  <2>1. CASE i \in Parsed(Referenced(name))
    BY <1>1, <2>1 DEF UsesRefd
  <2>2. CASE This.label = name
             /\ This.op \in rs_rt_label \cup rs_label \cup j_label \cup {"BLT", "LLA"}
    BY <1>1, <2>2, ReferencesOfLine
  <2> QED
    BY <1>1, <2>1, <2>2, OneMoreLine
<1>8. OffsetsAligned' /\ AllRead'
  BY <1>1, <1>4, OneMoreLine DEF OffsetsAligned, This
<1>9. Ended' /\ Told' /\ Written' /\ Failed'
  BY <1>1 DEF Ended, Told, Written, Failed
<1> QED
  BY <1>3, <1>5, <1>6, <1>7, <1>8, <1>9

(* A declaration: the label had no address, so none of the lines parsed    *)
(* declares it.                                                            *)
LEMMA DeclareKeeps ==
  ASSUME IInv, Declare
  PROVE  IInv'
<1> USE DEF IInv
<1> DEFINE l == This.label
<1>1. /\ status = "parsing" /\ line <= Len(source) /\ This.op = "label"
      /\ addr[l] = NULL_ADDR /\ addr' = [addr EXCEPT ![l] = pcount]
      /\ source' = source /\ line' = line + 1 /\ refs' = refs
      /\ message' = message /\ This.op \in Statements
      /\ pcount' = pcount /\ status' = status /\ buf_offset' = buf_offset
  BY DEF Declare, At, This, Statements
<1>2. l \in Labels /\ line \in DOMAIN source
  BY <1>1, OneMoreLine
<1>3. This.op \notin rs_rt_label \cup rs_label \cup j_label \cup {"BLT", "LLA"}
  BY <1>1 DEF rs_rt_label, rs_label, j_label
<1>4. \A name, i : i \in Parsed(Declared(name))' <=>
        i \in Parsed(Declared(name)) \/ (i = line /\ name = l)
  BY <1>1, OneMoreLine
<1>5. \A i : i \notin Parsed(Declared(l))
  BY <1>1, <1>2 DEF AddrKnown
<1>6. addr'[l] = pcount /\ pcount # NULL_ADDR /\ pcount \in Int
  BY <1>1, <1>2 DEF Typed, NULL_ADDR
<1>7. \A name \in Labels : name # l => addr'[name] = addr[name]
  BY <1>1, <1>2 DEF Typed
<1>8. Typed'
  BY <1>1, <1>2, <1>6 DEF Typed
<1>9. NULL_ADDR' = NULL_ADDR
  BY DEF NULL_ADDR
<1> HIDE DEF l
<1>10. AddrKnown'
  <2> SUFFICES ASSUME NEW name \in Labels
               PROVE  addr'[name] # NULL_ADDR <=> Parsed(Declared(name))' # {}
    BY <1>9 DEF AddrKnown
  <2>1. CASE name = l
    <3>1. line \in Parsed(Declared(name))'
      BY <1>4, <2>1
    <3> QED
      BY <1>6, <2>1, <3>1
  <2>2. CASE name # l
    <3>1. \A i : i \in Parsed(Declared(name))' <=> i \in Parsed(Declared(name))
      BY <1>4, <2>2
    <3>2. Parsed(Declared(name))' # {} <=> Parsed(Declared(name)) # {}
      BY <3>1
    <3> QED
      BY <1>7, <2>2, <3>2 DEF AddrKnown
  <2> QED
    BY <2>1, <2>2
<1>11. DeclaredOnce'
  <2> SUFFICES ASSUME NEW name \in Labels, NEW i, NEW j,
                      i \in Parsed(Declared(name))', j \in Parsed(Declared(name))'
               PROVE  i = j
    BY DEF DeclaredOnce
  <2>1. CASE name = l
    BY <1>4, <1>5, <2>1
  <2>2. CASE name # l
    BY <1>4, <2>2 DEF DeclaredOnce
  <2> QED
    BY <2>1, <2>2
<1>12. \A name, i : i \in Parsed(Referenced(name))' <=> i \in Parsed(Referenced(name))
  BY <1>1, <1>3, OneMoreLine
<1>13. RefsUsed' /\ UsesRefd'
  <2>1. \A name : Parsed(Referenced(name))' # {} <=> Parsed(Referenced(name)) # {}
    BY <1>12
  <2> QED
    BY <1>1, <2>1 DEF RefsUsed, UsesRefd
<1>14. OffsetsAligned' /\ AllRead'
  BY <1>1, OneMoreLine DEF OffsetsAligned, This
<1>15. Ended' /\ Told' /\ Written' /\ Failed'
  BY <1>1 DEF Ended, Told, Written, Failed
<1> QED
  BY <1>8, <1>10, <1>11, <1>13, <1>14, <1>15

-----------------------------------------------------------------------------
(* A step that leaves the parser where it is and the tables alone.         *)
LEMMA SameLine ==
  ASSUME IInv, source' = source, line' = line, addr' = addr, refs' = refs,
         pcount' = pcount, buf_offset' = buf_offset, message' \in BOOLEAN
  PROVE  /\ Readable' = Readable /\ DOMAIN source' = DOMAIN source
         /\ Consistent' <=> Consistent
         /\ StopsAtToken' <=> StopsAtToken
         /\ Typed' /\ AllRead' /\ AddrKnown' /\ DeclaredOnce' /\ RefsUsed' /\ UsesRefd'
         /\ OffsetsAligned'
<1>1. Readable' = Readable
  BY DEF Readable
<1>2. /\ \A name : Declared(name)' = Declared(name) /\ Referenced(name)' = Referenced(name)
      /\ \A name : /\ Parsed(Declared(name))' = Parsed(Declared(name))
                   /\ Parsed(Referenced(name))' = Parsed(Referenced(name))
      /\ Parsed(DOMAIN source)' = Parsed(DOMAIN source)
  BY <1>1 DEF Parsed, Declared, Referenced
<1>3. Consistent' <=> Consistent
  BY <1>1, <1>2 DEF Consistent
<1>4. StopsAtToken' <=> StopsAtToken
  BY DEF StopsAtToken
<1>5. Typed' /\ AllRead' /\ OffsetsAligned'
  BY <1>2 DEF IInv, Typed, AllRead, OffsetsAligned
<1>6. AddrKnown' /\ DeclaredOnce'
  BY <1>2 DEF IInv, AddrKnown, DeclaredOnce, NULL_ADDR
<1>7. RefsUsed' /\ UsesRefd'
  BY <1>2 DEF IInv, RefsUsed, UsesRefd
<1> QED
  BY <1>1, <1>3, <1>4, <1>5, <1>6, <1>7

(* The lines of a file are numbered from 1, and so is the parser's.        *)
LEMMA LineNumbers ==
  ASSUME Typed
  PROVE  /\ DOMAIN source = 1..Len(source) /\ Len(source) \in Nat
         /\ line \in Nat /\ 1 <= line
         /\ line <= Len(source) => line \in DOMAIN source /\ line \in 1..line
<1>1. source \in Seq({source[i] : i \in DOMAIN source})
  BY SourcesAssumption DEF Typed
<1>2. DOMAIN source = 1..Len(source) /\ Len(source) \in Nat
  BY <1>1
<1>3. line \in Nat /\ 1 <= line
  BY DEF Typed
<1> QED
  BY <1>2, <1>3

(* A message that ends the assembler: there must be a reason for it.       *)
LEMMA FailKeeps ==
  ASSUME IInv, Fail, ~Consistent \/ StopsAtToken
  PROVE  IInv'
<1>1. /\ Typed' /\ AllRead' /\ AddrKnown' /\ DeclaredOnce' /\ RefsUsed' /\ UsesRefd'
      /\ OffsetsAligned'
      /\ ~Consistent' \/ StopsAtToken'
  BY SameLine DEF Fail
<1>2. status' = "failed" /\ message' = TRUE
  BY DEF Fail
<1>3. Ended' /\ Told' /\ Written' /\ Failed'
  BY <1>1, <1>2 DEF Ended, Told, Written, Failed
<1> QED
  BY <1>1, <1>3 DEF IInv

(* The line the parser is at, if it is a statement.                        *)
LEMMA AtReadable ==
  ASSUME IInv, line <= Len(source), This.op \in Statements
  PROVE  line \in DOMAIN source /\ line \in Readable /\ This.label \in Labels
<1>1. line \in DOMAIN source
  BY SourcesAssumption DEF IInv, Typed
<1>2. line \in Readable
  BY <1>1, ReadableLines DEF IInv, This
<1> QED
  BY <1>1, <1>2, LineFields DEF This, IInv

(* The label of the line has an address: an earlier line declares it.      *)
LEMMA DeclareTwiceKeeps ==
  ASSUME IInv, DeclareTwice
  PROVE  IInv'
<1> DEFINE l == This.label
<1>1. This.op = "label" /\ line <= Len(source)
  BY DEF DeclareTwice, At, This
<1>2. line \in Declared(l) /\ l \in Labels
  BY <1>1, AtReadable DEF Declared, This, Statements
<1>3. PICK i : i \in Parsed(Declared(l))
  BY <1>2 DEF DeclareTwice, IInv, AddrKnown
<1>4. i \in Declared(l) /\ i # line
  BY <1>3 DEF Parsed, IInv, Typed
<1>5. ~Consistent
  BY <1>2, <1>4 DEF Consistent
<1> QED
  BY <1>5, FailKeeps DEF DeclareTwice

(* The offset of the line is the reason.                                   *)
LEMMA OffsetUnalignedKeeps ==
  ASSUME IInv, OffsetUnaligned
  PROVE  IInv'
<1>1. line <= Len(source) /\ This.op = ".offset" /\ This.args[1] % 4 # 0
  BY DEF OffsetUnaligned, At, This
<1>2. ~Consistent
  BY <1>1, AtReadable DEF Consistent, This, Statements
<1> QED
  BY <1>2, FailKeeps DEF OffsetUnaligned

(* The line is the token that is none.                                     *)
LEMMA BadTokenKeeps ==
  ASSUME IInv, BadToken
  PROVE  IInv'
<1>1. /\ DOMAIN source = 1..Len(source) /\ Len(source) \in Nat
      /\ line \in Nat /\ line <= Len(source)
  BY LineNumbers DEF BadToken, At, IInv
<1>2. line \in DOMAIN source /\ source[line].op = "bad token"
  BY LineNumbers DEF BadToken, At, IInv
<1>3. \A j \in 1..(line - 1) : source[j].op \in Statements
  <2>1. \A j \in 1..(line - 1) : j \in DOMAIN source /\ j < line
    BY <1>1
  <2> QED
    BY <2>1 DEF IInv, AllRead, Parsed
<1>4. StopsAtToken
  BY <1>2, <1>3 DEF StopsAtToken
<1> QED
  BY <1>4, FailKeeps DEF BadToken

(* When the parser has returned it has read every line that it can.        *)
LEMMA NothingLeft ==
  ASSUME IInv, ParserReturned
  PROVE  /\ line \notin Readable
         /\ line \in DOMAIN source => source[line].op # "bad token" /\ status = "stopped"
<1>1. CASE status = "stopped"
  BY <1>1 DEF IInv, Ended
<1>2. CASE status = "parsing" /\ line > Len(source)
  <2>1. line \notin DOMAIN source
    BY <1>2, SourcesAssumption DEF IInv, Typed
  <2> QED
    BY <2>1 DEF Readable
<1> QED
  BY <1>1, <1>2 DEF ParserReturned

(* Some line uses the label of the reference, and no line declares it.     *)
LEMMA FinishUndeclaredKeeps ==
  ASSUME IInv, FinishUndeclared
  PROVE  IInv'
<1>1. PICK ref \in refs : addr[ref.label] = NULL_ADDR
  BY DEF FinishUndeclared, Undeclared
<1>2. ref.label \in Labels /\ Parsed(Referenced(ref.label)) # {}
  BY DEF IInv, RefsUsed
<1>3. Referenced(ref.label) # {}
  BY <1>2 DEF Parsed
<1>4. Parsed(Declared(ref.label)) = {}
  BY <1>1, <1>2 DEF IInv, AddrKnown
<1>5. Declared(ref.label) = {}
  <2>1. Declared(ref.label) \in SUBSET Readable
    BY DEF Declared
  <2>2. line \notin Readable
    BY NothingLeft DEF FinishUndeclared
  <2> QED
    BY <1>4, <2>1, <2>2, ReadableLines DEF IInv
<1>6. ~Consistent
  BY <1>2, <1>3, <1>5 DEF Consistent
<1> QED
  BY <1>6, FailKeeps DEF FinishUndeclared

(* The parser has stopped at the line, which is no statement.              *)
LEMMA SyntaxErrorKeeps ==
  ASSUME IInv, SyntaxError
  PROVE  IInv'
<1>1. line \in DOMAIN source /\ line \in 1..line
  BY LineNumbers DEF SyntaxError, IInv
<1>2. line \notin Readable /\ source[line].op # "bad token"
  BY <1>1 DEF SyntaxError, This, Readable
<1>3. source' = source /\ line' = line /\ message' = TRUE /\ status' = "stopped"
  BY DEF SyntaxError
<1>4. /\ Typed' /\ AllRead' /\ AddrKnown' /\ DeclaredOnce' /\ RefsUsed' /\ UsesRefd'
      /\ OffsetsAligned' /\ Readable' = Readable
  BY SameLine DEF SyntaxError
<1>5. Ended'
  BY <1>2, <1>3, <1>4 DEF Ended
<1>6. Told' /\ Written' /\ Failed'
  BY <1>1, <1>3 DEF Told, Written, Failed
<1> QED
  BY <1>4, <1>5, <1>6 DEF IInv

(* Patching the words changes none of the tables.                          *)
LEMMA FinishKeeps ==
  ASSUME IInv, Finish
  PROVE  IInv'
<1>1. /\ source' = source /\ line' = line /\ addr' = addr /\ refs' = refs /\ message' = message
      /\ pcount' = pcount /\ buf_offset' = buf_offset /\ status' = "written"
      /\ \A ref \in refs : addr[ref.label] # NULL_ADDR
  BY DEF Finish, Undeclared
<1>2. /\ Typed' /\ AllRead' /\ AddrKnown' /\ DeclaredOnce' /\ RefsUsed' /\ UsesRefd'
      /\ OffsetsAligned' /\ Readable' = Readable
  BY <1>1, SameLine DEF IInv, Typed
<1>3. /\ line \notin Readable
      /\ line \in DOMAIN source => source[line].op # "bad token" /\ status = "stopped"
      /\ status \in {"stopped", "parsing"}
  BY NothingLeft DEF Finish, ParserReturned
<1>4. Ended'
  BY <1>1, <1>2, <1>3 DEF Ended
<1>5. Told'
  BY <1>1, <1>3 DEF IInv, Told
<1>6. Written' /\ Failed'
  BY <1>1 DEF Written, Failed, NULL_ADDR
<1> QED
  BY <1>2, <1>4, <1>5, <1>6 DEF IInv

-----------------------------------------------------------------------------
(* Nothing is parsed yet.                                                *)
LEMMA StartsWell == Init => IInv
<1> SUFFICES ASSUME Init PROVE IInv
  OBVIOUS
<1>1. Typed /\ RefsUsed
  <2>1. message \in BOOLEAN
    BY Zenon DEF Init
  <2>2. addr \in [Labels -> Int]
    BY DEF Init, NULL_ADDR
  <2> QED
    BY <2>1, <2>2 DEF Init, Typed, RefsUsed
<1>0. Ended /\ Told /\ Written /\ Failed
  BY DEF Init, Ended, Told, Written, Failed
<1>2. \A S \in SUBSET DOMAIN source : Parsed(S) = {}
  <2>1. source \in Seq({source[i] : i \in DOMAIN source})
    BY SourcesAssumption DEF Init
  <2>2. \A i \in DOMAIN source : ~(i < line)
    BY <2>1 DEF Init
  <2> QED
    BY <2>2 DEF Parsed
<1>3. /\ \A name : Parsed(Declared(name)) = {} /\ Parsed(Referenced(name)) = {}
      /\ Parsed(DOMAIN source) = {}
  BY <1>2 DEF Declared, Referenced, Readable
<1>4. AllRead /\ AddrKnown /\ DeclaredOnce /\ UsesRefd /\ OffsetsAligned
  BY <1>3 DEF Init, AllRead, AddrKnown, DeclaredOnce, UsesRefd, OffsetsAligned
<1> QED
  BY <1>0, <1>1, <1>4 DEF IInv

(* The invariant is inductive: there is a lemma for each action.         *)
LEMMA StepKeeps == IInv /\ [Next]_vars => IInv'
<1> SUFFICES ASSUME IInv, [Next]_vars PROVE IInv'
  OBVIOUS
<1>1. CASE UNCHANGED vars
  <2>1. /\ Typed' /\ AllRead' /\ AddrKnown' /\ DeclaredOnce' /\ RefsUsed' /\ UsesRefd'
        /\ OffsetsAligned' /\ Readable' = Readable
        /\ (Consistent' <=> Consistent) /\ (StopsAtToken' <=> StopsAtToken)
    BY <1>1, SameLine DEF vars, IInv, Typed
  <2>2. Ended' /\ Told' /\ Written' /\ Failed'
    BY <1>1, <2>1 DEF vars, IInv, Ended, Told, Written, Failed, NULL_ADDR
  <2> QED
    BY <2>1, <2>2 DEF IInv
<1> QED
  BY <1>1, InstructionKeeps, DeclareKeeps, DeclareTwiceKeeps, RawCodeKeeps, OffsetKeeps,
     OffsetUnalignedKeeps, SyntaxErrorKeeps, BadTokenKeeps, FinishKeeps, FinishUndeclaredKeeps
     DEF Next

(* When the output is written, the lines parsed are all that is readable.  *)
LEMMA WrittenConsistent ==
  ASSUME IInv, status = "written"
  PROVE  Consistent
<1>1. line \notin Readable /\ \A ref \in refs : addr[ref.label] # NULL_ADDR
  BY DEF IInv, Written, Ended
<1>2. \A name : /\ Parsed(Declared(name)) = Declared(name)
                /\ Parsed(Referenced(name)) = Referenced(name)
                /\ Parsed(DOMAIN source) = Readable
  BY <1>1, ReadableLines DEF IInv, Declared, Referenced
<1>3. \A name \in Labels : \A i, j \in Declared(name) : i = j
  BY <1>2 DEF IInv, DeclaredOnce
<1>4. \A name \in Labels : Referenced(name) # {} => Declared(name) # {}
  BY <1>1, <1>2 DEF IInv, UsesRefd, AddrKnown
<1>5. \A i \in Readable : source[i].op = ".offset" => source[i].args[1] % 4 = 0
  BY <1>2 DEF IInv, OffsetsAligned
<1> QED
  BY <1>3, <1>4, <1>5 DEF Consistent

(* A token that is none is not a statement.                                *)
LEMMA BadTokenUnreadable == "bad token" \notin Statements
BY DEF Statements, Instructions, rd_rs_rt, none, rs_rt, rd_rs, rs_only, rd_only, rd_rt_sa,
   rd_rt_rs, rt_rs_im, rs_rt_label, rs_label, rt_im_rs, rt_im, j_label, cp0_none,
   cp0_rt_rd, cp0_rd_rt, fd_fs_ft, ft_fs, fd_fs, pseudo

(* The parser stops where the readable lines end: behind the last line, or *)
(* at one that is not a statement, of which the message tells.             *)
LEMMA Meaning == IInv => Diagnoses
<1> SUFFICES ASSUME IInv PROVE Diagnoses
  OBVIOUS
<1>1. DOMAIN source = 1..Len(source) /\ Len(source) \in Nat
  <2>1. source \in Seq({source[i] : i \in DOMAIN source})
    BY SourcesAssumption DEF IInv, Typed
  <2> QED
    BY <2>1
<1>2. StopsAtToken => Readable # DOMAIN source
  <2> SUFFICES ASSUME StopsAtToken PROVE Readable # DOMAIN source
    OBVIOUS
  <2>1. PICK i \in DOMAIN source : source[i].op = "bad token"
    BY DEF StopsAtToken
  <2>2. i \in 1..i
    BY <1>1
  <2>3. i \notin Readable
    BY <2>1, <2>2, BadTokenUnreadable DEF Readable
  <2> QED
    BY <2>3
<1>3. CASE status = "failed"
  BY <1>2, <1>3 DEF IInv, Told, Failed, Diagnoses, HasMeaning
<1>4. CASE status = "written"
  <2>1. Consistent /\ line \notin Readable /\ (message <=> line \in DOMAIN source)
    BY <1>4, WrittenConsistent DEF IInv, Ended, Told
  <2>2. line \notin DOMAIN source => Readable = DOMAIN source
    <3>1. line \notin DOMAIN source => \A i \in DOMAIN source : i < line
      BY <1>1 DEF IInv, Typed
    <3>2. Parsed(DOMAIN source) = Readable
      BY <2>1, ReadableLines DEF IInv
    <3> QED
      BY <3>1, <3>2 DEF Parsed
  <2>3. ~StopsAtToken
    <3>0. \A i \in DOMAIN source : ~(i < line) /\ i # line =>
            line \in 1..(i - 1) /\ line \in DOMAIN source
      BY <1>1, LineNumbers DEF IInv
    <3> SUFFICES ASSUME NEW i \in DOMAIN source, source[i].op = "bad token",
                        \A j \in 1..(i - 1) : source[j].op \in Statements
                 PROVE  FALSE
      BY DEF StopsAtToken
    <3>1. ~(i < line)
      BY BadTokenUnreadable DEF IInv, AllRead, Parsed
    <3>2. i # line
      BY <1>4 DEF IInv, Ended
    <3>3. line \in 1..(i - 1) /\ line \in DOMAIN source
      BY <3>0, <3>1, <3>2
    <3> QED
      BY <2>1, <3>3, ReadableLines DEF IInv
  <2> QED
    BY <1>4, <2>1, <2>2, <2>3 DEF Diagnoses, HasMeaning
<1> QED
  BY <1>3, <1>4 DEF Diagnoses

(* An error message comes for exactly the sources that have no meaning:    *)
(* one pass over the lines and one over the references find every label    *)
(* declared twice, every one that is nowhere declared, every unaligned     *)
(* offset and every line out of the grammar, wherever they are in the file *)
(* (symbol.c:110-178, mass.y:168-174, mass.c:52-56, mass.lex:204).  But    *)
(* only for a label, an offset or a token is there no output: what         *)
(* precedes a syntax error is written, as main does not look at what       *)
(* yyparse returns (mass.c:172-178).                                       *)
THEOREM DiagnosesAll == Spec => []Diagnoses
<1>1. Spec => []IInv
  BY StartsWell, StepKeeps, PTL DEF Spec
<1> QED
  BY <1>1, Meaning, PTL

(* The words of the SPECIAL group.                                         *)
LEMMA SpecialDecodes ==
  ASSUME NEW w, w.op = 0,
         NEW op \in rd_rs_rt \cup none \cup rs_rt \cup rd_rs \cup rs_only \cup rd_only
                      \cup rd_rt_sa \cup rd_rt_rs,
         w.fn = function[op], op = "SRL" => w.rs = 0, op = "SRLV" => w.sa = 0
  PROVE  D!decode(w) = op
<1>1. D!decode(w) = D!decode_op_special(w)
  BY DEF D!decode, D!opcode2inst, D!Entry
<1>2. CASE op \notin {"SRL", "SRLV"}
  <2>1. D!special2inst[function[op] + 1] = op
    BY <1>2 DEF D!special2inst, function, rd_rs_rt, none, rs_rt, rd_rs, rs_only, rd_only, rd_rt_sa, rd_rt_rs
  <2>2. op \notin {"SPECIAL_MOVCI", "SPECIAL_SRL", "SPECIAL_SRLV"}
    BY DEF rd_rs_rt, none, rs_rt, rd_rs, rs_only, rd_only, rd_rt_sa, rd_rt_rs
  <2> QED
    BY <1>1, <2>1, <2>2 DEF D!decode_op_special, D!Entry
<1>3. CASE op \in {"SRL", "SRLV"}
  BY <1>1, <1>3 DEF D!decode_op_special, D!Entry, D!special2inst, function, D!decode_special_srl,
     D!decode_special_srlv
<1> QED
  BY <1>2, <1>3

LEMMA OpcodeDecodes ==
  ASSUME NEW w,
         NEW op \in rt_rs_im \cup rs_rt_label \cup rs_label \cup rt_im_rs \cup rt_im \cup j_label,
         w.op = opcode[op], op \in rs_label => w.rt = 0
  PROVE  D!decode(w) = IF op = "BGEZ" THEN "BLTZ" ELSE op
<1>1. CASE op \notin {"BGEZ", "BLTZ"}
  <2>1. D!opcode2inst[opcode[op] + 1] = op
    BY <1>1 DEF D!opcode2inst, opcode, rt_rs_im, rs_rt_label, rs_label, rt_im_rs, rt_im, j_label
  <2>2. op \notin {"OP_SPECIAL", "OP_REGIMM", "OP_COP0", "OP_COP1", "OP_COP2", "OP_COP1X",
                   "OP_SPECIAL2", "OP_SPECIAL3"}
    BY DEF rt_rs_im, rs_rt_label, rs_label, rt_im_rs, rt_im, j_label
  <2> QED
    BY <1>1, <2>1, <2>2 DEF D!decode, D!Entry
<1>2. CASE op \in {"BGEZ", "BLTZ"}
  BY <1>2 DEF D!decode, D!Entry, D!opcode2inst, opcode, D!decode_op_regimm, D!regimm2inst, rs_label
<1> QED
  BY <1>1, <1>2

LEMMA Cp0Decodes ==
  ASSUME NEW w, NEW op \in cp0_none \cup cp0_rt_rd \cup cp0_rd_rt,
         w.op = 16, w.rs = format[op], w.fn = function[op]
  PROVE  D!decode(w) = op
<1>1. D!decode(w) = D!decode_op_cop0(w)
  BY DEF D!decode, D!opcode2inst, D!Entry
<1>2. op = "ERET" \/ op = "WAIT" \/ op = "MFC0" \/ op = "MTC0" \/ op = "RDPGPR" \/ op = "WRPGPR"
  BY DEF cp0_none, cp0_rt_rd, cp0_rd_rt
<1>3. D!decode_op_cop0(w) = op
  BY <1>2 DEF D!decode_op_cop0, D!cop02inst, D!decode_cop0_co, D!cop0_co2inst, format, function
<1> QED
  BY <1>1, <1>3

LEMMA Cp1Decodes ==
  ASSUME NEW w, NEW op \in fd_fs_ft \cup ft_fs \cup fd_fs,
         w.op = 17, w.rs = format[op], w.fn = function[op]
  PROVE  D!decode(w) = MemuName(op)
<1>1. D!decode(w) = D!decode_op_cop1(w)
  BY DEF D!decode, D!opcode2inst, D!Entry
<1>2. CASE op \in {"MFC1", "MTC1"}
  <2>1. D!cop12inst(w.rs) = op
    BY <1>2 DEF D!cop12inst, format
  <2>2. MemuName(op) = op
    BY <1>2 DEF MemuName
  <2> QED
    BY <1>1, <1>2, <2>1, <2>2 DEF D!decode_op_cop1
<1>3. CASE op = "CVT_S_W"
  BY <1>1, <1>3 DEF D!decode_op_cop1, D!cop12inst, D!decode_cop1_w_l, D!cop1_w_l2inst, format, function, MemuName
<1>4. CASE op \in {"ADD_S", "CVT_W_S", "DIV_S", "MUL_S", "SUB_S", "MOV_S"}
  <2>1. w.rs = 16
    BY <1>4 DEF format
  <2>2. D!decode_op_cop1(w) = D!decode_cop1_fmt(D!cop1_s2inst, w)
    BY <2>1 DEF D!decode_op_cop1, D!cop12inst
  <2>3. D!cop1_s2inst[function[op] + 1] = MemuName(op) 
    BY <1>4 DEF D!cop1_s2inst, function, MemuName
  <2>4. MemuName(op) # "COP1_MOVCF"
    BY <1>4 DEF MemuName
  <2> QED
    BY <1>1, <2>2, <2>3, <2>4 DEF D!decode_cop1_fmt, D!Entry
<1> QED
  BY <1>2, <1>3, <1>4 DEF fd_fs_ft, ft_fs, fd_fs

(* Sixteen bits and 26 bits, put together from their fields.               *)
LEMMA HalvesRange ==
  ASSUME NEW v
  PROVE  v \in Halves <=> v \in Nat /\ v < 65536
BY DEF Halves

LEMMA HalfFields ==
  ASSUME NEW v \in Halves
  PROVE  ((v \div 2048) * 32 + ((v \div 64) % 32)) * 64 + (v % 64) = v
<1>1. v \in Nat /\ v < 65536
  BY HalvesRange
<1> QED
  BY SMT, <1>1

LEMMA TargetFields ==
  ASSUME NEW v \in Nat, v < 67108864
  PROVE  ((v \div 2097152) * 32 + ((v \div 65536) % 32)) * 65536
           + ((((v \div 2048) % 32) * 32 + ((v \div 64) % 32)) * 64 + (v % 64)) = v
<1>1. (v \div 2097152) * 32 + ((v \div 65536) % 32) = v \div 65536
  BY SMT
<1>2. (((v \div 2048) % 32) * 32 + ((v \div 64) % 32)) * 64 + (v % 64) = v % 65536
  BY SMT
<1>3. (v \div 65536) * 65536 + (v % 65536) = v
  BY SMT
<1> QED
  BY SMT, <1>1, <1>2, <1>3

(* The fields of the word of an instruction with an immediate.             *)
LEMMA ITypeFields ==
  ASSUME NEW op, NEW rs, NEW rt, NEW im, im \in Int
  PROVE  /\ IType(op, rs, rt, im).op = opcode[op]
         /\ IType(op, rs, rt, im).rs = rs /\ IType(op, rs, rt, im).rt = rt
         /\ D!Imm(IType(op, rs, rt, im)) = im % 65536
<1>1. im % 65536 \in Nat /\ im % 65536 < 65536
  BY SMT
<1>2. im % 65536 \in Halves
  BY <1>1, HalvesRange
<1> QED
  BY SMT, <1>2, HalfFields DEF IType, PutLow16, D!Imm

(* The same of one whose immediate is filled in later.                     *)
LEMMA PatchedFields ==
  ASSUME NEW op, NEW rs, NEW rt, NEW im, NEW v, im \in Int, v \in Halves
  PROVE  /\ PutLow16(IType(op, rs, rt, im), v).op = opcode[op]
         /\ PutLow16(IType(op, rs, rt, im), v).rs = rs
         /\ PutLow16(IType(op, rs, rt, im), v).rt = rt
         /\ D!Imm(PutLow16(IType(op, rs, rt, im), v)) = v
BY SMT, HalfFields DEF IType, PutLow16, D!Imm

(* The word of a jump once its target is filled in.                        *)
LEMMA JTypeFields ==
  ASSUME NEW op, NEW v, v \in Nat, v < 67108864
  PROVE  /\ PutLow26(JType(op), v).op = opcode[op]
         /\ D!Target(PutLow26(JType(op), v)) = v
BY SMT, TargetFields DEF PutLow26, JType, D!Target, D!Imm

(* Sixteen bits of n read as a signed number are n if it fits.             *)
LEMMA SignedHalf ==
  ASSUME NEW n \in Int
  PROVE  /\ n % 65536 \in Halves
         /\ SignExtend16(n % 65536) = n <=> -32768 <= n /\ n < 32768
         /\ n % 65536 = Low16(n) <=> FitsLow16(n)
<1> DEFINE u == n % 65536
<1>1. u \in Nat /\ u < 65536 /\ \E q \in Int : n = 65536 * q + u
  BY SMT
<1>2. u \in Halves
  BY <1>1, HalvesRange
<1> HIDE DEF u
<1>3. SignExtend16(u) = n <=> -32768 <= n /\ n < 32768
  BY SMT, <1>1 DEF SignExtend16
<1>4. u = Low16(n) <=> FitsLow16(n)
  BY SMT, <1>1 DEF Low16, FitsLow16
<1> QED
  BY <1>2, <1>3, <1>4 DEF u

(* An instruction that neither uses a label nor loads a constant is one    *)
(* word, which is the instruction of the source with its operands, if its  *)
(* immediate is not cut; the processor runs it as such if it has a         *)
(* function for it that reads all of these.                                *)
LEMMA PlainMeans ==
  ASSUME NEW l, WellFormed(l), NEW at, NEW ws, ws[1] = Words(l)[1],
         l.op \in Instructions,
         l.op \notin rs_rt_label \cup rs_label \cup j_label \cup {"BLT", "LI", "LLA"}
  PROVE  Means(l, at, ws) <=> /\ ImmediateFits(l) /\ MemuName(l.op) \in Implemented
                              /\ l.op = "JALR" => l.args[1] = RA
<1> DEFINE w == ws[1]
           a == l.args
<1> USE DEF rd_rs_rt, none, rs_rt, rd_rs, rs_only, rd_only, rd_rt_sa,
     rd_rt_rs, rt_rs_im, rs_rt_label, rs_label, rt_im_rs, rt_im, j_label, cp0_none,
     cp0_rt_rd, cp0_rd_rt, fd_fs_ft, ft_fs, fd_fs
<1>1. Means(l, at, ws) <=> /\ D!decode(w) = MemuName(l.op) /\ D!decode(w) \in Implemented
                           /\ OperandsRead(l.op, w, at) = Operands(l)
  BY DEF Means
<1>2. w = Words(l)[1]
  OBVIOUS
<1> DEFINE goal == Means(l, at, ws) <=> /\ ImmediateFits(l) /\ MemuName(l.op) \in Implemented
                                        /\ l.op = "JALR" => l.args[1] = RA
<1>0. ASSUME D!decode(w) = MemuName(l.op), l.op # "JALR",
             OperandsRead(l.op, w, at) = Operands(l) <=> ImmediateFits(l)
      PROVE  goal
  BY <1>0, <1>1
<1> HIDE DEF w
<1>3. CASE l.op \in rd_rs_rt
  <2>1. w = RType(l.op, a[2], a[3], a[1], 0) /\ a \in Registers \X Registers \X Registers
    BY <1>2, <1>3 DEF Words, WellFormed
  <2>2. D!decode(w) = MemuName(l.op)
    BY <1>3, <2>1, SpecialDecodes DEF RType, MemuName
  <2>3. OperandsRead(l.op, w, at) = Operands(l) /\ ImmediateFits(l)
    BY <1>3, <2>1, SMTT(30) DEF OperandsRead, RType, Operands, ImmediateFits
  <2> QED
    BY <1>3, <2>2, <2>3, <1>0
<1>4. CASE l.op \in none
  <2>1. w = RType(l.op, REG_NULL, REG_NULL, REG_NULL, 0) /\ a = <<>>
    BY <1>2, <1>4 DEF Words, WellFormed
  <2>2. D!decode(w) = MemuName(l.op)
    BY <1>4, <2>1, SpecialDecodes DEF RType, MemuName
  <2>3. OperandsRead(l.op, w, at) = Operands(l) /\ ImmediateFits(l)
    BY <1>4, <2>1, SMTT(30) DEF OperandsRead, RType, Operands, ImmediateFits
  <2> QED
    BY <1>4, <2>2, <2>3, <1>0
<1>5. CASE l.op \in rs_rt
  <2>1. w = RType(l.op, a[1], a[2], REG_NULL, 0) /\ a \in Registers \X Registers
    BY <1>2, <1>5 DEF Words, WellFormed
  <2>2. D!decode(w) = MemuName(l.op)
    BY <1>5, <2>1, SpecialDecodes DEF RType, MemuName
  <2>3. OperandsRead(l.op, w, at) = Operands(l) /\ ImmediateFits(l)
    BY <1>5, <2>1, SMTT(30) DEF OperandsRead, RType, Operands, ImmediateFits
  <2> QED
    BY <1>5, <2>2, <2>3, <1>0
<1>6. CASE l.op \in rd_rs
  <2>1. w = RType(l.op, a[2], REG_NULL, a[1], 0) /\ a \in Registers \X Registers
    BY <1>2, <1>6 DEF Words, WellFormed
  <2>2. D!decode(w) = MemuName(l.op)
    BY <1>6, <2>1, SpecialDecodes DEF RType, MemuName
  <2>3. OperandsRead(l.op, w, at) = <<RA, a[2]>> /\ Operands(l) = <<a[1], a[2]>>
    BY <1>6, <2>1 DEF OperandsRead, RType, Operands
  <2> QED
    BY <1>1, <1>6, <2>2, <2>3 DEF ImmediateFits
<1>7. CASE l.op \in rs_only
  <2>1. w = RType(l.op, a[1], REG_NULL, REG_NULL, 0) /\ \E r \in Registers : a = <<r>>
    BY <1>2, <1>7 DEF Words, WellFormed
  <2>2. D!decode(w) = MemuName(l.op)
    BY <1>7, <2>1, SpecialDecodes DEF RType, MemuName
  <2>3. OperandsRead(l.op, w, at) = Operands(l) /\ ImmediateFits(l)
    BY <1>7, <2>1, SMTT(30) DEF OperandsRead, RType, Operands, ImmediateFits
  <2> QED
    BY <1>7, <2>2, <2>3, <1>0
<1>8. CASE l.op \in rd_only
  <2>1. w = RType(l.op, REG_NULL, REG_NULL, a[1], 0) /\ \E r \in Registers : a = <<r>>
    BY <1>2, <1>8 DEF Words, WellFormed
  <2>2. D!decode(w) = MemuName(l.op)
    BY <1>8, <2>1, SpecialDecodes DEF RType, MemuName
  <2>3. OperandsRead(l.op, w, at) = Operands(l) /\ ImmediateFits(l)
    BY <1>8, <2>1, SMTT(30) DEF OperandsRead, RType, Operands, ImmediateFits
  <2> QED
    BY <1>8, <2>2, <2>3, <1>0
<1>9. CASE l.op \in rd_rt_sa
  <2>1. w = RType(l.op, REG_NULL, a[2], a[1], a[3])
    BY <1>2, <1>9 DEF Words
  <2>2. a \in Registers \X Registers \X Int
    BY <1>9 DEF WellFormed
  <2>3. D!decode(w) = MemuName(l.op)
    BY <1>9, <2>1, SpecialDecodes DEF RType, MemuName, REG_NULL
  <2>4. OperandsRead(l.op, w, at) = <<a[1], a[2], a[3] % 32>>
    BY <1>9, <2>1, <2>2 DEF OperandsRead, RType
  <2>5. Operands(l) = a /\ (ImmediateFits(l) <=> 0 <= a[3] /\ a[3] < 32)
    BY <1>9 DEF Operands, ImmediateFits
  <2>6. a[3] % 32 = a[3] <=> 0 <= a[3] /\ a[3] < 32
    BY <2>2
  <2> QED
    BY <1>0, <1>9, <2>2, <2>3, <2>4, <2>5, <2>6
<1>10. CASE l.op \in rd_rt_rs
  <2>1. w = RType(l.op, a[3], a[2], a[1], 0) /\ a \in Registers \X Registers \X Registers
    BY <1>2, <1>10 DEF Words, WellFormed
  <2>2. D!decode(w) = MemuName(l.op)
    BY <1>10, <2>1, SpecialDecodes DEF RType, MemuName
  <2>3. OperandsRead(l.op, w, at) = Operands(l) /\ ImmediateFits(l)
    BY <1>10, <2>1, SMTT(30) DEF OperandsRead, RType, Operands, ImmediateFits
  <2> QED
    BY <1>10, <2>2, <2>3, <1>0
<1>11. CASE l.op \in cp0_none
  <2>1. w = Cp0(l.op, REG_NULL, REG_NULL) /\ a = <<>>
    BY <1>2, <1>11 DEF Words, WellFormed
  <2>2. D!decode(w) = MemuName(l.op)
    BY <1>11, <2>1, Cp0Decodes DEF Cp0, MemuName
  <2>3. OperandsRead(l.op, w, at) = Operands(l) /\ ImmediateFits(l)
    BY <1>11, <2>1, SMTT(30) DEF OperandsRead, Cp0, Operands, ImmediateFits
  <2> QED
    BY <1>11, <2>2, <2>3, <1>0
<1>12. CASE l.op \in cp0_rt_rd
  <2>1. w = Cp0(l.op, a[1], a[2]) /\ a \in Registers \X Registers
    BY <1>2, <1>12 DEF Words, WellFormed
  <2>2. D!decode(w) = MemuName(l.op)
    BY <1>12, <2>1, Cp0Decodes DEF Cp0, MemuName
  <2>3. OperandsRead(l.op, w, at) = Operands(l) /\ ImmediateFits(l)
    BY <1>12, <2>1, SMTT(30) DEF OperandsRead, Cp0, Operands, ImmediateFits
  <2> QED
    BY <1>12, <2>2, <2>3, <1>0
<1>13. CASE l.op \in cp0_rd_rt
  <2>1. w = Cp0(l.op, a[2], a[1]) /\ a \in Registers \X Registers
    BY <1>2, <1>13 DEF Words, WellFormed
  <2>2. D!decode(w) = MemuName(l.op)
    BY <1>13, <2>1, Cp0Decodes DEF Cp0, MemuName
  <2>3. OperandsRead(l.op, w, at) = Operands(l) /\ ImmediateFits(l)
    BY <1>13, <2>1, SMTT(30) DEF OperandsRead, Cp0, Operands, ImmediateFits
  <2> QED
    BY <1>13, <2>2, <2>3, <1>0
<1>14. CASE l.op \in fd_fs_ft
  <2>1. w = Cp1(l.op, a[3], a[2], a[1]) /\ a \in Registers \X Registers \X Registers
    BY <1>2, <1>14 DEF Words, WellFormed
  <2>2. D!decode(w) = MemuName(l.op)
    BY <1>14, <2>1, Cp1Decodes DEF Cp1
  <2>3. OperandsRead(l.op, w, at) = Operands(l) /\ ImmediateFits(l)
    BY <1>14, <2>1, SMTT(30) DEF OperandsRead, Cp1, Operands, ImmediateFits
  <2> QED
    BY <1>14, <2>2, <2>3, <1>0
<1>15. CASE l.op \in ft_fs
  <2>1. w = Cp1(l.op, a[1], a[2], REG_NULL) /\ a \in Registers \X Registers
    BY <1>2, <1>15 DEF Words, WellFormed
  <2>2. D!decode(w) = MemuName(l.op)
    BY <1>15, <2>1, Cp1Decodes DEF Cp1
  <2>3. OperandsRead(l.op, w, at) = Operands(l) /\ ImmediateFits(l)
    BY <1>15, <2>1, SMTT(30) DEF OperandsRead, Cp1, Operands, ImmediateFits
  <2> QED
    BY <1>15, <2>2, <2>3, <1>0
<1>16. CASE l.op \in fd_fs
  <2>1. w = Cp1(l.op, REG_NULL, a[2], a[1]) /\ a \in Registers \X Registers
    BY <1>2, <1>16 DEF Words, WellFormed
  <2>2. D!decode(w) = MemuName(l.op)
    BY <1>16, <2>1, Cp1Decodes DEF Cp1
  <2>3. OperandsRead(l.op, w, at) = Operands(l) /\ ImmediateFits(l)
    BY <1>16, <2>1, SMTT(30) DEF OperandsRead, Cp1, Operands, ImmediateFits
  <2> QED
    BY <1>16, <2>2, <2>3, <1>0
<1>17. CASE l.op = "MOVE"
  <2>1. w = RType("OR", a[2], 0, a[1], 0) /\ a \in Registers \X Registers
    BY <1>2, <1>17 DEF Words, WellFormed
  <2>2. D!decode(w) = MemuName(l.op)
    BY <1>17, <2>1, SpecialDecodes DEF RType, MemuName
  <2>3. OperandsRead(l.op, w, at) = Operands(l) /\ ImmediateFits(l)
    BY <1>17, <2>1, SMTT(30) DEF OperandsRead, RType, Operands, ImmediateFits
  <2> QED
    BY <1>17, <2>2, <2>3, <1>0
<1>18. CASE l.op = "NOP"
  <2>1. w = RType("SLL", REG_NULL, 0, 0, 0) /\ a = <<>>
    BY <1>2, <1>18 DEF Words, WellFormed
  <2>2. D!decode(w) = MemuName(l.op)
    BY <1>18, <2>1, SpecialDecodes DEF RType, MemuName
  <2>3. OperandsRead(l.op, w, at) = Operands(l) /\ ImmediateFits(l)
    BY <1>18, <2>1, SMTT(30) DEF OperandsRead, RType, Operands, ImmediateFits
  <2> QED
    BY <1>18, <2>2, <2>3, <1>0
<1>19. CASE l.op \in rt_rs_im
  <2>1. w = IType(l.op, a[2], a[1], a[3])
    BY <1>2, <1>19 DEF Words
  <2>2. a \in Registers \X Registers \X Int /\ a[3] \in Int
    BY <1>19 DEF WellFormed
  <2>3. w.op = opcode[l.op] /\ w.rs = a[2] /\ w.rt = a[1] /\ D!Imm(w) = a[3] % 65536
    BY <2>1, <2>2, ITypeFields
  <2>4. D!decode(w) = l.op
    BY <1>19, <2>3, OpcodeDecodes
  <2>5. MemuName(l.op) = l.op
    BY <1>19 DEF MemuName
  <2>6. OperandsRead(l.op, w, at) = <<a[1], a[2], D!Imm(w)>>
    BY <1>19, <2>3 DEF OperandsRead
  <2>7. Operands(l) = <<a[1], a[2], Low16(a[3])>>
    BY <1>19 DEF Operands
  <2>8. ImmediateFits(l) <=> FitsLow16(a[3])
    BY <1>19 DEF ImmediateFits
  <2>9. a[3] % 65536 = Low16(a[3]) <=> FitsLow16(a[3])
    BY <2>2, SignedHalf
  <2> QED
    BY <1>0, <1>19, <2>3, <2>4, <2>5, <2>6, <2>7, <2>8, <2>9
<1>20. CASE l.op \in rt_im_rs
  <2>1. w = IType(l.op, a[3], a[1], a[2])
    BY <1>2, <1>20 DEF Words
  <2>2. a \in Registers \X Int \X Registers /\ a[2] \in Int
    BY <1>20 DEF WellFormed
  <2>3. w.op = opcode[l.op] /\ w.rs = a[3] /\ w.rt = a[1] /\ D!Imm(w) = a[2] % 65536
    BY <2>1, <2>2, ITypeFields
  <2>4. D!decode(w) = l.op
    BY <1>20, <2>3, OpcodeDecodes
  <2>5. MemuName(l.op) = l.op
    BY <1>20 DEF MemuName
  <2>6. OperandsRead(l.op, w, at) = <<a[1], D!Imm(w), a[3]>>
    BY <1>20, <2>3 DEF OperandsRead
  <2>7. Operands(l) = <<a[1], Low16(a[2]), a[3]>>
    BY <1>20 DEF Operands
  <2>8. ImmediateFits(l) <=> FitsLow16(a[2])
    BY <1>20 DEF ImmediateFits
  <2>9. a[2] % 65536 = Low16(a[2]) <=> FitsLow16(a[2])
    BY <2>2, SignedHalf
  <2> QED
    BY <1>0, <1>20, <2>3, <2>4, <2>5, <2>6, <2>7, <2>8, <2>9
<1>21. CASE l.op \in rt_im
  <2>1. w = IType(l.op, REG_NULL, a[1], a[2])
    BY <1>2, <1>21 DEF Words
  <2>2. a \in Registers \X Int /\ a[2] \in Int
    BY <1>21 DEF WellFormed
  <2>3. w.op = opcode[l.op] /\ w.rs = REG_NULL /\ w.rt = a[1] /\ D!Imm(w) = a[2] % 65536
    BY <2>1, <2>2, ITypeFields
  <2>4. D!decode(w) = l.op
    BY <1>21, <2>3, OpcodeDecodes
  <2>5. MemuName(l.op) = l.op
    BY <1>21 DEF MemuName
  <2>6. OperandsRead(l.op, w, at) = <<a[1], D!Imm(w)>>
    BY <1>21, <2>3 DEF OperandsRead
  <2>7. Operands(l) = <<a[1], Low16(a[2])>>
    BY <1>21 DEF Operands
  <2>8. ImmediateFits(l) <=> FitsLow16(a[2])
    BY <1>21 DEF ImmediateFits
  <2>9. a[2] % 65536 = Low16(a[2]) <=> FitsLow16(a[2])
    BY <2>2, SignedHalf
  <2> QED
    BY <1>0, <1>21, <2>3, <2>4, <2>5, <2>6, <2>7, <2>8, <2>9
<1> QED
  BY <1>3, <1>4, <1>5, <1>6, <1>7, <1>8, <1>9, <1>10, <1>11, <1>12, <1>13, <1>14,
     <1>15, <1>16, <1>17, <1>18, <1>19, <1>20, <1>21 DEF Instructions, pseudo

(* A branch whose distance is filled in goes to its label if the distance  *)
(* fits; bgez has become bltz.                                             *)
LEMMA BranchMeans ==
  ASSUME NEW l, NEW at, NEW ws, WellFormed(l), l.op \in rs_rt_label \cup rs_label,
         at \in Int, LabelAddr(l) \in Int, (LabelAddr(l) - at) % 4 = 0,
         ws[1] = PutLow16(Words(l)[1], ((LabelAddr(l) - at - 4) \div 4) % 65536)
  PROVE  Means(l, at, ws) <=> l.op # "BGEZ" /\ InRange(l, at) /\ l.op \in Implemented
<1> DEFINE w == ws[1]
           a == l.args
           t == LabelAddr(l)
           d == (t - at - 4) \div 4
<1> USE DEF rd_rs_rt, none, rs_rt, rd_rs, rs_only, rd_only, rd_rt_sa,
     rd_rt_rs, rt_rs_im, rs_rt_label, rs_label, rt_im_rs, rt_im, j_label, cp0_none,
     cp0_rt_rd, cp0_rd_rt, fd_fs_ft, ft_fs, fd_fs
<1>1. Means(l, at, ws) <=> /\ D!decode(w) = MemuName(l.op) /\ D!decode(w) \in Implemented
                           /\ OperandsRead(l.op, w, at) = Operands(l)
  BY DEF Means
<1>2. w = PutLow16(Words(l)[1], d % 65536)
  OBVIOUS
<1>3. InRange(l, at) <=> -32768 <= d /\ d < 32768
  BY DEF InRange
<1>4. d \in Int /\ t = at + 4 + 4 * d
  <2>1. \A n \in Int : (n - at) % 4 = 0 => n = at + 4 + 4 * ((n - at - 4) \div 4)
    BY SMT
  <2> QED
    BY <2>1
<1> HIDE DEF w, t, d
<1>5. d % 65536 \in Halves /\ (SignExtend16(d % 65536) = d <=> -32768 <= d /\ d < 32768)
  BY <1>4, SignedHalf
<1>6. SignExtend16(d % 65536) \in Int
  BY <1>5, HalvesRange DEF SignExtend16
<1>7. MemuName(l.op) = l.op
  BY DEF MemuName
<1>8. CASE l.op \in rs_rt_label
  <2>1. Words(l)[1] = IType(l.op, a[1], a[2], 0)
    BY <1>8 DEF Words
  <2>2. a \in Registers \X Registers
    BY <1>8 DEF WellFormed
  <2>3. w.op = opcode[l.op] /\ w.rs = a[1] /\ w.rt = a[2] /\ D!Imm(w) = d % 65536
    BY <1>2, <1>5, <2>1, PatchedFields
  <2>4. D!decode(w) = l.op
    BY <1>8, <2>3, OpcodeDecodes
  <2>5. OperandsRead(l.op, w, at) = <<a[1], a[2], branch_target(w, at)>>
    BY <1>8, <2>3, SMTT(30) DEF OperandsRead
  <2>6. Operands(l) = <<a[1], a[2], t>>
    BY <1>8 DEF Operands, t
  <2>7. branch_target(w, at) = at + 4 + 4 * SignExtend16(d % 65536)
    BY <2>3 DEF branch_target
  <2>8. branch_target(w, at) = t <=> SignExtend16(d % 65536) = d
    BY <1>4, <1>6, <2>7
  <2> QED
    BY <1>1, <1>3, <1>5, <1>7, <1>8, <2>4, <2>5, <2>6, <2>8
<1>9. CASE l.op \in rs_label
  <2>1. Words(l)[1] = IType(l.op, a[1], REG_NULL, 0)
    BY <1>9 DEF Words
  <2>2. PICK r \in Registers : a = <<r>>
    BY <1>9, SMTT(30) DEF WellFormed
  <2>3. w.op = opcode[l.op] /\ w.rs = a[1] /\ w.rt = REG_NULL /\ D!Imm(w) = d % 65536
    BY <1>2, <1>5, <2>1, PatchedFields
  <2>4. D!decode(w) = IF l.op = "BGEZ" THEN "BLTZ" ELSE l.op
    BY <1>9, <2>3, OpcodeDecodes DEF REG_NULL
  <2>5. OperandsRead(l.op, w, at) = <<a[1], branch_target(w, at)>>
    BY <1>9, <2>3 DEF OperandsRead
  <2>6. Operands(l) = <<a[1], t>>
    BY <1>9 DEF Operands, t
  <2>7. branch_target(w, at) = at + 4 + 4 * SignExtend16(d % 65536)
    BY <2>3 DEF branch_target
  <2>8. branch_target(w, at) = t <=> SignExtend16(d % 65536) = d
    BY <1>4, <1>6, <2>7
  <2> QED
    BY <1>1, <1>3, <1>5, <1>7, <1>9, <2>4, <2>5, <2>6, <2>8
<1> QED
  BY <1>8, <1>9

(* A jump goes to its label if that is below 2^28.                         *)
LEMMA JumpMeans ==
  ASSUME NEW l, WellFormed(l), l.op \in j_label, NEW at,
         LabelAddr(l) \in Nat, LabelAddr(l) % 4 = 0, LabelAddr(l) < 268435456, NEW ws,
         ws[1] = PutLow26(Words(l)[1], (LabelAddr(l) \div 4) % 67108864)
  PROVE  Means(l, at, ws)
<1> DEFINE w == ws[1]
           t == LabelAddr(l)
           v == (t \div 4) % 67108864
<1> USE DEF rd_rs_rt, none, rs_rt, rd_rs, rs_only, rd_only, rd_rt_sa,
     rd_rt_rs, rt_rs_im, rs_rt_label, rs_label, rt_im_rs, rt_im, j_label, cp0_none,
     cp0_rt_rd, cp0_rd_rt, fd_fs_ft, ft_fs, fd_fs
<1>1. Means(l, at, ws) <=> /\ D!decode(w) = MemuName(l.op) /\ D!decode(w) \in Implemented
                           /\ OperandsRead(l.op, w, at) = Operands(l)
  BY DEF Means
<1>2. Words(l)[1] = JType(l.op) /\ l.args = <<>>
  BY SMTT(30) DEF Words, WellFormed
<1>3. v \in Nat /\ v < 67108864 /\ t = 4 * v
  <2>1. \A n \in Nat : n % 4 = 0 /\ n < 268435456 =>
          (n \div 4) % 67108864 = n \div 4 /\ n = 4 * (n \div 4) /\ n \div 4 \in Nat
            /\ n \div 4 < 67108864
    BY SMT
  <2> QED
    BY SMT, <2>1
<1>4. w = PutLow26(JType(l.op), v)
  BY <1>2
<1> HIDE DEF w, t, v
<1>5. w.op = opcode[l.op] /\ D!Target(w) = v
  BY <1>3, <1>4, JTypeFields
<1>6. D!decode(w) = l.op
  BY <1>5, OpcodeDecodes
<1>7. MemuName(l.op) = l.op
  BY DEF MemuName
<1>8. OperandsRead(l.op, w, at) = <<t>>
  BY <1>3, <1>5 DEF OperandsRead, jump_target
<1>9. Operands(l) = <<t>>
  BY <1>2 DEF Operands, t
<1>10. l.op \in Implemented
  BY DEF Implemented
<1> QED
  BY <1>1, <1>6, <1>7, <1>8, <1>9, <1>10

(* The first word of blt is sltu, and the second, meant to be bgez, is     *)
(* bltz: it branches where bge would.                                      *)
LEMMA BltMeans ==
  ASSUME NEW l, l.op = "BLT", NEW at, NEW ws, ws[1] = Words(l)[1]
  PROVE  ~Means(l, at, ws)
<1> USE DEF rd_rs_rt, none, rs_rt, rd_rs, rs_only, rd_only, rd_rt_sa,
     rd_rt_rs, rt_rs_im, rs_rt_label, rs_label, rt_im_rs, rt_im, j_label, cp0_none,
     cp0_rt_rd, cp0_rd_rt, fd_fs_ft, ft_fs, fd_fs
<1>1. ws[1] = RType("SLTU", l.args[1], l.args[2], REG_AT, 0)
  BY DEF Words
<1>2. D!decode(ws[1]) = "SLTU"
  BY <1>1, SpecialDecodes DEF RType
<1>3. MemuName(l.op) = "BLT"
  BY DEF MemuName
<1> QED
  BY <1>2, <1>3 DEF Means

(* What lui and ori, or addiu, leave in a register.                        *)
LEMMA PairLoads ==
  ASSUME NEW r, NEW ws, Len(ws) = 2,
         ws[1].op = opcode["LUI"], ws[1].rt = r,
         ws[2].op = opcode["ORI"], ws[2].rs = r, ws[2].rt = r
  PROVE  Loads(r, ws) = <<D!Imm(ws[1]), D!Imm(ws[2])>>
<1>1. D!decode(ws[1]) = "LUI" /\ D!decode(ws[2]) = "ORI"
  BY OpcodeDecodes DEF rt_im, rt_rs_im, rs_label
<1> QED
  BY <1>1 DEF Loads

LEMMA LiMeans ==
  ASSUME NEW l, WellFormed(l), l.op = "LI", NEW at, NEW ws,
         Len(ws) = Len(Words(l)), \A k \in 1..Len(Words(l)) : ws[k] = Words(l)[k]
  PROVE  Means(l, at, ws) <=> ~(l.args[2][1] = 0 /\ l.args[2][2] >= 32768)
<1> USE DEF rd_rs_rt, none, rs_rt, rd_rs, rs_only, rd_only, rd_rt_sa,
     rd_rt_rs, rt_rs_im, rs_rt_label, rs_label, rt_im_rs, rt_im, j_label, cp0_none,
     cp0_rt_rd, cp0_rd_rt, fd_fs_ft, ft_fs, fd_fs
<1> DEFINE r == l.args[1]
           v == l.args[2]
<1>1. v = <<v[1], v[2]>> /\ v[1] \in Halves /\ v[2] \in Halves
  BY DEF WellFormed
<1>2. v[1] \in Nat /\ v[2] \in Nat /\ v[1] % 65536 = v[1] /\ v[2] % 65536 = v[2] /\ v[2] < 65536
  <2>1. v[1] \in Nat /\ v[2] \in Nat /\ v[1] < 65536 /\ v[2] < 65536
    BY <1>1, HalvesRange
  <2>2. \A n \in Nat : n < 65536 => n % 65536 = n
    BY SMT
  <2> QED
    BY <2>1, <2>2
<1>3. Means(l, at, ws) <=> Loads(r, ws) = v
  BY DEF Means
<1>4. Words(l) = LoadImmediate(r, v)
  BY DEF Words
<1> HIDE DEF r, v
<1>5. CASE v[1] # 0
  <2>1. Len(ws) = 2 /\ ws[1] = IType("LUI", 0, r, v[1]) /\ ws[2] = IType("ORI", r, r, v[2])
    BY <1>4, <1>5 DEF LoadImmediate
  <2>2. /\ ws[1].op = opcode["LUI"] /\ ws[1].rt = r /\ D!Imm(ws[1]) = v[1]
        /\ ws[2].op = opcode["ORI"] /\ ws[2].rs = r /\ ws[2].rt = r /\ D!Imm(ws[2]) = v[2]
    BY <1>2, <2>1, ITypeFields
  <2>3. Loads(r, ws) = <<v[1], v[2]>>
    BY <2>1, <2>2, PairLoads
  <2> QED
    BY <1>1, <1>3, <1>5, <2>3 DEF v
<1>6. CASE v[1] = 0
  <2>1. Len(ws) = 1 /\ ws[1] = IType("ADDIU", 0, r, v[2])
    BY <1>4, <1>6 DEF LoadImmediate
  <2>2. ws[1].op = opcode["ADDIU"] /\ ws[1].rs = 0 /\ ws[1].rt = r /\ D!Imm(ws[1]) = v[2]
    BY <1>2, <2>1, ITypeFields
  <2>3. D!decode(ws[1]) = "ADDIU"
    BY <2>2, OpcodeDecodes
  <2>4. Loads(r, ws) = <<IF v[2] < 32768 THEN 0 ELSE 65535, v[2]>>
    BY <2>1, <2>2, <2>3 DEF Loads
  <2>5. Loads(r, ws) = v <=> v[2] < 32768
    BY SMT, <1>1, <1>2, <1>6, <2>4
  <2> QED
    BY SMT, <1>2, <1>3, <1>6, <2>5 DEF v
<1> QED
  BY <1>5, <1>6

LEMMA LlaMeans ==
  ASSUME NEW l, WellFormed(l), l.op = "LLA", NEW at, NEW ws, Len(ws) = 2,
         LabelAddr(l) \in Nat, LabelAddr(l) < 268435456,
         ws[1] = PutLow16(Words(l)[1], (LabelAddr(l) \div 65536) % 65536),
         ws[2] = PutLow16(Words(l)[2], LabelAddr(l) % 65536)
  PROVE  Means(l, at, ws)
<1> USE DEF rd_rs_rt, none, rs_rt, rd_rs, rs_only, rd_only, rd_rt_sa,
     rd_rt_rs, rt_rs_im, rs_rt_label, rs_label, rt_im_rs, rt_im, j_label, cp0_none,
     cp0_rt_rd, cp0_rd_rt, fd_fs_ft, ft_fs, fd_fs
<1> DEFINE r == l.args[1]
           t == LabelAddr(l)
<1>1. Means(l, at, ws) <=> Loads(r, ws) = <<t \div 65536, t % 65536>>
  BY DEF Means
<1>2. Words(l)[1] = IType("LUI", 0, r, 0) /\ Words(l)[2] = IType("ORI", r, r, 0)
  BY DEF Words
<1>3. /\ t % 65536 \in Nat /\ t % 65536 < 65536
      /\ (t \div 65536) % 65536 = t \div 65536
      /\ t \div 65536 \in Nat /\ t \div 65536 < 65536
  <2>1. \A n \in Nat : n < 268435456 =>
           /\ n % 65536 \in Nat /\ n % 65536 < 65536
           /\ (n \div 65536) % 65536 = n \div 65536
           /\ n \div 65536 \in Nat /\ n \div 65536 < 65536
    BY SMT
  <2> QED
    BY SMT, <2>1
<1> HIDE DEF r, t
<1>4. t % 65536 \in Halves /\ t \div 65536 \in Halves
  BY <1>3, HalvesRange
<1>5. ws[1] = PutLow16(IType("LUI", 0, r, 0), t \div 65536)
      /\ ws[2] = PutLow16(IType("ORI", r, r, 0), t % 65536)
  BY <1>2, <1>3 DEF t
<1>6. /\ ws[1].op = opcode["LUI"] /\ ws[1].rt = r /\ D!Imm(ws[1]) = t \div 65536
      /\ ws[2].op = opcode["ORI"] /\ ws[2].rs = r /\ ws[2].rt = r /\ D!Imm(ws[2]) = t % 65536
  BY <1>4, <1>5, PatchedFields
<1> QED
  BY <1>1, <1>6, PairLoads

(* A set of numbers has a least one.                                       *)
LEMMA LeastNumber ==
  ASSUME NEW T, T \subseteq Nat, T # {}
  PROVE  \E x \in T : \A y \in T : x <= y
<1> DEFINE R == OpToRel(<, Nat)
<1>1. IsWellFoundedOn(R, Nat)
  BY NatLessThanWellFounded, Zenon
<1> HIDE DEF R
<1>2. PICK x \in T : \A y \in T : ~(<<y, x>> \in R)
  BY <1>1, WFMin
<1>3. \A y \in T : y < x => <<y, x>> \in R
  BY DEF R, OpToRel
<1>4. \A y \in T : ~(y < x)
  BY <1>2, <1>3
<1>5. x \in Nat /\ \A y \in T : y \in Nat
  OBVIOUS
<1>6. \A y \in T : x <= y
  BY <1>4, <1>5
<1> QED BY <1>6

-----------------------------------------------------------------------------
(* The addresses of the lines.  The recursive definition has a solution:   *)
(* if it had none for some number of lines, it would have none for a       *)
(* least number, but one line more is one equation more.                   *)
LEMMA LineAddrsSolution ==
  ASSUME NEW s, NEW N \in Nat
  PROVE  \E g : g = [i \in 1..N + 1 |-> IF i = 1 THEN 0 ELSE g[i - 1] + Size(s[i - 1])]
<1> DEFINE Solves(g, n) == g = [i \in 1..n + 1 |-> IF i = 1 THEN 0 ELSE g[i - 1] + Size(s[i - 1])]
           Unsolved == {n \in Nat : ~\E g : Solves(g, n)}
<1>1. 0 \notin Unsolved
  <2> DEFINE g == [i \in 1..1 |-> 0]
  <2>1. Solves(g, 0)
    OBVIOUS
  <2> QED
    BY <2>1
<1>2. ASSUME NEW n \in Nat, n \notin Unsolved PROVE n + 1 \notin Unsolved
  <2>1. PICK g : Solves(g, n)
    BY <1>2
  <2> DEFINE h == [i \in 1..n + 2 |-> IF i = n + 2 THEN g[n + 1] + Size(s[n + 1]) ELSE g[i]]
  <2>2. \A i \in 1..n + 1 : g[i] = IF i = 1 THEN 0 ELSE g[i - 1] + Size(s[i - 1])
    BY <2>1
  <2>3. \A i \in 1..n + 1 : h[i] = g[i]
    OBVIOUS
  <2>4. h[n + 2] = g[n + 1] + Size(s[n + 1])
    OBVIOUS
  <2> HIDE DEF h
  <2>5. \A i \in 1..n + 2 : h[i] = IF i = 1 THEN 0 ELSE h[i - 1] + Size(s[i - 1])
    <3> SUFFICES ASSUME NEW i \in 1..n + 2
                 PROVE  h[i] = IF i = 1 THEN 0 ELSE h[i - 1] + Size(s[i - 1])
      OBVIOUS
    <3>1. CASE i = n + 2
      <4>1. i - 1 = n + 1 /\ i # 1 /\ n + 1 \in 1..n + 1
        BY <3>1
      <4> QED
        BY <2>3, <2>4, <3>1, <4>1
    <3>2. CASE i \in 1..n + 1 /\ i # 1
      <4>1. i - 1 \in 1..n + 1
        BY <3>2
      <4> QED
        BY <2>2, <2>3, <3>2, <4>1
    <3>3. CASE i = 1
      <4>1. 1 \in 1..n + 1
        OBVIOUS
      <4> QED
        BY <2>2, <2>3, <3>3, <4>1
    <3> QED
      BY <3>1, <3>2, <3>3
  <2>6. h = [i \in 1..n + 2 |-> h[i]]
    BY DEF h
  <2>7. Solves(h, n + 1)
    <3>1. (n + 1) + 1 = n + 2
      OBVIOUS
    <3>2. h = [i \in 1..n + 2 |-> IF i = 1 THEN 0 ELSE h[i - 1] + Size(s[i - 1])]
      BY <2>5, <2>6
    <3> QED
      BY <3>1, <3>2
  <2> QED
    BY <2>7
<1>3. Unsolved = {}
  <2> SUFFICES ASSUME Unsolved # {} PROVE FALSE
    OBVIOUS
  <2>1. Unsolved \subseteq Nat
    OBVIOUS
  <2> HIDE DEF Unsolved
  <2>2. PICK m \in Unsolved : \A n \in Unsolved : m <= n
    BY <2>1, LeastNumber
  <2>3. m # 0 /\ m \in Nat
    BY <1>1, <2>1, <2>2
  <2>4. m - 1 \in Nat /\ m - 1 \notin Unsolved
    BY <2>2, <2>3
  <2>5. (m - 1) + 1 \notin Unsolved
    BY <1>2, <2>4
  <2> QED
    BY <2>2, <2>3, <2>5
<1> QED
  BY <1>3

(* So the definition is an equation.                                       *)
LEMMA LineAddrsEquation ==
  ASSUME NEW s, Len(s) \in Nat
  PROVE  \A i \in 1..Len(s) + 1 :
           LineAddrs(s)[i] = IF i = 1 THEN 0 ELSE LineAddrs(s)[i - 1] + Size(s[i - 1])
<1> DEFINE N == Len(s)
           f == LineAddrs(s)
<1>1. \E g : g = [i \in 1..N + 1 |-> IF i = 1 THEN 0 ELSE g[i - 1] + Size(s[i - 1])]
  BY LineAddrsSolution
<1>2. f = CHOOSE g : g = [i \in 1..N + 1 |-> IF i = 1 THEN 0 ELSE g[i - 1] + Size(s[i - 1])]
  BY DEF LineAddrs
<1> HIDE DEF f
<1>3. f = [i \in 1..N + 1 |-> IF i = 1 THEN 0 ELSE f[i - 1] + Size(s[i - 1])]
  BY <1>1, <1>2, Zenon
<1> QED
  BY <1>3 DEF f

-----------------------------------------------------------------------------
(* Where everything is.  The lines parsed follow each other from address   *)
(* 0, a label stands for the address of its declaration, the references    *)
(* are those of the lines, and the words of a line are at its address,     *)
(* with the references filled in once the output is written.               *)
Counted == line <= Len(source) + 1 /\ pcount = LineAddr[line]
Ordered ==
  \A i \in 1..line :
    /\ LineAddr[i] \in Nat /\ LineAddr[i] % 4 = 0
    /\ \A j \in 1..line : i < j => LineAddr[i] + Size(source[i]) <= LineAddr[j]
LabelsAt ==
  \A i \in Parsed(DOMAIN source) :
    source[i].op = "label" => addr[source[i].label] = LineAddr[i]
RefsAt == refs = UNION {References(source[i], LineAddr[i]) : i \in Parsed(DOMAIN source)}

WordAddr(i, k) == LineAddr[i] + 4 * (k - 1)
WordsAt ==
  status # "written" =>
    \A i \in Parsed(DOMAIN source) : source[i].op \in Instructions =>
      \A k \in 1..Len(Words(source[i])) :
        WordAddr(i, k) \in DOMAIN buf /\ buf[WordAddr(i, k)] = Words(source[i])[k]
PatchedAt ==
  status = "written" =>
    \A i \in Parsed(DOMAIN source) : source[i].op \in Instructions =>
      \A k \in 1..Len(Words(source[i])) :
        /\ WordAddr(i, k) \in DOMAIN buf
        /\ \A ref \in References(source[i], LineAddr[i]) :
             ref.addr = WordAddr(i, k) =>
               buf[WordAddr(i, k)] = WriteBack(Words(source[i])[k], ref)
        /\ (\A ref \in References(source[i], LineAddr[i]) : ref.addr # WordAddr(i, k)) =>
             buf[WordAddr(i, k)] = Words(source[i])[k]

LInv == IInv /\ Counted /\ Ordered /\ LabelsAt /\ RefsAt /\ WordsAt /\ PatchedAt

-----------------------------------------------------------------------------
(* A statement takes the room of its words.                                *)
LEMMA SizeOfWords ==
  ASSUME NEW l, l.op \in Instructions
  PROVE  Size(l) = 4 * Len(Words(l)) /\ Len(Words(l)) \in {1, 2}
<1>1. /\ Len(LoadImmediate(l.args[1], l.args[2])) = IF l.args[2][1] # 0 THEN 2 ELSE 1
  BY DEF LoadImmediate
<1> HIDE DEF LoadImmediate
<1>2. Len(Words(l)) \in {1, 2}
  BY WordsCount
<1>3. Size(l) = 4 * Len(Words(l))
  BY <1>1 DEF Size, Words, Instructions, rd_rs_rt, none, rs_rt, rd_rs, rs_only, rd_only, rd_rt_sa,
     rd_rt_rs, rt_rs_im, rs_rt_label, rs_label, rt_im_rs, rt_im, j_label, cp0_none,
     cp0_rt_rd, cp0_rd_rt, fd_fs_ft, ft_fs, fd_fs, pseudo
<1> QED
  BY <1>2, <1>3

(* A reference is to a word of its line, and each word has one at most.    *)
LEMMA ReferencesInLine ==
  ASSUME NEW l, l.op \in Instructions, NEW pc \in Nat
  PROVE  /\ \A ref \in References(l, pc) :
              \E k \in 1..Len(Words(l)) : ref.addr = pc + 4 * (k - 1)
         /\ \A r1, r2 \in References(l, pc) : r1.addr = r2.addr => r1 = r2
<1>1. \A at, mode : Ref(l, at, mode).addr = at
  BY DEF Ref
<1> HIDE DEF Ref
<1>2. Len(Words(l)) \in {1, 2}
  BY WordsCount
<1>3. l.op \in {"BLT", "LLA"} => Len(Words(l)) = 2
  BY DEF Words, rd_rs_rt, none, rs_rt, rd_rs, rs_only, rd_only, rd_rt_sa,
     rd_rt_rs, rt_rs_im, rs_rt_label, rs_label, rt_im_rs, rt_im, j_label, cp0_none,
     cp0_rt_rd, cp0_rd_rt, fd_fs_ft, ft_fs, fd_fs
<1>4. 1 \in 1..Len(Words(l)) /\ (l.op \in {"BLT", "LLA"} => 2 \in 1..Len(Words(l)))
  <2>1. \A n \in {1, 2} : 1 \in 1..n /\ (n = 2 => 2 \in 1..n)
    OBVIOUS
  <2> QED
    BY <1>2, <1>3, <2>1
<1>5. pc + 4 * (1 - 1) = pc /\ pc + 4 * (2 - 1) = pc + 4 /\ pc # pc + 4
  OBVIOUS
<1>6. \A ref \in References(l, pc) :
        ref.addr = pc \/ (l.op \in {"BLT", "LLA"} /\ ref.addr = pc + 4)
  BY <1>1 DEF References, rs_rt_label, rs_label, j_label
<1>7. \A r1, r2 \in References(l, pc) : r1.addr = r2.addr => r1 = r2
  BY <1>1, <1>5 DEF References, rs_rt_label, rs_label, j_label
<1> QED
  BY <1>4, <1>5, <1>6, <1>7

(* The lines of a file are numbered from 1.                                *)
LEMMA SourceLines ==
  ASSUME Typed
  PROVE  /\ DOMAIN source = 1..Len(source) /\ Len(source) \in Nat
         /\ \A i \in DOMAIN source : WellFormed(source[i])
         /\ LineAddr[1] = 0
         /\ \A i \in DOMAIN source : LineAddr[i + 1] = LineAddr[i] + Size(source[i])
<1>1. source \in Seq({source[i] : i \in DOMAIN source})
  BY SourcesAssumption DEF Typed
<1>2. DOMAIN source = 1..Len(source) /\ Len(source) \in Nat
  BY <1>1
<1>3. \A i \in DOMAIN source : WellFormed(source[i])
  BY SourcesAssumption DEF Typed
<1>4. \A i \in 1..Len(source) + 1 :
        LineAddr[i] = IF i = 1 THEN 0 ELSE LineAddr[i - 1] + Size(source[i - 1])
  BY <1>2, LineAddrsEquation DEF LineAddr
<1>5. LineAddr[1] = 0
  BY <1>2, <1>4
<1>6. \A i \in DOMAIN source : LineAddr[i + 1] = LineAddr[i] + Size(source[i])
  <2> SUFFICES ASSUME NEW i \in DOMAIN source
               PROVE  LineAddr[i + 1] = LineAddr[i] + Size(source[i])
    OBVIOUS
  <2>1. i + 1 \in 1..Len(source) + 1 /\ i + 1 # 1 /\ (i + 1) - 1 = i
    BY <1>2
  <2> QED
    BY <1>4, <2>1
<1> QED
  BY <1>2, <1>3, <1>5, <1>6

(* The next line begins where this one ends.                               *)
LEMMA NextLine ==
  ASSUME LInv, line <= Len(source), source' = source, line' = line + 1,
         Size(This) \in Nat, Size(This) % 4 = 0, pcount' = pcount + Size(This)
  PROVE  Counted' /\ Ordered' /\ LineAddr' = LineAddr /\ line \in DOMAIN source
<1>1. LineAddr' = LineAddr
  BY DEF LineAddr
<1>2. /\ DOMAIN source = 1..Len(source) /\ Len(source) \in Nat
      /\ \A i \in DOMAIN source : LineAddr[i + 1] = LineAddr[i] + Size(source[i])
  BY SourceLines DEF LInv, IInv
<1>3. line \in DOMAIN source /\ line \in Nat
  BY <1>2 DEF LInv, IInv, Typed
<1>4. LineAddr[line + 1] = pcount + Size(This)
  BY <1>2, <1>3 DEF LInv, Counted, This
<1>5. Counted'
  BY <1>1, <1>2, <1>3, <1>4 DEF LInv, Counted
<1>6. Ordered'
  <2> DEFINE A(i) == LineAddr[i]
             n == line
  <2>1. /\ \A i \in 1..n : A(i) \in Nat /\ A(i) % 4 = 0
        /\ \A i \in 1..n : \A j \in 1..n : i < j => A(i) + Size(source[i]) <= A(j)
        /\ A(n + 1) = A(n) + Size(source[n])
        /\ Size(source[n]) \in Nat /\ Size(source[n]) % 4 = 0
    BY <1>2, <1>3 DEF LInv, Ordered, This
  <2> HIDE DEF A, n
  <2>2. n \in 1..n /\ n \in Nat
    BY <1>3, <1>2 DEF n
  <2>3. A(n + 1) \in Nat /\ A(n + 1) % 4 = 0 /\ A(n) <= A(n + 1)
    <3>1. \A x, y \in Nat : x % 4 = 0 /\ y % 4 = 0 =>
                              x + y \in Nat /\ (x + y) % 4 = 0 /\ x <= x + y
      OBVIOUS
    <3>2. A(n) \in Nat /\ A(n) % 4 = 0
      BY <2>1, <2>2
    <3> QED
      BY <2>1, <3>1, <3>2
  <2>4. \A i \in 1..n + 1 : A(i) \in Nat /\ A(i) % 4 = 0
    <3> SUFFICES ASSUME NEW i \in 1..n + 1 PROVE A(i) \in Nat /\ A(i) % 4 = 0
      OBVIOUS
    <3>1. i \in 1..n \/ i = n + 1
      BY <2>2
    <3> QED
      BY <2>1, <2>3, <3>1
  <2>5. \A i \in 1..n + 1 : \A j \in 1..n + 1 : i < j => A(i) + Size(source[i]) <= A(j)
    <3> SUFFICES ASSUME NEW i \in 1..n + 1, NEW j \in 1..n + 1, i < j
                 PROVE  A(i) + Size(source[i]) <= A(j)
      OBVIOUS
    <3>1. i \in 1..n
      BY <2>2
    <3>2. CASE j \in 1..n
      BY <2>1, <3>1, <3>2
    <3>3. CASE j = n + 1 /\ i # n
      <4>1. i < n
        BY <2>2, <3>1, <3>3
      <4>2. A(i) + Size(source[i]) <= A(n)
        BY <2>1, <2>2, <3>1, <4>1
      <4>3. A(i) \in Nat /\ A(n) \in Nat /\ A(n + 1) = A(n) + Size(source[n])
        BY <2>1, <2>2, <3>1
      <4>4. LineAddr[i + 1] = A(i) + Size(source[i])
        BY <1>2, <1>3, <3>1 DEF A, n
      <4>5. i + 1 \in 1..n
        BY <2>2, <3>1, <4>1
      <4>6. A(i + 1) \in Nat
        BY <2>1, <4>5
      <4> QED
        BY <2>1, <3>3, <4>2, <4>3, <4>4, <4>6, SMTT(30) DEF A
    <3>4. CASE j = n + 1 /\ i = n
      BY <2>1, <2>3, <3>4
    <3>5. j \in 1..n \/ j = n + 1
      BY <2>2
    <3> QED
      BY <3>2, <3>3, <3>4, <3>5
  <2> QED
    BY <1>1, <2>4, <2>5 DEF Ordered, A, n
<1> QED
  BY <1>1, <1>3, <1>5, <1>6

(* The words of a statement are numbered from 1.                           *)
LEMMA WordsAreSequence ==
  ASSUME NEW l, l.op \in Instructions
  PROVE  DOMAIN Words(l) = 1..Len(Words(l))
<1>1. \A x : DOMAIN <<x>> = 1..Len(<<x>>)
  OBVIOUS
<1>2. \A x, y : DOMAIN <<x, y>> = 1..Len(<<x, y>>)
  OBVIOUS
<1>3. {"LI", "BLT", "LLA"} \cap
       (rd_rs_rt \cup none \cup rs_rt \cup rd_rs \cup rs_only \cup rd_only \cup rd_rt_sa
        \cup rd_rt_rs \cup rt_rs_im \cup rs_rt_label \cup rs_label \cup rt_im_rs
        \cup rt_im \cup j_label \cup cp0_none \cup cp0_rt_rd \cup cp0_rd_rt
        \cup fd_fs_ft \cup ft_fs \cup fd_fs) = {}
  BY DEF rd_rs_rt, none, rs_rt, rd_rs, rs_only, rd_only, rd_rt_sa, rd_rt_rs, rt_rs_im,
     rs_rt_label, rs_label, rt_im_rs, rt_im, j_label, cp0_none, cp0_rt_rd, cp0_rd_rt,
     fd_fs_ft, ft_fs, fd_fs
<1>4. CASE l.op = "LI"
  <2>1. Words(l) = LoadImmediate(l.args[1], l.args[2])
    BY <1>3, <1>4 DEF Words
  <2>2. (\E x : Words(l) = <<x>>) \/ (\E x, y : Words(l) = <<x, y>>)
    BY <2>1 DEF LoadImmediate
  <2>3. CASE \E x : Words(l) = <<x>>
    BY <1>1, <2>3
  <2>4. CASE \E x, y : Words(l) = <<x, y>>
    BY <1>2, <2>4
  <2> QED
    BY <2>2, <2>3, <2>4
<1>5. CASE l.op = "BLT"
  <2>1. Words(l) = <<RType("SLTU", l.args[1], l.args[2], REG_AT, 0),
                     IType("BGEZ", REG_AT, REG_NULL, 0)>>
    BY <1>3, <1>5 DEF Words
  <2> QED
    BY <1>2, <2>1
<1>6. CASE l.op = "LLA"
  <2>1. Words(l) = <<IType("LUI", 0, l.args[1], 0), IType("ORI", l.args[1], l.args[1], 0)>>
    BY <1>3, <1>6 DEF Words
  <2> QED
    BY <1>2, <2>1
<1>7. CASE l.op \notin {"LI", "BLT", "LLA"}
  <2>1. l.op \in Instructions \ {"LI", "BLT", "LLA"}
    BY <1>7
  <2>2. \E x : Words(l) = <<x>>
    BY <2>1 DEF Words, Instructions, pseudo
  <2>3. PICK x : Words(l) = <<x>>
    BY <2>2
  <2> QED
    BY <1>1, <2>3
<1> QED
  BY <1>4, <1>5, <1>6, <1>7

(* The references after one more line: those of the line come in addition. *)
LEMMA RefsOfNextLine ==
  ASSUME LInv, line <= Len(source), This.op \in Statements,
         source' = source, line' = line + 1,
         LineAddr' = LineAddr, refs' = refs \cup References(This, pcount)
  PROVE  RefsAt'
<1>1. \A i : i \in Parsed(DOMAIN source)' <=> i \in Parsed(DOMAIN source) \/ i = line
  BY OneMoreLine DEF LInv, IInv
<1>2. LineAddr[line] = pcount
  BY DEF LInv, Counted
<1>3. \A ref : ref \in refs' <=>
        \/ \E i \in Parsed(DOMAIN source) : ref \in References(source[i], LineAddr[i])
        \/ ref \in References(source[line], LineAddr[line])
  BY <1>2 DEF LInv, RefsAt, This
<1>4. \A ref : ref \in refs' <=>
        \E i \in Parsed(DOMAIN source)' : ref \in References(source[i], LineAddr[i])
  BY <1>1, <1>3
<1>5. refs' = UNION {References(source[i], LineAddr[i]) : i \in Parsed(DOMAIN source)'}
  BY <1>4
<1>6. RefsAt' <=> refs' = UNION {References(source'[i], LineAddr'[i]) : i \in Parsed(DOMAIN source)'}
  BY DEF RefsAt
<1> QED
  BY <1>5, <1>6

(* Data and offsets move the place of the next line and nothing else.      *)
LEMMA PlainLineLays ==
  ASSUME LInv, status = "parsing", line <= Len(source), source' = source, line' = line + 1,
         addr' = addr, refs' = refs, status' = status, buf' = buf,
         This.op \in {".dup", ".offset"}, This.op = ".offset" => This.args[1] % 4 = 0,
         pcount' = pcount + Size(This)
  PROVE  Counted' /\ Ordered' /\ LabelsAt' /\ RefsAt' /\ WordsAt' /\ PatchedAt'
<1>1. /\ \A i : i \in Parsed(DOMAIN source)' <=> i \in Parsed(DOMAIN source) \/ i = line
      /\ line \in DOMAIN source /\ This.op \in Statements
  BY OneMoreLine DEF LInv, IInv, Statements
<1>2. WellFormed(This)
  BY <1>1, SourceLines DEF LInv, IInv, This
<1>3. This.args[1] \in Nat
  BY <1>2 DEF WellFormed, rd_rs_rt, none, rs_rt, rd_rs, rs_only, rd_only, rd_rt_sa,
     rd_rt_rs, rt_rs_im, rs_rt_label, rs_label, rt_im_rs, rt_im, j_label, cp0_none,
     cp0_rt_rd, cp0_rd_rt, fd_fs_ft, ft_fs, fd_fs
<1>4. Size(This) = IF This.op = ".dup" THEN 4 * This.args[1] ELSE This.args[1]
  BY DEF Size
<1>5. Size(This) \in Nat /\ Size(This) % 4 = 0
  <2>1. \A n \in Nat : 4 * n \in Nat /\ (4 * n) % 4 = 0
    OBVIOUS
  <2> QED
    BY <1>3, <1>4, <2>1
<1>6. Counted' /\ Ordered' /\ LineAddr' = LineAddr
  BY <1>5, NextLine
<1>7. This.op \notin Instructions /\ This.op # "label"
      /\ This.op \notin rs_rt_label \cup rs_label \cup j_label \cup {"BLT", "LLA"}
  BY DEF Instructions, rd_rs_rt, none, rs_rt, rd_rs, rs_only, rd_only, rd_rt_sa,
     rd_rt_rs, rt_rs_im, rs_rt_label, rs_label, rt_im_rs, rt_im, j_label, cp0_none,
     cp0_rt_rd, cp0_rd_rt, fd_fs_ft, ft_fs, fd_fs, pseudo
<1>8. LabelsAt'
  BY <1>1, <1>6, <1>7 DEF LInv, LabelsAt, This
<1>9. RefsAt'
  <2>1. References(This, pcount) = {}
    BY <1>7, ReferencesOfLine
  <2> QED
    BY <1>1, <1>6, <2>1, RefsOfNextLine
<1>10. WordsAt'
  BY <1>1, <1>6, <1>7 DEF LInv, WordsAt, WordAddr, This
<1>11. PatchedAt'
  BY DEF PatchedAt
<1> QED
  BY <1>6, <1>8, <1>9, <1>10, <1>11

LEMMA RawCodeLays ==
  ASSUME LInv, RawCode
  PROVE  LInv'
<1>1. This.op = ".dup" /\ pcount' = pcount + Size(This)
  BY DEF RawCode, At, This, Size
<1>2. Counted' /\ Ordered' /\ LabelsAt' /\ RefsAt' /\ WordsAt' /\ PatchedAt'
  BY <1>1, PlainLineLays DEF RawCode, At
<1> QED
  BY <1>2, RawCodeKeeps DEF LInv

LEMMA OffsetLays ==
  ASSUME LInv, Offset
  PROVE  LInv'
<1>1. This.op = ".offset" /\ pcount' = pcount + Size(This)
  BY DEF Offset, At, This, Size
<1>2. Counted' /\ Ordered' /\ LabelsAt' /\ RefsAt' /\ WordsAt' /\ PatchedAt'
  BY <1>1, PlainLineLays DEF Offset, At, This
<1> QED
  BY <1>2, OffsetKeeps DEF LInv

(* A label is declared where it stands.                                    *)
LEMMA DeclareLays ==
  ASSUME LInv, Declare
  PROVE  LInv'
<1> DEFINE l == This.label
<1>1. /\ status = "parsing" /\ line <= Len(source) /\ This.op = "label"
      /\ addr[l] = NULL_ADDR /\ addr' = [addr EXCEPT ![l] = pcount]
      /\ source' = source /\ line' = line + 1 /\ refs' = refs /\ buf' = buf
      /\ pcount' = pcount /\ status' = status /\ This.op \in Statements
  BY DEF Declare, At, This, Statements
<1>2. /\ \A i : i \in Parsed(DOMAIN source)' <=> i \in Parsed(DOMAIN source) \/ i = line
      /\ line \in DOMAIN source /\ l \in Labels
  BY <1>1, OneMoreLine DEF LInv, IInv
<1>3. Size(This) = 0 /\ pcount' = pcount + Size(This)
  BY <1>1 DEF Size, LInv, IInv, Typed
<1>4. Counted' /\ Ordered' /\ LineAddr' = LineAddr
  <2>1. 0 \in Nat /\ 0 % 4 = 0
    OBVIOUS
  <2> QED
    BY <1>1, <1>3, <2>1, NextLine
<1>5. This.op \notin Instructions
      /\ This.op \notin rs_rt_label \cup rs_label \cup j_label \cup {"BLT", "LLA"}
  BY <1>1 DEF Instructions, rd_rs_rt, none, rs_rt, rd_rs, rs_only, rd_only, rd_rt_sa,
     rd_rt_rs, rt_rs_im, rs_rt_label, rs_label, rt_im_rs, rt_im, j_label, cp0_none,
     cp0_rt_rd, cp0_rd_rt, fd_fs_ft, ft_fs, fd_fs, pseudo
<1>6. LabelsAt'
  <2> SUFFICES ASSUME NEW i, i \in Parsed(DOMAIN source)', source[i].op = "label"
               PROVE  addr'[source[i].label] = LineAddr[i]
    BY <1>1, <1>4 DEF LabelsAt
  <2>1. CASE i = line
    BY <1>1, <1>2, <2>1 DEF LInv, IInv, Typed, Counted, This
  <2>2. CASE i \in Parsed(DOMAIN source)
    <3>1. source[i].label \in Labels
      BY <2>2, SourcesAssumption DEF LInv, IInv, Typed, Parsed, WellFormed
    <3>2. i \in Parsed(Declared(source[i].label))
      BY <2>2, ReadableLines DEF Parsed, Declared, LInv, IInv
    <3>3. addr[source[i].label] # NULL_ADDR
      BY <3>1, <3>2 DEF LInv, IInv, AddrKnown
    <3>4. addr'[source[i].label] = addr[source[i].label]
      BY <1>1, <3>1, <3>3 DEF LInv, IInv, Typed
    <3> QED
      BY <2>2, <3>4 DEF LInv, LabelsAt
  <2> QED
    BY <1>2, <2>1, <2>2
<1>7. RefsAt'
  <2>1. References(This, pcount) = {}
    BY <1>5, ReferencesOfLine
  <2> QED
    BY <1>1, <1>4, <2>1, RefsOfNextLine
<1>8. WordsAt'
  BY <1>1, <1>2, <1>4, <1>5 DEF LInv, WordsAt, WordAddr, This
<1>9. PatchedAt'
  BY <1>1 DEF PatchedAt
<1> QED
  BY <1>4, <1>6, <1>7, <1>8, <1>9, DeclareKeeps DEF LInv

(* The words of a statement are written after those of the lines before.   *)
LEMMA InstructionLays ==
  ASSUME LInv, Instruction
  PROVE  LInv'
<1> DEFINE words == Words(This)
<1>1. /\ status = "parsing" /\ line <= Len(source) /\ This.op \in Instructions
      /\ source' = source /\ line' = line + 1 /\ addr' = addr /\ status' = status
      /\ refs' = refs \cup References(This, pcount)
      /\ pcount' = pcount + 4 * Len(words)
      /\ buf' = [a \in DOMAIN buf \cup {pcount + 4 * (i - 1) : i \in DOMAIN words} |->
                   IF a < pcount THEN buf[a] ELSE words[(a - pcount) \div 4 + 1]]
      /\ This.op \in Statements
  BY DEF Instruction, At, This, Statements
<1>2. /\ \A i : i \in Parsed(DOMAIN source)' <=> i \in Parsed(DOMAIN source) \/ i = line
      /\ line \in DOMAIN source
  BY <1>1, OneMoreLine DEF LInv, IInv
<1>3. Size(This) = 4 * Len(words) /\ Len(words) \in {1, 2}
  BY <1>1, SizeOfWords
<1>4. Counted' /\ Ordered' /\ LineAddr' = LineAddr
  <2>1. \A n \in {1, 2} : 4 * n \in Nat /\ (4 * n) % 4 = 0
    OBVIOUS
  <2> QED
    BY <1>1, <1>3, <2>1, NextLine
<1>5. This.op # "label"
  BY <1>1 DEF Instructions, rd_rs_rt, none, rs_rt, rd_rs, rs_only, rd_only, rd_rt_sa,
     rd_rt_rs, rt_rs_im, rs_rt_label, rs_label, rt_im_rs, rt_im, j_label, cp0_none,
     cp0_rt_rd, cp0_rd_rt, fd_fs_ft, ft_fs, fd_fs, pseudo
<1>6. LabelsAt'
  BY <1>1, <1>2, <1>4, <1>5 DEF LInv, LabelsAt, This
<1>7. RefsAt'
  BY <1>1, <1>4, RefsOfNextLine
<1>8. DOMAIN words = 1..Len(words)
  BY <1>1, WordsAreSequence
<1>9. WordsAt'
  <2> SUFFICES ASSUME NEW i, i \in Parsed(DOMAIN source)', source[i].op \in Instructions,
                      NEW k \in 1..Len(Words(source[i]))
               PROVE  /\ WordAddr(i, k) \in DOMAIN buf'
                      /\ buf'[WordAddr(i, k)] = Words(source[i])[k]
    BY <1>1, <1>4 DEF WordsAt, WordAddr
  <2>1. CASE i \in Parsed(DOMAIN source)
    <3>1. WordAddr(i, k) \in DOMAIN buf /\ buf[WordAddr(i, k)] = Words(source[i])[k]
      BY <1>1, <2>1 DEF LInv, WordsAt
    <3>2. i \in 1..line /\ line \in 1..line /\ i < line
      BY <1>2, <2>1, SourceLines DEF Parsed, LInv, IInv, Typed
    <3>3. LineAddr[i] + Size(source[i]) <= pcount /\ LineAddr[i] \in Nat /\ pcount \in Nat
      BY <3>2 DEF LInv, Ordered, Counted, IInv, Typed
    <3>4. Size(source[i]) = 4 * Len(Words(source[i])) /\ Len(Words(source[i])) \in Nat
      BY SizeOfWords
    <3>5. WordAddr(i, k) < pcount
      BY <3>3, <3>4 DEF WordAddr
    <3> QED
      BY <1>1, <3>1, <3>5
  <2>2. CASE i = line
    <3>1. WordAddr(i, k) = pcount + 4 * (k - 1) /\ k \in 1..Len(words) /\ k \in Nat /\ k >= 1
      BY <1>3, <2>2 DEF WordAddr, This, LInv, Counted
    <3>2. pcount \in Nat
      BY DEF LInv, IInv, Typed
    <3>3. \A p, n \in Nat : n >= 1 => ~(p + 4 * (n - 1) < p) /\ (p + 4 * (n - 1) - p) \div 4 + 1 = n
      OBVIOUS
    <3>4. WordAddr(i, k) \in DOMAIN buf'
      BY <1>1, <1>8, <3>1
    <3>5. buf'[WordAddr(i, k)] = words[k]
      <4> DEFINE a == WordAddr(i, k)
      <4>1. ~(a < pcount) /\ (a - pcount) \div 4 + 1 = k
        BY <3>1, <3>2, <3>3
      <4>2. a \in DOMAIN buf \cup {pcount + 4 * (n - 1) : n \in DOMAIN words}
        BY <1>1, <3>4
      <4> HIDE DEF a
      <4>3. buf'[a] = IF a < pcount THEN buf[a] ELSE words[(a - pcount) \div 4 + 1]
        BY <1>1, <4>2
      <4> QED
        BY <4>1, <4>3 DEF a
    <3> QED
      BY <2>2, <3>4, <3>5 DEF This
  <2> QED
    BY <1>2, <2>1, <2>2
<1>10. PatchedAt'
  BY <1>1 DEF PatchedAt
<1> QED
  BY <1>4, <1>6, <1>7, <1>9, <1>10, InstructionKeeps DEF LInv

(* A message leaves everything where it is.                                *)
LEMMA FailLays ==
  ASSUME LInv, Fail \/ SyntaxError, status # "written", IInv'
  PROVE  LInv'
<1>1. /\ source' = source /\ line' = line /\ buf' = buf /\ pcount' = pcount /\ addr' = addr
      /\ refs' = refs /\ status' # "written"
  BY DEF Fail, SyntaxError
<1>2. LineAddr' = LineAddr /\ Parsed(DOMAIN source)' = Parsed(DOMAIN source)
  BY <1>1 DEF LineAddr, Parsed
<1>3. Counted' /\ Ordered' /\ LabelsAt'
  BY <1>1, <1>2 DEF LInv, Counted, Ordered, LabelsAt
<1>4. RefsAt'
  BY <1>1, <1>2 DEF LInv, RefsAt
<1>5. WordsAt'
  BY <1>1, <1>2 DEF LInv, WordsAt, WordAddr
<1>6. PatchedAt'
  BY <1>1 DEF PatchedAt
<1> QED
  BY <1>3, <1>4, <1>5, <1>6 DEF LInv

(* At the end every word has the reference of its line filled in: no other *)
(* line has a reference to it.                                             *)
LEMMA FinishLays ==
  ASSUME LInv, Finish
  PROVE  LInv'
<1>1. /\ status # "written" /\ status' = "written"
      /\ source' = source /\ line' = line /\ pcount' = pcount /\ addr' = addr /\ refs' = refs
      /\ buf' = [a \in DOMAIN buf |->
                   IF \E ref \in refs : ref.addr = a
                   THEN WriteBack(buf[a], CHOOSE ref \in refs : ref.addr = a) ELSE buf[a]]
  BY DEF Finish, ParserReturned
<1>2. LineAddr' = LineAddr /\ Parsed(DOMAIN source)' = Parsed(DOMAIN source)
  BY <1>1 DEF LineAddr, Parsed
<1>3. Counted' /\ Ordered' /\ LabelsAt'
  BY <1>1, <1>2 DEF LInv, Counted, Ordered, LabelsAt
<1>4. RefsAt'
  BY <1>1, <1>2 DEF LInv, RefsAt
<1>5. WordsAt'
  BY <1>1 DEF WordsAt
<1> DEFINE lines == Parsed(DOMAIN source)
<1>6. \A i \in lines : i \in 1..line /\ i \in Nat
  BY SourceLines DEF LInv, IInv, Typed, Parsed
<1>7. refs = UNION {References(source[i], LineAddr[i]) : i \in lines}
  BY DEF LInv, RefsAt
<1> HIDE DEF lines
<1>8. ASSUME NEW i \in lines, NEW j \in lines,
             source[i].op \in Instructions, source[j].op \in Instructions,
             NEW k \in 1..Len(Words(source[i])), NEW m \in 1..Len(Words(source[j])),
             WordAddr(i, k) = WordAddr(j, m)
      PROVE  i = j
  <2>1. \A n \in lines : source[n].op \in Instructions =>
          Size(source[n]) = 4 * Len(Words(source[n])) /\ Len(Words(source[n])) \in Nat
    BY SizeOfWords
  <2>2. LineAddr[i] \in Nat /\ LineAddr[j] \in Nat
    BY <1>6 DEF LInv, Ordered
  <2>3. CASE i < j
    <3>1. LineAddr[i] + Size(source[i]) <= LineAddr[j]
      BY <1>6, <2>3 DEF LInv, Ordered
    <3> QED
      BY <1>8, <2>1, <2>2, <3>1 DEF WordAddr
  <2>4. CASE j < i
    <3>1. LineAddr[j] + Size(source[j]) <= LineAddr[i]
      BY <1>6, <2>4 DEF LInv, Ordered
    <3> QED
      BY <1>8, <2>1, <2>2, <3>1 DEF WordAddr
  <2> QED
    BY <1>6, <2>3, <2>4
<1>9. \A i \in lines : source[i].op \notin Instructions =>
        References(source[i], LineAddr[i]) = {}
  <2>1. rs_rt_label \cup rs_label \cup j_label \cup {"BLT", "LLA"} \subseteq Instructions
    BY DEF Instructions, pseudo
  <2> QED
    BY <2>1, ReferencesOfLine
<1>10. \A i \in lines : source[i].op \in Instructions =>
         /\ \A ref \in References(source[i], LineAddr[i]) :
              \E k \in 1..Len(Words(source[i])) : ref.addr = WordAddr(i, k)
         /\ \A r1, r2 \in References(source[i], LineAddr[i]) : r1.addr = r2.addr => r1 = r2
  BY <1>6, ReferencesInLine DEF WordAddr, LInv, Ordered
<1>11. ASSUME NEW i \in lines, source[i].op \in Instructions,
              NEW k \in 1..Len(Words(source[i])), NEW ref \in refs, ref.addr = WordAddr(i, k)
       PROVE  ref \in References(source[i], LineAddr[i])
  <2>1. PICK j \in lines : ref \in References(source[j], LineAddr[j])
    BY <1>7
  <2>2. source[j].op \in Instructions
    BY <1>9, <2>1
  <2>3. PICK m \in 1..Len(Words(source[j])) : ref.addr = WordAddr(j, m)
    BY <1>10, <2>1, <2>2
  <2> QED
    BY <1>8, <1>11, <2>1, <2>2, <2>3
<1>12. PatchedAt'
  <2>0. /\ source' = source /\ addr' = addr /\ LineAddr' = LineAddr
        /\ \A i, k : WordAddr(i, k)' = WordAddr(i, k)
        /\ \A w, ref : WriteBack(w, ref)' = WriteBack(w, ref)
    BY <1>1, <1>2 DEF WordAddr, WriteBack, TargetAddr
  <2> SUFFICES ASSUME NEW i \in lines, source[i].op \in Instructions,
                      NEW k \in 1..Len(Words(source[i]))
               PROVE  /\ WordAddr(i, k) \in DOMAIN buf'
                      /\ \A ref \in References(source[i], LineAddr[i]) :
                           ref.addr = WordAddr(i, k) =>
                             buf'[WordAddr(i, k)] = WriteBack(Words(source[i])[k], ref)
                      /\ (\A ref \in References(source[i], LineAddr[i]) : ref.addr # WordAddr(i, k)) =>
                           buf'[WordAddr(i, k)] = Words(source[i])[k]
    BY <1>2, <2>0 DEF PatchedAt, WordAddr, WriteBack, TargetAddr, lines
  <2> DEFINE a == WordAddr(i, k)
  <2>1. a \in DOMAIN buf /\ buf[a] = Words(source[i])[k]
    BY <1>1 DEF LInv, WordsAt, lines
  <2>2. a \in DOMAIN buf'
    BY <1>1, <2>1
  <2>3. buf'[a] = IF \E ref \in refs : ref.addr = a
                  THEN WriteBack(buf[a], CHOOSE ref \in refs : ref.addr = a) ELSE buf[a]
    BY <1>1, <2>1
  <2>4. ASSUME NEW ref \in References(source[i], LineAddr[i]), ref.addr = a
        PROVE  buf'[a] = WriteBack(Words(source[i])[k], ref)
    <3>1. ref \in refs
      BY <1>7
    <3> DEFINE r == CHOOSE r \in refs : r.addr = a
    <3>2. r \in refs /\ r.addr = a
      BY <2>4, <3>1
    <3> HIDE DEF r
    <3>3. r \in References(source[i], LineAddr[i])
      BY <1>11, <3>2
    <3>4. r = ref
      BY <1>10, <2>4, <3>2, <3>3
    <3> QED
      BY <2>1, <2>3, <2>4, <3>1, <3>4 DEF r
  <2>5. ASSUME \A ref \in References(source[i], LineAddr[i]) : ref.addr # a
        PROVE  buf'[a] = Words(source[i])[k]
    <3>1. ~\E ref \in refs : ref.addr = a
      BY <1>11, <2>5
    <3> QED
      BY <2>1, <2>3, <3>1
  <2> QED
    BY <2>2, <2>4, <2>5
<1> QED
  BY <1>3, <1>4, <1>5, <1>12, FinishKeeps DEF LInv

(* Nothing is anywhere yet.                                                *)
LEMMA StartsLaid == Init => LInv
<1> SUFFICES ASSUME Init PROVE LInv
  OBVIOUS
<1>1. IInv
  BY StartsWell
<1>2. /\ DOMAIN source = 1..Len(source) /\ Len(source) \in Nat /\ LineAddr[1] = 0
  BY <1>1, SourceLines DEF IInv
<1>3. line = 1 /\ pcount = 0 /\ refs = {} /\ status = "parsing"
  BY DEF Init
<1>4. \A i : i \notin Parsed(DOMAIN source)
  BY <1>2, <1>3 DEF Parsed
<1>5. Counted /\ LabelsAt /\ RefsAt /\ WordsAt /\ PatchedAt
  BY <1>2, <1>3, <1>4 DEF Counted, LabelsAt, RefsAt, WordsAt, PatchedAt
<1>6. Ordered
  BY <1>2, <1>3 DEF Ordered
<1> QED
  BY <1>1, <1>5, <1>6 DEF LInv

LEMMA StepLays == LInv /\ [Next]_vars => LInv'
<1> SUFFICES ASSUME LInv, [Next]_vars PROVE LInv'
  OBVIOUS
<1>1. IInv'
  BY StepKeeps DEF LInv
<1>2. CASE DeclareTwice \/ OffsetUnaligned \/ SyntaxError \/ BadToken \/ FinishUndeclared
  BY <1>1, <1>2, FailLays
  DEF DeclareTwice, OffsetUnaligned, SyntaxError, BadToken, FinishUndeclared, ParserReturned, At
<1>3. CASE UNCHANGED vars
  <2>1. LineAddr' = LineAddr /\ Parsed(DOMAIN source)' = Parsed(DOMAIN source)
    BY <1>3 DEF vars, LineAddr, Parsed
  <2>2. Counted' /\ Ordered' /\ LabelsAt'
    BY <1>3, <2>1 DEF vars, LInv, Counted, Ordered, LabelsAt
  <2>3. RefsAt' /\ WordsAt'
    BY <1>3, <2>1 DEF vars, LInv, RefsAt, WordsAt, WordAddr
  <2>4. PatchedAt'
    BY <1>3, <2>1 DEF vars, LInv, PatchedAt, WordAddr, WriteBack, TargetAddr
  <2> QED
    BY <1>1, <2>2, <2>3, <2>4 DEF LInv
<1> QED
  BY <1>2, <1>3, InstructionLays, DeclareLays, RawCodeLays, OffsetLays, FinishLays DEF Next

-----------------------------------------------------------------------------
(* Once the parser has returned, the lines parsed are those before line.   *)
LEMMA WrittenLines ==
  ASSUME LInv, status = "written"
  PROVE  /\ Parsed(DOMAIN source) = Readable
         /\ \A S \in SUBSET Readable : Parsed(S) = S
         /\ \A i \in Readable : i \in DOMAIN source /\ i \in 1..line /\ i < line
<1>1. line \notin Readable /\ Typed /\ AllRead
  BY DEF LInv, IInv, Ended
<1>2. Parsed(DOMAIN source) = Readable /\ \A S \in SUBSET Readable : Parsed(S) = S
  BY <1>1, ReadableLines
<1>3. \A i \in Parsed(DOMAIN source) : i \in DOMAIN source /\ i \in 1..line /\ i < line
  BY <1>1, SourceLines DEF Parsed, Typed
<1> QED
  BY <1>2, <1>3

(* Then a label that an instruction uses stands for the line that declares *)
(* it, and the table says where that is.                                   *)
LEMMA LabelKnown ==
  ASSUME LInv, status = "written", NEW i \in Readable,
         source[i].op \in rs_rt_label \cup rs_label \cup j_label \cup {"BLT", "LLA"}
  PROVE  /\ LabelAddr(source[i]) = addr[source[i].label]
         /\ LabelAddr(source[i]) \in Nat /\ LabelAddr(source[i]) % 4 = 0
         /\ LabelAddr(source[i]) < 268435456
<1> DEFINE name == source[i].label
<1>1. /\ \A ref \in refs : addr[ref.label] # NULL_ADDR
      /\ Typed /\ line <= Len(source) + 1
  BY DEF LInv, IInv, Written, Counted
<1>2. /\ DOMAIN source = 1..Len(source) /\ Len(source) \in Nat
  BY <1>1, SourceLines
<1>4. /\ Parsed(DOMAIN source) = Readable
      /\ Parsed(Declared(name)) = Declared(name)
      /\ Parsed(Referenced(name)) = Referenced(name)
  BY WrittenLines DEF Declared, Referenced
<1>5. i \in Referenced(name) /\ name \in Labels
  BY <1>1, WrittenLines, LineFields DEF Referenced
<1>6. addr[name] # NULL_ADDR
  BY <1>1, <1>4, <1>5 DEF LInv, IInv, UsesRefd
<1>7. Declared(name) # {}
  BY <1>4, <1>5, <1>6 DEF LInv, IInv, AddrKnown
<1> DEFINE d == CHOOSE j \in Readable : source[j].op = "label" /\ source[j].label = name
<1>8. d \in Readable /\ source[d].op = "label" /\ source[d].label = name
  BY <1>7 DEF Declared
<1>9. LabelAddr(source[i]) = LineAddr[d]
  BY DEF LabelAddr
<1> HIDE DEF d, name
<1>10. addr[name] = LineAddr[d]
  BY <1>4, <1>8 DEF LInv, LabelsAt
<1>11. d \in 1..line /\ d \in 1..Len(source) + 1
  BY <1>2, <1>8, WrittenLines
<1>12. LineAddr[d] \in Nat /\ LineAddr[d] % 4 = 0
  BY <1>11 DEF LInv, Ordered
<1>13. LineAddr[d] < 268435456
  BY <1>1, <1>11, SmallSources DEF Typed, LineAddr
<1> QED
  BY <1>9, <1>10, <1>12, <1>13 DEF name

(* The words of a line that are in the output.                             *)
LEMMA OutputWords ==
  ASSUME LInv, status = "written", NEW i \in Readable,
         source[i].op \in Instructions, LineAddr[i] >= buf_offset
  PROVE  LET ws == [k \in 1..(Size(source[i]) \div 4) |-> Output[LineAddr[i] + 4 * (k - 1)]]
         IN  /\ Len(ws) = Len(Words(source[i]))
             /\ \A k \in 1..Len(Words(source[i])) : ws[k] = buf[WordAddr(i, k)]
<1> DEFINE n == Len(Words(source[i]))
           N == Size(source[i]) \div 4
           ws == [k \in 1..N |-> Output[LineAddr[i] + 4 * (k - 1)]]
<1>1. Size(source[i]) = 4 * n /\ n \in {1, 2}
  BY SizeOfWords
<1>2. N = n /\ n \in Nat
  BY <1>1
<1> HIDE DEF N, n
<1>3. Len(ws) = n
  BY <1>2
<1>4. Typed
  BY DEF LInv, IInv
<1>5. i \in 1..line /\ i \in Parsed(DOMAIN source)
  BY WrittenLines
<1>6. LineAddr[i] \in Nat /\ buf_offset \in Nat
  BY <1>4, <1>5 DEF LInv, Ordered, Typed
<1>7. ASSUME NEW k \in 1..n PROVE ws[k] = buf[WordAddr(i, k)]
  <2>1. WordAddr(i, k) \in DOMAIN buf
    BY <1>5, <1>7 DEF LInv, PatchedAt, n
  <2>2. WordAddr(i, k) >= buf_offset /\ WordAddr(i, k) = LineAddr[i] + 4 * (k - 1)
    BY <1>2, <1>6 DEF WordAddr
  <2>3. Output[WordAddr(i, k)] = buf[WordAddr(i, k)]
    BY <2>1, <2>2 DEF Output
  <2> QED
    BY <1>2, <2>2, <2>3
<1> QED
  BY <1>3, <1>7 DEF N, n

(* The line is what its words mean, exactly if it is not one of those that *)
(* the assembler gets wrong.                                               *)
LEMMA LineLoads ==
  ASSUME LInv, status = "written", NEW i \in Readable,
         source[i].op \in Instructions, LineAddr[i] >= buf_offset
  PROVE  Loaded(i) <=> ~Miscoded(i)
<1> DEFINE l == source[i]
           at == LineAddr[i]
           ws == [k \in 1..(Size(l) \div 4) |-> Output[at + 4 * (k - 1)]]
           uses == rs_rt_label \cup rs_label \cup j_label \cup {"BLT", "LLA"}
<1>1. Len(ws) = Len(Words(l)) /\ \A k \in 1..Len(Words(l)) : ws[k] = buf[WordAddr(i, k)]
  BY OutputWords
<1>2. Loaded(i) <=> Means(l, at, ws)
  BY DEF Loaded
<1>3. Len(Words(l)) \in {1, 2}
  BY WordsCount
<1> HIDE DEF ws
<1>4. Typed
  BY DEF LInv, IInv
<1>5. i \in 1..line /\ i \in Parsed(DOMAIN source) /\ i \in DOMAIN source
  BY WrittenLines
<1>6. at \in Nat /\ at % 4 = 0
  BY <1>5 DEF LInv, Ordered
<1>7. WellFormed(l)
  BY <1>4, <1>5, LineFields
<1>8. l.op \in uses => /\ LabelAddr(l) = addr[l.label] /\ LabelAddr(l) \in Nat
                       /\ LabelAddr(l) % 4 = 0 /\ LabelAddr(l) < 268435456
  BY SMT, LabelKnown
<1>9. WordAddr(i, 1) = at /\ WordAddr(i, 2) = at + 4
  BY <1>6 DEF WordAddr
<1>10. \A k \in 1..Len(Words(l)) :
         /\ \A ref \in References(l, at) :
              ref.addr = WordAddr(i, k) => ws[k] = WriteBack(Words(l)[k], ref)
         /\ (\A ref \in References(l, at) : ref.addr # WordAddr(i, k)) => ws[k] = Words(l)[k]
  BY <1>1, <1>5 DEF LInv, PatchedAt
<1>11. 1 \in 1..Len(Words(l)) /\ (Len(Words(l)) = 2 => 2 \in 1..Len(Words(l)))
  <2>1. \A n \in {1, 2} : 1 \in 1..n /\ (n = 2 => 2 \in 1..n)
    OBVIOUS
  <2> QED
    BY <1>3, <2>1
<1>12. \A a, mode : /\ Ref(l, a, mode).label = l.label /\ Ref(l, a, mode).addr = a
                    /\ Ref(l, a, mode).mode = mode \cup {"RELATIVE"}
  BY DEF Ref
<1> HIDE DEF l, at
<1>13. Miscoded(i) <=> \/ l.op \in {"BGEZ", "BLT"}
                       \/ l.op = "LI" /\ l.args[2][1] = 0 /\ l.args[2][2] >= 32768
                       \/ l.op \in rs_rt_label \cup rs_label /\ ~InRange(l, at)
                       \/ ~ImmediateFits(l)
                       \/ l.op \in Instructions \ pseudo /\ MemuName(l.op) \notin Implemented
                       \/ l.op = "JALR" /\ l.args[1] # RA
  BY DEF Miscoded, l, at
<1>14. CASE l.op \notin uses
  <2>1. References(l, at) = {}
    BY <1>14, ReferencesOfLine
  <2>2. \A k \in 1..Len(Words(l)) : ws[k] = Words(l)[k]
    BY <1>10, <2>1
  <2>3. CASE l.op = "LI"
    <3>1. Means(l, at, ws) <=> ~(l.args[2][1] = 0 /\ l.args[2][2] >= 32768)
      BY <1>1, <1>7, <2>2, <2>3, LiMeans
    <3>2. ImmediateFits(l)
      BY <2>3 DEF ImmediateFits, rt_rs_im, rt_im_rs, rt_im, rd_rt_sa
    <3> QED
      BY <1>2, <1>13, <2>3, <3>1, <3>2 DEF rs_rt_label, rs_label, pseudo
  <2>4. CASE l.op # "LI"
    <3>1. l.op \in Instructions /\ ws[1] = Words(l)[1]
      BY <1>11, <2>2 DEF l
    <3>2. Means(l, at, ws) <=> /\ ImmediateFits(l) /\ MemuName(l.op) \in Implemented
                               /\ l.op = "JALR" => l.args[1] = RA
      BY <1>7, <1>14, <2>4, <3>1, PlainMeans, Zenon
    <3>3. l.op \in pseudo => l.op \in {"MOVE", "NOP"}
      BY <1>14, <2>4 DEF pseudo
    <3>4. l.op \in {"MOVE", "NOP"} => MemuName(l.op) \in Implemented
      BY DEF MemuName, Implemented
    <3> QED
      BY <1>2, <1>13, <1>14, <2>4, <3>1, <3>2, <3>3, <3>4 DEF rs_label
  <2> QED
    BY <2>3, <2>4
<1>15. CASE l.op \in rs_rt_label \cup rs_label
  <2> DEFINE ref == Ref(l, at, {"RELATIVE", "16_BIT"})
  <2>1. ref \in References(l, at)
    BY <1>15 DEF References, rs_rt_label, rs_label, j_label
  <2>2. ref.label = l.label /\ ref.addr = at /\ ref.mode = {"RELATIVE", "16_BIT"} \cup {"RELATIVE"}
    BY <1>12
  <2> HIDE DEF ref
  <2>3. ws[1] = WriteBack(Words(l)[1], ref)
    BY <1>9, <1>10, <1>11, <2>1, <2>2
  <2>4. TargetAddr(ref) = LabelAddr(l) - at - 4
    BY SMT, <1>8, <1>15, <2>2 DEF TargetAddr
  <2>5. ws[1] = PutLow16(Words(l)[1], ((LabelAddr(l) - at - 4) \div 4) % 65536)
    BY SMT, <2>2, <2>3, <2>4 DEF WriteBack, Patch
  <2>6. (LabelAddr(l) - at) % 4 = 0
    <3>1. \A m, n \in Nat : m % 4 = 0 /\ n % 4 = 0 => (m - n) % 4 = 0
      OBVIOUS
    <3> QED
      BY <1>6, <1>8, <1>15, <3>1
  <2>7. Means(l, at, ws) <=> l.op # "BGEZ" /\ InRange(l, at) /\ l.op \in Implemented
    <3>1. at \in Int /\ LabelAddr(l) \in Int
      BY SMT, <1>6, <1>8, <1>15
    <3> QED
      BY SMT, <1>7, <1>15, <2>5, <2>6, <3>1, BranchMeans
  <2>8. ImmediateFits(l)
    BY <1>15 DEF ImmediateFits, rs_rt_label, rs_label, rt_rs_im, rt_im_rs, rt_im, rd_rt_sa
  <2>9. l.op \notin {"BLT", "LI", "JALR"} \cup pseudo /\ l.op \in Instructions
    BY <1>15 DEF rs_rt_label, rs_label, pseudo, Instructions
  <2>10. MemuName(l.op) = l.op
    BY <1>15 DEF rs_rt_label, rs_label, MemuName
  <2> QED
    BY <1>2, <1>13, <1>15, <2>7, <2>8, <2>9, <2>10
<1>16. CASE l.op \in j_label
  <2> DEFINE ref == Ref(l, at, {"ABSOLUTE", "26_BIT"})
  <2>1. ref \in References(l, at)
    BY <1>16 DEF References, j_label, rs_rt_label, rs_label
  <2>2. ref.label = l.label /\ ref.addr = at /\ ref.mode = {"ABSOLUTE", "26_BIT"} \cup {"RELATIVE"}
    BY <1>12
  <2> HIDE DEF ref
  <2>3. ws[1] = WriteBack(Words(l)[1], ref)
    BY <1>9, <1>10, <1>11, <2>1, <2>2
  <2>4. TargetAddr(ref) = LabelAddr(l)
    BY SMT, <1>8, <1>16, <2>2 DEF TargetAddr
  <2>5. ws[1] = PutLow26(Words(l)[1], (LabelAddr(l) \div 4) % 67108864)
    BY SMT, <2>2, <2>3, <2>4 DEF WriteBack, Patch
  <2>6. Means(l, at, ws)
    BY SMT, <1>7, <1>8, <1>16, <2>5, JumpMeans
  <2>7. ImmediateFits(l)
    BY <1>16 DEF ImmediateFits, j_label, rt_rs_im, rt_im_rs, rt_im, rd_rt_sa
  <2>8. l.op \notin {"BGEZ", "BLT", "LI", "JALR"} \cup rs_rt_label \cup rs_label
    BY <1>16 DEF j_label, rs_rt_label, rs_label
  <2>9. MemuName(l.op) \in Implemented
    BY <1>16 DEF j_label, MemuName, Implemented
  <2> QED
    BY <1>2, <1>13, <2>6, <2>7, <2>8, <2>9
<1>17. CASE l.op = "BLT"
  <2>1. \A ref \in References(l, at) : ref.addr = at + 4
    BY <1>12, <1>17 DEF References, rs_rt_label, rs_label, j_label
  <2>2. at + 4 # at
    BY <1>6
  <2>3. ws[1] = Words(l)[1]
    BY <1>9, <1>10, <1>11, <2>1, <2>2
  <2> QED
    BY <1>2, <1>13, <1>17, <2>3, BltMeans
<1>18. CASE l.op = "LLA"
  <2> DEFINE high == Ref(l, at, {"ABSOLUTE", "H16_BIT"})
             low == Ref(l, at + 4, {"ABSOLUTE", "L16_BIT"})
  <2>1. high \in References(l, at) /\ low \in References(l, at)
    BY <1>18 DEF References, j_label, rs_rt_label, rs_label
  <2>2. /\ high.label = l.label /\ high.addr = at
        /\ high.mode = {"ABSOLUTE", "H16_BIT"} \cup {"RELATIVE"}
        /\ low.label = l.label /\ low.addr = at + 4
        /\ low.mode = {"ABSOLUTE", "L16_BIT"} \cup {"RELATIVE"}
    BY <1>12
  <2> HIDE DEF high, low
  <2>3. Len(Words(l)) = 2
    BY <1>18 DEF Words, rd_rs_rt, none, rs_rt, rd_rs, rs_only, rd_only, rd_rt_sa,
     rd_rt_rs, rt_rs_im, rs_rt_label, rs_label, rt_im_rs, rt_im, j_label, cp0_none,
     cp0_rt_rd, cp0_rd_rt, fd_fs_ft, ft_fs, fd_fs
  <2>4. ws[1] = WriteBack(Words(l)[1], high) /\ ws[2] = WriteBack(Words(l)[2], low)
    BY <1>9, <1>10, <1>11, <2>1, <2>2, <2>3
  <2>5. TargetAddr(high) = LabelAddr(l) /\ TargetAddr(low) = LabelAddr(l)
    BY SMT, <1>8, <1>18, <2>2 DEF TargetAddr
  <2>6. ws[1] = PutLow16(Words(l)[1], (LabelAddr(l) \div 65536) % 65536)
    BY <2>2, <2>4, <2>5 DEF WriteBack, Patch
  <2>7. ws[2] = PutLow16(Words(l)[2], LabelAddr(l) % 65536)
    BY <2>2, <2>4, <2>5 DEF WriteBack, Patch
  <2>8. Means(l, at, ws)
    BY SMT, <1>1, <1>7, <1>8, <1>18, <2>3, <2>6, <2>7, LlaMeans
  <2>9. ImmediateFits(l)
    BY <1>18 DEF ImmediateFits, rt_rs_im, rt_im_rs, rt_im, rd_rt_sa
  <2>10. l.op \notin {"BGEZ", "BLT", "LI", "JALR"} \cup rs_rt_label \cup rs_label
         /\ l.op \in pseudo
    BY <1>18 DEF rs_rt_label, rs_label, pseudo
  <2> QED
    BY <1>2, <1>13, <2>8, <2>9, <2>10
<1> QED
  BY <1>14, <1>15, <1>16, <1>17, <1>18

(* The processor runs the program that the source describes, for every     *)
(* file: each instruction that the parser reached decodes, where it is     *)
(* loaded, to one the processor has a function for, and this function      *)
(* reads the operands that were written, with the address of the label if  *)
(* there is one, except for exactly the miscoded lines (bingen.c:285-381,  *)
(* symbol.c:142-178, decode.c:804-850, inst.c:242-463).                    *)
THEOREM RunsAllSources == Spec => []RunsSource
<1>1. Spec => []LInv
  BY StartsLaid, StepLays, PTL DEF Spec
<1>2. LInv => RunsSource
  BY LineLoads DEF RunsSource
<1> QED
  BY <1>1, <1>2, PTL
===============================================================================
