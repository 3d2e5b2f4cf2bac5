---------------------------- MODULE KeyboardProofs ----------------------------
(***************************************************************************)
(* No key is stranded in the keyboard queue, and none is invented, for     *)
(* every size of the queue, pace of typing and interleaving.               *)
(***************************************************************************)
EXTENDS Keyboard, TLAPS

LEMMA InitHolds == Init => IInv
<1> SUFFICES ASSUME Init PROVE IInv
  OBVIOUS
<1> USE KeyboardAssumption DEF Init
<1>1. ring \in [Slots -> Keys \cup {Garbage}]
  OBVIOUS
<1>2. TypeOK
  <2>1. head \in Slots /\ tail \in 0 .. QSize /\ tail # QSize /\ typed \in 0 .. MaxKeys
    BY DEF Slots
  <2>2. got \in Keys \cup {Garbage} /\ last \in Keys \cup {Garbage}
    BY DEF Garbage
  <2> QED BY <1>1, <2>1, <2>2 DEF TypeOK
<1>3. NoStrandedKey /\ OnlyTypedKeys /\ InUse /\ Pressed
  BY DEF NoStrandedKey, OnlyTypedKeys, InUse, Pressed, Slots
<1> QED BY <1>2, <1>3 DEF IInv

(* A step of the daemon.                                                   *)
LEMMA DaemonKeeps == IInv /\ (Type \/ DaemonStores) => IInv'
<1> SUFFICES ASSUME IInv, Type \/ DaemonStores PROVE IInv'
  OBVIOUS
<1> USE KeyboardAssumption DEF IInv, TypeOK, NoStrandedKey, OnlyTypedKeys, InUse, Pressed,
        Written, Slots, Keys, daemonVars, handlerVars
<1>1. CASE Type
  BY <1>1 DEF Type
<1>2. CASE Store
  <2>1. tail \in Slots /\ typed \in Keys /\ 0 < typed
    BY <1>2 DEF Store
  <2>2. ring' = [ring EXCEPT ![tail] = typed] /\ daemon' = "advance"
    BY <1>2 DEF Store
  <2>3. UNCHANGED <<typed, tail, pending, handlerVars>>
    BY <1>2 DEF Store
  <2>4. Written(tail)' /\ \A s \in Slots : Written(s) => Written(s)'
    BY <2>1, <2>2, <2>3
  <2> QED BY <1>2, <2>1, <2>2, <2>3, <2>4 DEF Store
<1>3. CASE Advance
  BY <1>3 DEF Advance
<1>4. CASE Wrap
  BY <1>4 DEF Wrap
<1>5. CASE Signal
  BY <1>5 DEF Signal
<1> QED BY <1>1, <1>2, <1>3, <1>4, <1>5 DEF DaemonStores

(* A step of the handler.                                                  *)
LEMMA HandlerKeeps == IInv /\ Handle => IInv'
<1> SUFFICES ASSUME IInv, Handle PROVE IInv'
  OBVIOUS
<1> USE KeyboardAssumption DEF IInv, TypeOK, NoStrandedKey, OnlyTypedKeys, InUse, Pressed,
        Written, Slots, Keys, daemonVars
<1>1. CASE Enter
  BY <1>1 DEF Enter
<1>2. CASE Look
  BY <1>2 DEF Look
<1>3. CASE Read
  BY <1>3 DEF Read
<1>4. CASE Release
  BY <1>4 DEF Release
<1> QED BY <1>1, <1>2, <1>3, <1>4 DEF Handle

THEOREM Invariance == Spec => []IInv
<1>1. IInv /\ UNCHANGED vars => IInv'
  BY DEF IInv, TypeOK, NoStrandedKey, OnlyTypedKeys, InUse, Pressed, Written,
         vars, daemonVars, handlerVars
<1>2. IInv /\ [Next]_vars => IInv'
  BY <1>1, DaemonKeeps, HandlerKeeps DEF Next
<1> QED BY <1>2, InitHolds, PTL DEF Spec

(* No key is left in the queue unnoticed.                                  *)
THEOREM NoKeyStranded == Spec => []NoStrandedKey
<1>1. IInv => NoStrandedKey
  BY DEF IInv
<1> QED BY <1>1, Invariance, PTL

(* The terminal is given only keys that were pressed.                      *)
THEOREM NoKeyInvented == Spec => []OnlyTypedKeys
<1>1. IInv => OnlyTypedKeys
  BY DEF IInv
<1> QED BY <1>1, Invariance, PTL
(* Both ends of the queue stay in it: the tail leaves it only between the  *)
(* store that advances it and the one that wraps it.                       *)
THEOREM Types == Spec => []TypeOK
<1>1. IInv => TypeOK
  BY DEF IInv
<1> QED BY <1>1, Invariance, PTL
===============================================================================
