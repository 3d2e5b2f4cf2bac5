------------------------------- MODULE Keyboard -------------------------------
(***************************************************************************)
(* The keyboard queue: keyboard_daemon (memu/daemon.c), a thread, stores   *)
(* keys in a ring in the memory of the machine and raises the keyboard     *)
(* interrupt; INT_KEYBOARD (os/interrupt.lib) drains the ring with HW_GETC *)
(* (os/hwio.lib).  No lock protects the ring: each access to memory is a   *)
(* step.  The daemon's log calls between its stores (DUMP_KEYBOARD is 1)   *)
(* keep the compiler from merging them.                                    *)
(*                                                                         *)
(* A key is the number of its press: what INT_KEYBOARD then does with the  *)
(* low byte of its code is the terminal's business.                        *)
(***************************************************************************)
EXTENDS Naturals

CONSTANTS
  QSize,     \* the slots of the ring: iq_size / 4
  MaxKeys,   \* how many keys are pressed (bound)
  Backlog    \* how many unread keys there may be (the pace of the typist)

ASSUME KeyboardAssumption ==
  QSize \in Nat \ {0} /\ MaxKeys \in Nat /\ Backlog \in Nat

Slots == 0 .. QSize - 1
Keys == 1 .. MaxKeys
Garbage == 0      \* what a slot holds at first: malloc does not clear it

VARIABLES
  ring,      \* the slots
  head,      \* INBUF_START, *iq_head
  tail,      \* INBUF_END, *iq_tail
  daemon,    \* where keyboard_daemon is
  typed,     \* the keys pressed so far; the last one is the daemon's c
  pending,   \* the keyboard interrupt in interrupt_state
  handler,   \* where INT_KEYBOARD is
  got,       \* what HW_GETC read
  last       \* history: the key last given to the terminal

daemonVars == <<daemon, typed>>
handlerVars == <<handler, got, last, head>>
vars == <<ring, tail, pending, daemonVars, handlerVars>>

Init ==
  /\ ring = [s \in Slots |-> Garbage]
  /\ head = 0 /\ tail = 0
  /\ daemon = "getch" /\ typed = 0
  /\ pending = FALSE
  /\ handler = "off" /\ got = Garbage /\ last = 0

-----------------------------------------------------------------------------
(* The daemon.                                                             *)

(* (iq_tail - iq_head + 4) % iq_size != 0, with iq_head and iq_tail the    *)
(* addresses of words 18 and 19 of the system information, not their       *)
(* contents.                                                               *)
QueueNotFull == ((19 - 18) + 4) % (4 * QSize) # 0

(* getch returns, and the daemon looks for room.                           *)
Type ==
  /\ daemon = "getch" /\ typed < MaxKeys /\ typed - last < Backlog
  /\ typed' = typed + 1
  /\ daemon' = IF QueueNotFull THEN "store" ELSE "getch"
  /\ UNCHANGED <<ring, tail, pending, handlerVars>>

(* Variant: the slot after the tail. *)
StoreAhead ==
  /\ daemon = "store"
  /\ ring' = [ring EXCEPT ![(tail + 1) % QSize] = typed]
  /\ daemon' = "advance"
  /\ UNCHANGED <<typed, tail, pending, handlerVars>>

Store ==
  /\ daemon = "store"
  /\ ring' = [ring EXCEPT ![tail] = typed]
  /\ daemon' = "advance"
  /\ UNCHANGED <<typed, tail, pending, handlerVars>>

Advance ==
  /\ daemon = "advance"
  /\ tail' = tail + 1
  /\ daemon' = "wrap"
  /\ UNCHANGED <<typed, ring, pending, handlerVars>>

(* Variant: the interrupt is raised only if the tail did not wrap. *)
WrapOrSignal ==
  /\ daemon = "wrap"
  /\ IF tail = QSize THEN tail' = 0 /\ daemon' = "getch"
                     ELSE tail' = tail /\ daemon' = "signal"
  /\ UNCHANGED <<typed, ring, pending, handlerVars>>

Wrap ==
  /\ daemon = "wrap"
  /\ tail' = IF tail = QSize THEN 0 ELSE tail
  /\ daemon' = "signal"
  /\ UNCHANGED <<typed, ring, pending, handlerVars>>

Signal ==
  /\ daemon = "signal"
  /\ pending' = TRUE
  /\ daemon' = "getch"
  /\ UNCHANGED <<typed, ring, tail, handlerVars>>

-----------------------------------------------------------------------------
(* The handler.                                                            *)

Enter ==
  /\ handler = "off" /\ pending
  /\ pending' = FALSE
  /\ handler' = "look"
  /\ UNCHANGED <<got, last, head, ring, tail, daemonVars>>

(* HW_GETC has a key, or the handler returns.                              *)
Look ==
  /\ handler = "look"
  /\ handler' = IF head = tail THEN "off" ELSE "read"
  /\ UNCHANGED <<pending, got, last, head, ring, tail, daemonVars>>

Read ==
  /\ handler = "read"
  /\ got' = ring[head]
  /\ handler' = "release"
  /\ UNCHANGED <<pending, last, head, ring, tail, daemonVars>>

(* Variant: an interrupt is one key. *)
ReleaseOne ==
  /\ handler = "release"
  /\ head' = IF head + 1 < QSize THEN head + 1 ELSE 0
  /\ last' = got
  /\ handler' = "off"
  /\ UNCHANGED <<pending, got, ring, tail, daemonVars>>

(* Variant: the head wraps one slot late. *)
ReleaseLate ==
  /\ handler = "release"
  /\ head' = IF head < QSize THEN head + 1 ELSE 0
  /\ last' = got
  /\ handler' = "look"
  /\ UNCHANGED <<pending, got, ring, tail, daemonVars>>

(* The end of HW_GETC; the key goes to the terminal.                       *)
Release ==
  /\ handler = "release"
  /\ head' = IF head + 1 < QSize THEN head + 1 ELSE 0
  /\ last' = got
  /\ handler' = "look"
  /\ UNCHANGED <<pending, got, ring, tail, daemonVars>>

-----------------------------------------------------------------------------
DaemonStores == Store \/ Advance \/ Wrap \/ Signal
Handle == Enter \/ Look \/ Read \/ Release

Next == Type \/ DaemonStores \/ Handle

Spec == Init /\ [][Next]_vars

(* Both threads run on; nobody has to type.  That an interrupt raised is   *)
(* taken is InterruptTaken of Cpu.                                         *)
FairSpec == Spec /\ WF_vars(DaemonStores) /\ WF_vars(Handle)

-----------------------------------------------------------------------------
(* Properties.                                                             *)

(* Types; the daemon alone sees the tail past the end of the ring.         *)
TypeOK ==
  /\ ring \in [Slots -> Keys \cup {Garbage}]
  /\ head \in Slots /\ tail \in 0 .. QSize
  /\ daemon \in {"getch", "store", "advance", "wrap", "signal"}
  /\ typed \in 0 .. MaxKeys
  /\ pending \in BOOLEAN
  /\ handler \in {"off", "look", "read", "release"}
  /\ got \in Keys \cup {Garbage} /\ last \in Keys \cup {Garbage}
  /\ tail = QSize => daemon = "wrap"

(* No key is left in the queue unnoticed: the handler may find the queue   *)
(* empty and return between any two stores of the daemon, but if a key is  *)
(* there, the handler is at work, its interrupt is pending, or the daemon  *)
(* is about to raise it (daemon.c:117-131, hwio.lib:139-161,               *)
(* memu.c:121 resets the interrupt before the handler looks).              *)
NoStrandedKey ==
  head # tail => pending \/ handler # "off" \/ daemon \in {"wrap", "signal"}

(* The terminal is given only keys that were pressed: a slot is written    *)
(* before the tail passes it, also when keys overrun the queue or when the *)
(* handler reads the tail before it wraps (daemon.c:117-130).              *)
OnlyTypedKeys == handler = "release" => got \in 1 .. typed

(* Every key in the queue is read in the end, and the handler returns.     *)
Drains == head # tail ~> head = tail /\ handler = "off"

(* "input queue not full" (daemon.c:115): the daemon stores a key only     *)
(* where there is room for it.                                             *)
InputQueueNotFull == daemon = "store" => (tail + 1) % QSize # head

(* The input buffer is a "round buffer" (spec.txt:70): keys come out of it *)
(* in the order in which they were pressed, each of them once.             *)
KeysInOrder == [][last' # last => last' > last]_vars

-----------------------------------------------------------------------------
(* The inductive invariant behind the first two: while the ring has slots  *)
(* that were never written the queue has not wrapped, and all slots before *)
(* the tail are written; the daemon stores a key that was pressed.         *)
Written(s) == ring[s] \in 1 .. typed
InUse ==
  \/ \A s \in Slots : Written(s)
  \/ /\ head <= tail
     /\ handler \in {"read", "release"} => head < tail
     /\ \A s \in Slots : s < tail \/ (s = tail /\ daemon = "advance") => Written(s)
Pressed == daemon = "store" => typed \in Keys
IInv == TypeOK /\ NoStrandedKey /\ OnlyTypedKeys /\ InUse /\ Pressed
===============================================================================
