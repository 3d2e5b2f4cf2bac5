------------------------------- MODULE MCProc --------------------------------
(* Instances of Proc for TLC.                                              *)
EXTENDS Proc, TLC

(* Registers that say nothing: for the questions about the process table.  *)
NoRegs == {FreshRegs}

(* A program computes something the kernel never writes.                   *)
SomeRegs == {[v0 |-> 9, pc |-> 1, lo |-> 1]}

(* No program and no handler tells one image from another.                 *)
ImageSymmetry == Permutations(Images)
==============================================================================
