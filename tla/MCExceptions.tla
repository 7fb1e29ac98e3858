---------------------------- MODULE MCExceptions ----------------------------
(* Instances of Exceptions: two objects, and exceptions to carry them.     *)
EXTENDS Exceptions, TLC

CONSTANTS o1, o2, x1, x2, x3

Blocks == Permutations(Exc)
=============================================================================
