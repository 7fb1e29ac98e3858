--------------------------- MODULE MCFastAllocator ---------------------------
(* Instances of FastAllocator: two threads, four or five addresses.        *)
EXTENDS FastAllocator, TLC

CONSTANTS t1, t2, b1, b2, b3, b4, b5

Addresses == Permutations(Block) \cup Permutations(Thread)
=============================================================================
