-------------------------- MODULE MCAutoreleasePool --------------------------
(* Instances of AutoreleasePool: the pending objects are o1 and o2.          *)
EXTENDS AutoreleasePoolRefinement

CONSTANTS o1, o2
=============================================================================
