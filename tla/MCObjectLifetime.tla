-------------------------- MODULE MCObjectLifetime --------------------------
(* Instances of ObjectLifetime. Objects h1, h2 and h3 have one strong ivar   *)
(* each (a1, a2, a3), h1 also the ivar v1 with the embedded value c1, whose  *)
(* own strong ivar is ac; h4 has none. A configuration keeps some of them.   *)
EXTENDS ObjectLifetimeRefinement, TLC

CONSTANTS h1, h2, h3, h4, c1, e1, a1, a2, a3, ac, v1

MCOwner == [s \in Slot |-> CASE s \in {a1, v1} -> h1
                             [] s = a2 -> h2
                             [] s = a3 -> h3
                             [] s = ac -> c1]
MCOwnerSlot == [c \in Cell |-> v1]
=============================================================================
