---------------------- MODULE ObjectLifetimeRefinement ----------------------
(***************************************************************************)
(* ObjectLifetime implements Ownership: header states become the lives of  *)
(* objects, counted references and occupied owner slots become references, *)
(* and the group of an object becomes the region its memory belongs to.    *)
(***************************************************************************)
EXTENDS ObjectLifetime

LifeOf(o) == CASE state[o] = "absent" -> "none"
               [] state[o] = "disposed" -> "expired"
               [] OTHER -> state[o]

RefsOf(o) ==
  IF o \in Cell THEN IF slot[OwnerSlot[o]] = o THEN 1 ELSE 0
  ELSE IF o \in InPlace THEN IF IsLive(o) THEN 1 ELSE 0
  ELSE held[o] + Cardinality(Refs(o))

RegionOf(o) == IF HasMemory(o) THEN RootOf(o) ELSE o

O == INSTANCE Ownership WITH
       life <- [o \in Object |-> LifeOf(o)],
       refs <- [o \in Object |-> RefsOf(o)],
       region <- [o \in Object |-> RegionOf(o)]

\* Every operation of the runtime is one that Ownership allows, or leaves what
\* Ownership speaks of as it was.
ImplementsOwnership == O!Spec
=============================================================================
