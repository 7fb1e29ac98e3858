------------------------------ MODULE Ownership ------------------------------
(***************************************************************************)
(* What the object runtime promises its program, without headers, groups   *)
(* or call stacks. An object lives until after its last reference is gone. *)
(* Its memory belongs to a region, its own or that of the parent it was    *)
(* allocated with, and a region is given back as a whole when nothing in   *)
(* it lives any more. An embedded value lives inside its home's memory and *)
(* is gone before its home is.                                             *)
(***************************************************************************)
EXTENDS Naturals

CONSTANTS Heap, Cell, HomeOf(_)

Object == Heap \cup Cell

VARIABLES
  life,    \* what has become of an object; values not embedded yet are expired
  refs,    \* references to it; an embedded value has one, from its slot
  region   \* the region its memory belongs to, named by the first object in it

vars == <<life, refs, region>>

Init ==
  /\ life = [o \in Object |-> IF o \in Heap THEN "none" ELSE "expired"]
  /\ refs = [o \in Object |-> 0]
  /\ region = [o \in Object |-> o]

Lives(o) == life[o] = "live"

\* A new object, in a region of its own or in that of a live one.
Create(o, r) ==
  /\ o \in Heap /\ life[o] = "none"
  /\ r = o \/ \E p \in Object : Lives(p) /\ region[p] = r
  /\ life' = [life EXCEPT ![o] = "live"]
  /\ refs' = [refs EXCEPT ![o] = 1]
  /\ region' = [region EXCEPT ![o] = r]

\* A new embedded value.
Embed(c) ==
  /\ ~Lives(c) /\ Lives(HomeOf(c))
  /\ life' = [life EXCEPT ![c] = "live"]
  /\ refs' = [refs EXCEPT ![c] = 1]
  /\ UNCHANGED region

\* References come and go, but never come back to an object that has none.
Rewire ==
  /\ \A o \in Object : refs[o] = 0 => refs'[o] = 0
  /\ UNCHANGED <<life, region>>

\* An object without references expires; with the last one of a region, the
\* memory of the region is given back.
Expire(o) ==
  LET region_o == {m \in Heap : region[m] = region[o] /\ life[m] # "none"}
      last == \A m \in region_o \ {o} : ~Lives(m) IN
  /\ Lives(o) /\ refs[o] = 0
  /\ o \in Heap => \A c \in Cell : HomeOf(c) = o => ~Lives(c)
  /\ life' = [m \in Object |-> IF o \in Heap /\ last /\ m \in region_o THEN "freed"
                               ELSE IF m = o THEN "expired" ELSE life[m]]
  /\ region' = [m \in Object |-> IF life'[m] = "freed" THEN m ELSE region[m]]
  /\ UNCHANGED refs

Next ==
  \/ \E o \in Heap, r \in Heap : Create(o, r)
  \/ \E c \in Cell : Embed(c)
  \/ Rewire
  \/ \E o \in Object : Expire(o)

Spec == Init /\ [][Next]_vars
=============================================================================
