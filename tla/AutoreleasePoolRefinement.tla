---------------------- MODULE AutoreleasePoolRefinement ----------------------
(***************************************************************************)
(* AutoreleasePool implements PoolStack: the objects of a pool are those   *)
(* between its base and the base of the next pool in the shared array.     *)
(***************************************************************************)
EXTENDS AutoreleasePool

\* The pools and pops among frames, in order.
PoolsIn(frames) ==
  LET kept[n \in 0 .. Len(frames)] ==
        IF n = 0 THEN <<>>
        ELSE IF frames[n].kind = "dealloc" THEN kept[n - 1]
        ELSE Append(kept[n - 1], frames[n])
  IN kept[Len(frames)]

\* What each of them holds of the pending objects.
PoolsOf(frames, pending) ==
  LET BaseAfter(i) == IF i = Len(frames) THEN Len(pending) ELSE frames[i + 1].base IN
  [i \in 1 .. Len(frames) |->
     [held |-> SubSeq(pending, frames[i].base + 1, BaseAfter(i)),
      closing |-> frames[i].kind = "pop"]]

P == INSTANCE PoolStack WITH pools <- PoolsOf(PoolsIn(stack), objects)

\* Every push, autorelease and pop does what the stack of pools does.
ImplementsPoolStack == P!Spec
=============================================================================
