------------------------------ MODULE PoolStack ------------------------------
(***************************************************************************)
(* What autorelease pools promise: a stack of pools, each with the objects *)
(* autoreleased while it was the innermost one. Closing a pool releases    *)
(* its objects, the last one first, together with those autoreleased in    *)
(* the meantime. A pool that is left without being closed leaves its       *)
(* objects to the one around it.                                           *)
(***************************************************************************)
EXTENDS Naturals, Sequences

CONSTANT Obj

VARIABLE pools  \* outermost first: [held : Seq(Obj), closing : BOOLEAN]

Inner == pools[Len(pools)]
Outer == SubSeq(pools, 1, Len(pools) - 1)

Init == pools = <<>>

Open == pools' = Append(pools, [held |-> <<>>, closing |-> FALSE])

Keep(o) ==
  /\ pools # <<>>
  /\ pools' = [pools EXCEPT ![Len(pools)].held = Append(@, o)]

Close ==
  /\ pools # <<>> /\ ~Inner.closing
  /\ pools' = [pools EXCEPT ![Len(pools)].closing = TRUE]

ReleaseLast ==
  /\ pools # <<>> /\ Inner.closing /\ Inner.held # <<>>
  /\ pools' = [pools EXCEPT ![Len(pools)].held = SubSeq(@, 1, Len(@) - 1)]

Closed ==
  /\ pools # <<>> /\ Inner.closing /\ Inner.held = <<>>
  /\ pools' = Outer

Leave ==
  /\ pools # <<>> /\ ~Inner.closing
  /\ pools' = IF Outer = <<>> THEN <<>>
              ELSE [Outer EXCEPT ![Len(Outer)].held = @ \o Inner.held]

Next == Open \/ (\E o \in Obj : Keep(o)) \/ Close \/ ReleaseLast \/ Closed \/ Leave

Spec == Init /\ [][Next]_pools
=============================================================================
