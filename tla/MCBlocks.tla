------------------------------ MODULE MCBlocks ------------------------------
(* Two threads share what is on the heap. A frame of one has a variable, a   *)
(* block that captures it and another block, which captures it as well and   *)
(* a global block. To keep the instance small, either both threads run and   *)
(* there are no collections, or one does, the program keeps one reference to *)
(* blocks, and all copies are made by malloc.                                *)
EXTENDS Collections, TLC

CONSTANTS k1, c1, c2, c3, arena, t1, t2, outer, inner, plain, v1

VARIABLE mode

Cells == Permutations(Cell)
MCOwnerOf == [x \in Literal \cup Var |-> t1]
MCCaptures == [b \in Literal |-> CASE b = outer -> <<v1, inner>> [] b = inner -> <<v1, plain>>
                                   [] OTHER -> <<>>]

MCInit == CollectionInit /\ mode \in {"threads", "collections"}
MCNext ==
  /\ UNCHANGED mode
  /\ \/ mode = "threads" /\ BlockNext /\ UNCHANGED room
     \/ mode = "collections" /\ CollectionNext /\ work'[t2] = work[t2] /\ UNCHANGED override
        /\ MapThenSumSet(LAMBDA c : held'[c], Cell) <= 1
MCSpec == MCInit /\ [][MCNext]_<<collectionVars, mode>>
=============================================================================
