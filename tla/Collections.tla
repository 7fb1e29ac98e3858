----------------------------- MODULE Collections -----------------------------
(* List, Array and Map (StandardLibrary/src/SFStdLib/Collections), with      *)
(* blocks as their items: an item is retained, and what objc_retain returns  *)
(* for a block that is not on the heap is its copy. In a build with          *)
(* exceptions, a collection whose storage cannot be allocated never comes to *)
(* be. It has one reference, that of the program.                            *)
EXTENDS BlocksRuntime, SequencesExt

CONSTANTS
  FirstRoom,    \* the room of a list when it first grows
  MaxItems      \* bound on the items given to a collection

Kind == {"list", "array", "map"}
ASSUME CollectionsAssumption ==
  /\ Kind \cap (Literal \cup Var \cup {Nil}) = {}
  /\ FirstRoom \in Nat \ {0} /\ MaxItems \in Nat

VARIABLE
  room          \* for how many items a list has storage

collectionVars == <<blockVars, room>>

\* The fields of a holder are its items, of a map keys and values in turn.
Items(k) == cells[k].fields
Is(k, kind) == cells[k].from = kind

CollectionInit == BlockInit /\ room = [k \in Holder |-> 0]

\* What a thread may pass: blocks of its frame and those it has references to.
Passed(t) == {b \in Literal : open[t] /\ OwnerOf[b] = t} \cup {c \in Cell : held[c] > 0}
-----------------------------------------------------------------------------
(* What an initialiser does with the items it is given, as a sequence of     *)
(* steps: it puts an item into a slot, or drops what is there.               *)

PutIn(slot, x) == [drops |-> FALSE, slot |-> slot, item |-> x]
DropFrom(slot) == [drops |-> TRUE, slot |-> slot, item |-> Nil]

ArraySteps(xs) == [i \in DOMAIN xs |-> PutIn(i, xs[i])]

NoEqualKeys(keys, i, j) == FALSE
\* sf_map_keys_equal, of the key that was stored for keys[j]: not if it is a
\* copy.
EqualKeys(keys, i, j) == keys[i] = keys[j] /\ keys[j] \notin Literal \ Global

\* -[Map initWithObjects:forKeys:count:]: a key that is equal to one before
\* takes its place, with its value.
FirstEqual(keys, i) ==
  CHOOSE j \in 1 .. i : /\ j = i \/ EqualKeys(keys, i, j)
                        /\ \A l \in 1 .. j - 1 : ~EqualKeys(keys, i, l)
Places(keys) ==
  [i \in DOMAIN keys |->
     Cardinality({l \in 1 .. FirstEqual(keys, i) : FirstEqual(keys, l) = l})]
MapSteps(keys, values) ==
  FlattenSeq([i \in DOMAIN keys |->
    LET p == Places(keys)[i]
        put == <<PutIn(2 * p - 1, keys[i]), PutIn(2 * p, values[i])>> IN
    IF FirstEqual(keys, i) = i THEN put
    ELSE <<DropFrom(2 * p - 1), DropFrom(2 * p)>> \o put])
-----------------------------------------------------------------------------
New(t, k, kind, steps) ==
  /\ work[t] = <<>> /\ ~Used(k)
  /\ LET slots == {steps[i].slot : i \in DOMAIN steps} IN
     cells' = [cells EXCEPT ![k] = [from |-> kind, rc |-> 1,
                                    fields |-> [i \in slots |-> Nil], by |-> Nil]]
  /\ work' = [work EXCEPT ![t] = <<Call("fill", k, 1, steps)>>]
  /\ UNCHANGED <<forward, open, held, override>>

\* -[List initWithCapacity:]
NewList(t, k) ==
  /\ New(t, k, "list", <<>>)
  /\ \E capacity \in 0 .. MaxItems : room' = [room EXCEPT ![k] = capacity]

\* -[Array initWithObjects:count:]
NewArray(t, k) ==
  /\ \E xs \in BoundedSeq(Passed(t), MaxItems) : New(t, k, "array", ArraySteps(xs))
  /\ UNCHANGED room

\* -[Map initWithObjects:forKeys:count:]
NewMap(t, k) ==
  /\ \E keys, values \in BoundedSeq(Passed(t), MaxItems) :
       Len(keys) = Len(values) /\ New(t, k, "map", MapSteps(keys, values))
  /\ UNCHANGED room

StoreItself(t, k, slot, x) ==
  /\ cells' = [c \in DOMAIN cells |->
                 CASE c = k -> [cells[k] EXCEPT !.fields[slot] = x]
                   [] c = x -> [cells[x] EXCEPT !.rc = Incr(@)]
                   [] OTHER -> cells[c]]
  /\ Advance(t, <<>>)
\* [item retain], and the result is stored.
StoreRetained(t, k, slot, x) ==
  \/ /\ x \in Cell
     /\ cells' = [cells EXCEPT ![k].fields[slot] = x, ![x].rc = Incr(@)]
     /\ Advance(t, <<>>)
  \/ /\ x \in Literal
     /\ Advance(t, <<Call("copy", x, 0, [cell |-> k, at |-> slot])>>)
     /\ UNCHANGED cells

\* The initialisers and addObject: one step, or they return.
Fill(t) ==
  LET k == Innermost(t).ref
      i == Innermost(t).at
      steps == Innermost(t).into IN
  /\ Doing(t, "fill")
  /\ IF i > Len(steps) THEN Return(t) /\ UNCHANGED cells
     ELSE \/ /\ steps[i].drops
             /\ Advance(t, <<Call("release", Items(k)[steps[i].slot], 0, Nil)>>)
             /\ cells' = [cells EXCEPT ![k].fields[steps[i].slot] = Nil]
          \/ ~steps[i].drops /\ StoreRetained(t, k, steps[i].slot, steps[i].item)
  /\ UNCHANGED <<forward, open, held, override, room>>

\* -[List growToFit:]
Doubled(n, least) ==
  LET doubled[m \in Nat] == IF m >= least THEN m ELSE doubled[2 * m] IN doubled[n]
Grown(k) ==
  LET least == Len(Items(k)) + 1 IN
  IF least <= room[k] THEN room[k] ELSE Doubled(IF room[k] = 0 THEN FirstRoom ELSE room[k], least)

\* -[List addObject:]: the item is retained once there is room for it; when the
\* list cannot grow it stays as it is.
AddObject(t, k, x) ==
  /\ work[t] = <<>> /\ Is(k, "list") /\ Len(Items(k)) < MaxItems
  /\ \E capacity \in {Grown(k), room[k]} :
       /\ capacity > Len(Items(k))
       /\ room' = [room EXCEPT ![k] = capacity]
  /\ cells' = [cells EXCEPT ![k].fields = Append(@, Nil)]
  /\ work' = [work EXCEPT ![t] = <<Call("fill", k, 1, <<PutIn(Len(Items(k)) + 1, x)>>)>>]
  /\ UNCHANGED <<forward, open, held, override>>

\* The last release of a collection.
Drop(t, k) ==
  /\ work[t] = <<>> /\ Used(k)
  /\ work' = [work EXCEPT ![t] = <<Call("empty", k, 1, Nil)>>]
  /\ UNCHANGED <<cells, forward, open, held, override, room>>

\* -dealloc of the collections
Empty(t) ==
  LET k == Innermost(t).ref
      i == Innermost(t).at IN
  /\ Doing(t, "empty")
  /\ IF i > Len(Items(k))
     THEN /\ Return(t)
          /\ cells' = [cells EXCEPT ![k] = Unused]
          /\ room' = [room EXCEPT ![k] = 0]
     ELSE /\ Advance(t, <<Call("release", Items(k)[i], 0, Nil)>>)
          /\ UNCHANGED <<cells, room>>
  /\ UNCHANGED <<forward, open, held, override>>

NotInUse(k) == \A x \in Calls : CallAt(x).ref # k

CollectionNext ==
  \/ BlockNext /\ UNCHANGED room
  \/ \E t \in Thread : Fill(t) \/ Empty(t)
  \/ \E t \in Thread, k \in Holder : NotInUse(k) /\
       \/ NewList(t, k) \/ NewArray(t, k) \/ NewMap(t, k) \/ Drop(t, k)
       \/ \E x \in Passed(t) : AddObject(t, k, x)

CollectionSpec == CollectionInit /\ [][CollectionNext]_collectionVars
-----------------------------------------------------------------------------
\* No collection keeps a block of a frame, which would be gone with the frame:
\* its items are on the heap, global, or nothing if there was no memory.
ItemsOutliveFrames == \A k \in Holder : Range(Items(k)) \subseteq Cell \cup Global \cup {Nil}

\* A map has no key twice.
KeysDistinct ==
  \A k \in Holder : Is(k, "map") /\ NotInUse(k) =>
    \A i, j \in DOMAIN Items(k) :
      i % 2 = 1 /\ j % 2 = 1 /\ Items(k)[i] = Items(k)[j] => i = j \/ Items(k)[i] = Nil
=============================================================================
