--------------------------- MODULE AutoreleasePool ---------------------------
(***************************************************************************)
(* The autorelease pools of one thread (arc.c). Pending objects of all     *)
(* pools share one array; a second array has a marker per open pool, the   *)
(* length of the first when the pool was pushed; the token the program     *)
(* gives back to pop a pool holds the marker again. Each of the three      *)
(* allocations behind this can fail. A pop releases the pending objects    *)
(* one by one, and each release may run a dealloc that autoreleases and    *)
(* pushes and pops pools of its own.                                       *)
(***************************************************************************)
EXTENDS Naturals, Sequences

CONSTANTS
  Obj,            \* objects the program autoreleases
  FirstObjects,   \* initial capacity of the array of objects
  FirstMarkers,   \* initial capacity of the array of markers
  Failures,       \* allocations that can fail
  Unwinds,        \* whether exceptions leave pools without a pop
  MaxPending,     \* bound: pending objects
  MaxDepth,       \* bound: open pools, pops and deallocs in progress
  MaxMarkers      \* bound: markers, more than open pools when pops are skipped

ASSUME PoolAssumption ==
  /\ FirstObjects \in Nat \ {0} /\ FirstMarkers \in Nat \ {0}
  /\ Failures \subseteq {"object", "marker", "token"}
  /\ Unwinds \in BOOLEAN
  /\ MaxPending \in Nat /\ MaxDepth \in Nat /\ MaxMarkers \in Nat

VARIABLES
  objects,         \* g_autorelease_state.objects[0 .. count-1]
  objectCapacity,  \* g_autorelease_state.capacity
  markers,         \* g_autorelease_state.markers[0 .. marker_count-1]
  markerCapacity,  \* g_autorelease_state.marker_capacity
  fallback,        \* g_pool_fallback_token
  stack            \* the program's pools and the runtime's pops, outermost first

vars == <<objects, objectCapacity, markers, markerCapacity, fallback, stack>>

\* A pool the program has pushed, a pop that is releasing what the pool held,
\* or a dealloc called by such a pop. own: the token is a block of its own, or
\* the one all pools share; base: how many objects were pending at the push;
\* marker: down to how many a pop in progress releases.
Frame == [kind : {"pool", "pop", "dealloc"}, own : BOOLEAN, base : Nat, marker : Nat]
Top == stack[Len(stack)]
Running == stack # <<>> => Top.kind # "pop"

TypeOK ==
  /\ objects \in Seq(Obj) /\ objectCapacity \in Nat /\ Len(objects) <= objectCapacity
  /\ markers \in Seq(Nat) /\ markerCapacity \in Nat /\ Len(markers) <= markerCapacity
  /\ fallback \in Nat
  /\ stack \in Seq(Frame)

Init ==
  /\ objects = <<>> /\ objectCapacity = 0
  /\ markers = <<>> /\ markerCapacity = 0
  /\ fallback = 0
  /\ stack = <<>>

\* ensure_object_capacity and ensure_marker_capacity for one more element: the
\* capacities that can be left. The array had room, or it grows, or realloc
\* fails and the capacity stays too small.
Capacities(array, capacity, first, failure) ==
  IF capacity > Len(array) THEN {capacity}
  ELSE {IF capacity = 0 THEN first ELSE 2 * capacity}
       \cup (IF failure \in Failures THEN {capacity} ELSE {})

AutoreleaseUnchecked(o) ==
  /\ Running /\ Len(objects) < MaxPending
  /\ IF markers = <<>>
     THEN UNCHANGED <<objects, objectCapacity>>
     ELSE /\ objectCapacity' \in
               Capacities(objects, objectCapacity, FirstObjects, "object")
          /\ objects' = Append(objects, o)
  /\ UNCHANGED <<markers, markerCapacity, fallback, stack>>

\* sf_autorelease. Without a marker, or without room, the object is not kept.
Autorelease(o) ==
  /\ Running /\ Len(objects) < MaxPending
  /\ IF markers = <<>>
     THEN UNCHANGED <<objects, objectCapacity>>
     ELSE \E capacity \in Capacities(objects, objectCapacity, FirstObjects, "object") :
            /\ objectCapacity' = capacity
            /\ objects' = IF capacity > Len(objects) THEN Append(objects, o) ELSE objects
  /\ UNCHANGED <<markers, markerCapacity, fallback, stack>>

\* objc_autoreleasePoolPush
Push ==
  LET base == Len(objects) IN
  /\ Running /\ Len(stack) < MaxDepth /\ Len(markers) < MaxMarkers
  /\ \E capacity \in Capacities(markers, markerCapacity, FirstMarkers, "marker") :
       /\ markerCapacity' = capacity
       /\ markers' = IF capacity > Len(markers) THEN Append(markers, base) ELSE markers
  /\ \E own \in {TRUE} \cup {"token" \notin Failures} :
       /\ fallback' = IF own THEN fallback ELSE base
       /\ stack' = Append(stack, [kind |-> "pool", own |-> own, base |-> base, marker |-> 0])
  /\ UNCHANGED <<objects, objectCapacity>>

\* The marker of the pool is dropped if it is the last one.
WithoutMarker(marker) ==
  IF markers # <<>> /\ markers[Len(markers)] = marker
  THEN SubSeq(markers, 1, Len(markers) - 1) ELSE markers

TokenOneLess(pool) == IF pool.base > 0 THEN pool.base - 1 ELSE 0
\* The marker in the token the program gives back.
TokenMarker(pool) == IF pool.own THEN pool.base ELSE fallback

\* objc_autoreleasePoolPop, up to its loop. The program pops the innermost pool
\* it has not left; a marker beyond the array is clamped.
Pop ==
  LET marker == TokenMarker(Top)
      clamped == IF marker > Len(objects) THEN Len(objects) ELSE marker IN
  /\ stack # <<>> /\ Top.kind = "pool"
  /\ markers' = WithoutMarker(marker)
  /\ stack' = [stack EXCEPT ![Len(stack)] = [@ EXCEPT !.kind = "pop", !.marker = clamped]]
  /\ UNCHANGED <<objects, objectCapacity, markerCapacity, fallback>>

ReleaseOldest ==
  /\ stack # <<>> /\ Top.kind = "pop" /\ Len(objects) > Top.marker
  /\ objects' = Tail(objects)
  /\ UNCHANGED <<objectCapacity, markers, markerCapacity, fallback, stack>>

\* One turn of the loop: the last object is taken out and then released, which
\* may run its dealloc.
ReleaseNext ==
  /\ stack # <<>> /\ Top.kind = "pop" /\ Len(objects) > Top.marker
  /\ objects' = SubSeq(objects, 1, Len(objects) - 1)
  /\ \/ UNCHANGED stack
     \/ /\ Len(stack) < MaxDepth
        /\ stack' = Append(stack, [kind |-> "dealloc", own |-> TRUE,
                                   base |-> Len(objects) - 1, marker |-> 0])
  /\ UNCHANGED <<objectCapacity, markers, markerCapacity, fallback>>

Outer == SubSeq(stack, 1, Len(stack) - 1)

\* The dealloc returns: its own pools are popped by then.
DeallocReturns ==
  /\ stack # <<>> /\ Top.kind = "dealloc"
  /\ stack' = Outer
  /\ UNCHANGED <<objects, objectCapacity, markers, markerCapacity, fallback>>

PopReturnsEarly ==
  /\ stack # <<>> /\ Top.kind = "pop"
  /\ stack' = Outer
  /\ UNCHANGED <<objects, objectCapacity, markers, markerCapacity, fallback>>

\* The loop ends and the pop returns.
PopReturns ==
  /\ stack # <<>> /\ Top.kind = "pop" /\ Len(objects) <= Top.marker
  /\ stack' = Outer
  /\ UNCHANGED <<objects, objectCapacity, markers, markerCapacity, fallback>>

\* An exception takes the program out of an @autoreleasepool: the compiler pops
\* a pool on the normal path only.
Unwind ==
  /\ Unwinds /\ stack # <<>> /\ Top.kind = "pool"
  /\ stack' = Outer
  /\ UNCHANGED <<objects, objectCapacity, markers, markerCapacity, fallback>>

Next ==
  \/ \E o \in Obj : Autorelease(o)
  \/ Push \/ Pop \/ ReleaseNext \/ DeallocReturns \/ PopReturns \/ Unwind

Spec == Init /\ [][Next]_vars
-----------------------------------------------------------------------------
\* A pop releases what belongs to its pool and to pools inside it: what was
\* pending before the push of a pool that is still open is pending.
OuterPoolsKept == \A i \in DOMAIN stack : stack[i].base <= Len(objects)

\* When a pop returns, nothing autoreleased since the push is pending.
PopReleasesAll ==
  [][stack # <<>> /\ Top.kind = "pop" /\ Len(stack') < Len(stack)
       => Len(objects) = Top.base]_vars
=============================================================================
