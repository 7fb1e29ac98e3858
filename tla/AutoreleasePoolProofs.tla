------------------------ MODULE AutoreleasePoolProofs ------------------------
(***************************************************************************)
(* What a pop releases, for every number of objects, pools and pops in     *)
(* progress, and whichever allocations fail: never what an outer pool      *)
(* holds; and, when every pool has a token of its own, all its pool holds, *)
(* as a stack of pools does.                                               *)
(***************************************************************************)
EXTENDS AutoreleasePoolRefinement, SequenceTheorems, WellFoundedInduction, TLAPS

\* The pools, pops and deallocs began one after the other, with at least as
\* many objects pending as those around them, all of them still pending.
Nested ==
  \A i, j \in DOMAIN stack : i <= j => stack[i].base <= stack[j].base

\* The token all pools without their own share was written by the last of them.
TokensAhead ==
  \A i \in DOMAIN stack :
    stack[i].kind = "pool" /\ ~stack[i].own => stack[i].base <= fallback

\* A pop stops no lower than its pool began.
PopsStop ==
  \A i \in DOMAIN stack : stack[i].kind = "pop" => stack[i].base <= stack[i].marker

IInv == TypeOK /\ Nested /\ OuterPoolsKept /\ TokensAhead /\ PopsStop

\* With a token for each pool, a pop releases down to where its pool began.
OwnTokens ==
  \A i \in DOMAIN stack :
    stack[i].own /\ (stack[i].kind = "pop" => stack[i].marker = stack[i].base)

-----------------------------------------------------------------------------
\* A capacity that is left has room for one more element, or is the old one.
LEMMA CapacityLeft ==
  ASSUME NEW array, Len(array) \in Nat, NEW capacity \in Nat, Len(array) <= capacity,
         NEW first \in Nat \ {0}, NEW failure,
         NEW c \in Capacities(array, capacity, first, failure)
  PROVE  c \in Nat /\ Len(array) <= c
BY DEF Capacities

\* A sequence without its last element.
LEMMA WithoutLast ==
  ASSUME NEW S, NEW s \in Seq(S), s # <<>>
  PROVE  /\ Len(s) \in Nat \ {0}
         /\ SubSeq(s, 1, Len(s) - 1) \in Seq(S)
         /\ Len(SubSeq(s, 1, Len(s) - 1)) = Len(s) - 1
         /\ \A i \in 1 .. Len(s) - 1 : SubSeq(s, 1, Len(s) - 1)[i] = s[i]
<1>1. Len(s) \in Nat \ {0}
  BY EmptySeq, LenProperties
<1> DEFINE n == Len(s) - 1
<1>2. n \in Nat
  BY <1>1
<1>3. \A i \in 1 .. n : s[i] \in S
  BY <1>1, ElementOfSeq
<1> HIDE DEF n
<1>4. /\ SubSeq(s, 1, n) \in Seq(S)
      /\ Len(SubSeq(s, 1, n)) = IF 1 <= n THEN n - 1 + 1 ELSE 0
      /\ \A i \in 1 .. n - 1 + 1 : SubSeq(s, 1, n)[i] = s[1 + i - 1]
  BY <1>2, <1>3, SubSeqProperties
<1>5. Len(SubSeq(s, 1, n)) = n /\ \A i \in 1 .. n : SubSeq(s, 1, n)[i] = s[i]
  BY <1>2, <1>4
<1> QED
  BY <1>1, <1>4, <1>5 DEF n

\* What entering a pool, a pop or a dealloc does to the stack.
LEMMA Entered ==
  ASSUME stack \in Seq(Frame), NEW f \in Frame, stack' = Append(stack, f)
  PROVE  /\ stack' \in Seq(Frame)
         /\ DOMAIN stack' = 1 .. Len(stack) + 1 /\ DOMAIN stack = 1 .. Len(stack)
         /\ Len(stack) \in Nat /\ Len(stack') = Len(stack) + 1
         /\ \A i \in 1 .. Len(stack) : stack'[i] = stack[i]
         /\ stack'[Len(stack) + 1] = f
<1>1. /\ Append(stack, f) \in Seq(Frame) /\ Len(Append(stack, f)) = Len(stack) + 1
      /\ \A i \in 1 .. Len(stack) : Append(stack, f)[i] = stack[i]
      /\ Append(stack, f)[Len(stack) + 1] = f
  BY AppendProperties
<1>2. Len(stack) \in Nat /\ DOMAIN stack = 1 .. Len(stack)
  BY LenProperties
<1>3. DOMAIN stack' = 1 .. Len(stack')
  BY <1>1, LenProperties
<1> QED
  BY <1>1, <1>2, <1>3

\* What leaving one does.
LEMMA Left ==
  ASSUME stack \in Seq(Frame), stack # <<>>, stack' = Outer
  PROVE  /\ stack' \in Seq(Frame)
         /\ DOMAIN stack' = 1 .. Len(stack) - 1 /\ DOMAIN stack = 1 .. Len(stack)
         /\ Len(stack) \in Nat \ {0} /\ Len(stack') = Len(stack) - 1
         /\ \A i \in 1 .. Len(stack) - 1 : stack'[i] = stack[i]
<1>1. Len(stack) \in Nat \ {0} /\ DOMAIN stack = 1 .. Len(stack)
  BY EmptySeq, LenProperties
<1>2. /\ Outer \in Seq(Frame)
      /\ Len(Outer) = Len(stack) - 1
      /\ \A i \in 1 .. Len(stack) - 1 : Outer[i] = stack[i]
  BY WithoutLast DEF Outer
<1>3. DOMAIN stack' = 1 .. Len(stack')
  BY <1>2, LenProperties
<1> QED
  BY <1>1, <1>2, <1>3

\* The frame in progress is the last.
LEMMA LastFrame ==
  ASSUME stack \in Seq(Frame), stack # <<>>
  PROVE  /\ Len(stack) \in Nat \ {0} /\ DOMAIN stack = 1 .. Len(stack)
         /\ Len(stack) \in DOMAIN stack /\ Top \in Frame
         /\ Top = stack[Len(stack)]
<1>1. Len(stack) \in Nat \ {0} /\ DOMAIN stack = 1 .. Len(stack)
  BY EmptySeq, LenProperties
<1> QED
  BY <1>1, ElementOfSeq DEF Top

LEMMA LengthsAreNat ==
  ASSUME TypeOK
  PROVE  Len(objects) \in Nat /\ Len(markers) \in Nat /\ Len(stack) \in Nat
BY LenProperties DEF TypeOK

LEMMA FramesTyped ==
  ASSUME IInv
  PROVE  /\ DOMAIN stack = 1 .. Len(stack)
         /\ \A i \in DOMAIN stack :
              /\ stack[i] \in Frame
              /\ stack[i].base \in Nat /\ stack[i].base <= Len(objects)
              /\ stack[i].marker \in Nat /\ stack[i].own \in BOOLEAN
<1>1. stack \in Seq(Frame) /\ DOMAIN stack = 1 .. Len(stack)
  BY LenProperties DEF IInv, TypeOK
<1> SUFFICES ASSUME NEW i \in DOMAIN stack
             PROVE  /\ stack[i] \in Frame
                    /\ stack[i].base \in Nat /\ stack[i].base <= Len(objects)
                    /\ stack[i].marker \in Nat /\ stack[i].own \in BOOLEAN
  BY <1>1
<1>2. stack[i] \in Frame
  BY <1>1, ElementOfSeq
<1>3. stack[i].base \in Nat /\ stack[i].marker \in Nat /\ stack[i].own \in BOOLEAN
  BY <1>2 DEF Frame
<1>4. stack[i].base <= Len(objects)
  BY DEF IInv, OuterPoolsKept
<1> QED
  BY <1>2, <1>3, <1>4

-----------------------------------------------------------------------------
LEMMA InitOK == ASSUME PoolAssumption, Init PROVE IInv
<1>1. DOMAIN stack = {} /\ Len(objects) = 0 /\ Len(markers) = 0
  BY DEF Init
<1>2. TypeOK
  BY <1>1, EmptySeq DEF Init, TypeOK
<1> QED
  BY <1>1, <1>2 DEF IInv, Nested, OuterPoolsKept, TokensAhead, PopsStop

LEMMA AutoreleaseStep ==
  ASSUME PoolAssumption, IInv, NEW o \in Obj, Autorelease(o) PROVE IInv'
<1>1. TypeOK /\ Len(objects) \in Nat
  BY LengthsAreNat DEF IInv
<1>2. /\ objects' \in Seq(Obj) /\ objectCapacity' \in Nat
      /\ Len(objects') <= objectCapacity' /\ Len(objects') >= Len(objects)
      /\ Len(objects') \in Nat
  <2>1. CASE markers = <<>>
    BY <1>1, <2>1 DEF Autorelease, TypeOK
  <2>2. CASE markers # <<>>
    <3>1. PICK capacity \in Capacities(objects, objectCapacity, FirstObjects, "object") :
            /\ objectCapacity' = capacity
            /\ objects' = IF capacity > Len(objects) THEN Append(objects, o) ELSE objects
      BY <2>2 DEF Autorelease
    <3>2. capacity \in Nat /\ Len(objects) <= capacity
      BY <1>1, CapacityLeft DEF TypeOK, PoolAssumption
    <3>3. Append(objects, o) \in Seq(Obj) /\ Len(Append(objects, o)) = Len(objects) + 1
      BY <1>1, AppendProperties DEF TypeOK
    <3> QED
      BY <1>1, <3>1, <3>2, <3>3 DEF TypeOK
  <2> QED
    BY <2>1, <2>2
<1>3. UNCHANGED <<markers, markerCapacity, fallback, stack>>
  BY DEF Autorelease
<1>4. TypeOK'
  BY <1>1, <1>2, <1>3 DEF TypeOK
<1>5. OuterPoolsKept'
  <2>1. \A i \in DOMAIN stack : stack[i].base \in Nat /\ stack[i].base <= Len(objects)
    BY FramesTyped
  <2> QED
    BY <1>1, <1>2, <1>3, <2>1 DEF OuterPoolsKept
<1> QED
  BY <1>3, <1>4, <1>5 DEF IInv, Nested, TokensAhead, PopsStop

LEMMA PushStep ==
  ASSUME PoolAssumption, IInv, Push PROVE IInv'
<1>1. TypeOK /\ Len(objects) \in Nat /\ Len(markers) \in Nat
  BY LengthsAreNat DEF IInv
<1>2. PICK own \in BOOLEAN :
        /\ fallback' = IF own THEN fallback ELSE Len(objects)
        /\ stack' = Append(stack, [kind |-> "pool", own |-> own,
                                   base |-> Len(objects), marker |-> 0])
  BY DEF Push
<1> DEFINE f == [kind |-> "pool", own |-> own, base |-> Len(objects), marker |-> 0]
<1>3. f \in Frame
  BY <1>1 DEF Frame
<1>4. /\ stack' \in Seq(Frame)
      /\ DOMAIN stack' = 1 .. Len(stack) + 1 /\ DOMAIN stack = 1 .. Len(stack)
      /\ Len(stack) \in Nat
      /\ \A i \in 1 .. Len(stack) : stack'[i] = stack[i]
      /\ stack'[Len(stack) + 1] = f
  BY <1>1, <1>2, <1>3, Entered DEF TypeOK
<1>5. UNCHANGED <<objects, objectCapacity>>
  BY DEF Push
<1>6. TypeOK'
  <2>1. PICK capacity \in Capacities(markers, markerCapacity, FirstMarkers, "marker") :
          /\ markerCapacity' = capacity
          /\ markers' = IF capacity > Len(markers) THEN Append(markers, Len(objects))
                        ELSE markers
    BY DEF Push
  <2>2. capacity \in Nat /\ Len(markers) <= capacity
    BY <1>1, CapacityLeft DEF TypeOK, PoolAssumption
  <2>3. /\ Append(markers, Len(objects)) \in Seq(Nat)
        /\ Len(Append(markers, Len(objects))) = Len(markers) + 1
    BY <1>1, AppendProperties DEF TypeOK
  <2>4. markers' \in Seq(Nat) /\ markerCapacity' \in Nat /\ Len(markers') <= markerCapacity'
    BY <1>1, <2>1, <2>2, <2>3 DEF TypeOK
  <2> QED
    BY <1>1, <1>2, <1>4, <1>5, <2>4 DEF TypeOK
<1>7. \A i \in 1 .. Len(stack) : stack[i].base \in Nat /\ stack[i].base <= Len(objects)
  BY FramesTyped, <1>4
<1>8. \A i \in 1 .. Len(stack) + 1 :
        stack'[i].base \in Nat /\ stack'[i].base <= Len(objects)
  BY <1>1, <1>4, <1>7
<1>9. OuterPoolsKept'
  BY <1>4, <1>5, <1>8 DEF OuterPoolsKept
<1>10. Nested'
  <2> SUFFICES ASSUME NEW i \in 1 .. Len(stack) + 1, NEW j \in 1 .. Len(stack) + 1, i <= j
               PROVE  stack'[i].base <= stack'[j].base
    BY <1>4 DEF Nested
  <2>1. CASE j = Len(stack) + 1
    BY <1>4, <1>8, <2>1
  <2>2. CASE j # Len(stack) + 1
    BY <1>4, <2>2 DEF IInv, Nested
  <2> QED
    BY <2>1, <2>2
<1>11. TokensAhead'
  <2> SUFFICES ASSUME NEW i \in 1 .. Len(stack) + 1, stack'[i].kind = "pool", ~stack'[i].own
               PROVE  stack'[i].base <= fallback'
    BY <1>4 DEF TokensAhead
  <2>1. CASE i = Len(stack) + 1
    <3>1. ~own
      BY <1>4, <2>1
    <3> QED
      BY <1>2, <1>8, <3>1
  <2>2. CASE i # Len(stack) + 1
    <3>1. i \in 1 .. Len(stack) /\ stack'[i] = stack[i] /\ stack[i].base <= fallback
      BY <1>4, <2>2 DEF IInv, TokensAhead
    <3> QED
      BY <1>2, <1>7, <3>1
  <2> QED
    BY <2>1, <2>2
<1>12. PopsStop'
  BY <1>4 DEF IInv, PopsStop
<1> QED
  BY <1>6, <1>9, <1>10, <1>11, <1>12 DEF IInv

LEMMA PopStep ==
  ASSUME PoolAssumption, IInv, Pop PROVE IInv'
<1>1. TypeOK /\ Len(objects) \in Nat /\ Len(markers) \in Nat /\ fallback \in Nat
  BY LengthsAreNat DEF IInv, TypeOK
<1>2. stack # <<>> /\ Top.kind = "pool"
  BY DEF Pop
<1>3. /\ Len(stack) \in Nat \ {0} /\ DOMAIN stack = 1 .. Len(stack)
      /\ Len(stack) \in DOMAIN stack /\ Top \in Frame /\ Top = stack[Len(stack)]
  BY <1>1, <1>2, LastFrame DEF TypeOK
<1>4. Top.base \in Nat /\ Top.base <= Len(objects) /\ Top.own \in BOOLEAN
  BY <1>3, FramesTyped
<1> DEFINE marker == TokenMarker(Top)
           clamped == IF marker > Len(objects) THEN Len(objects) ELSE marker
           f == [Top EXCEPT !.kind = "pop", !.marker = clamped]
<1>5. marker \in Nat /\ Top.base <= marker
  <2>1. CASE Top.own
    BY <1>4, <2>1 DEF TokenMarker
  <2>2. CASE ~Top.own
    <3>1. Top.base <= fallback
      BY <1>2, <1>3, <2>2 DEF IInv, TokensAhead
    <3> QED
      BY <1>1, <2>2, <3>1 DEF TokenMarker
  <2> QED
    BY <2>1, <2>2
<1>6. clamped \in Nat /\ Top.base <= clamped
  BY <1>1, <1>4, <1>5
<1>7. f \in Frame /\ f.kind = "pop" /\ f.base = Top.base /\ f.marker = clamped
  BY <1>3, <1>6 DEF Frame
<1>8. /\ stack' = [stack EXCEPT ![Len(stack)] = f]
      /\ markers' = WithoutMarker(marker)
      /\ UNCHANGED <<objects, objectCapacity, markerCapacity, fallback>>
  BY <1>3 DEF Pop
<1> HIDE DEF marker, clamped, f
<1>9. /\ stack' \in Seq(Frame) /\ DOMAIN stack' = DOMAIN stack
      /\ stack'[Len(stack)] = f
      /\ \A i \in DOMAIN stack : i # Len(stack) => stack'[i] = stack[i]
  <2>1. stack \in Seq(Frame)
    BY <1>1 DEF TypeOK
  <2>2. /\ [stack EXCEPT ![Len(stack)] = f] \in Seq(Frame)
        /\ Len([stack EXCEPT ![Len(stack)] = f]) = Len(stack)
    BY <1>3, <1>7, <2>1, ExceptSeq
  <2>3. DOMAIN stack' = DOMAIN stack
    BY <1>8
  <2>4. /\ stack'[Len(stack)] = f
        /\ \A i \in DOMAIN stack : i # Len(stack) => stack'[i] = stack[i]
    BY <1>3, <1>8
  <2> QED
    BY <1>8, <2>2, <2>3, <2>4
<1>10. markers' \in Seq(Nat) /\ Len(markers') <= markerCapacity'
  <2>1. CASE markers' = markers
    BY <1>1, <1>8, <2>1 DEF TypeOK
  <2>2. CASE markers # <<>> /\ markers' = SubSeq(markers, 1, Len(markers) - 1)
    <3>1. Len(markers) \in Nat \ {0}
      BY <1>1, <2>2, EmptySeq DEF TypeOK
    <3>2. /\ SubSeq(markers, 1, Len(markers) - 1) \in Seq(Nat)
          /\ Len(SubSeq(markers, 1, Len(markers) - 1)) = Len(markers) - 1
      BY <1>1, <2>2, WithoutLast DEF TypeOK
    <3>3. PICK rest : rest = SubSeq(markers, 1, Len(markers) - 1)
      OBVIOUS
    <3>4. markers' = rest /\ rest \in Seq(Nat) /\ Len(rest) = Len(markers) - 1
      BY <2>2, <3>2, <3>3
    <3>5. Len(markers) <= markerCapacity /\ markerCapacity \in Nat
          /\ markerCapacity' = markerCapacity
      BY <1>1, <1>8 DEF TypeOK
    <3>6. Len(rest) <= markerCapacity
      BY <3>1, <3>4, <3>5
    <3> QED
      BY <3>4, <3>5, <3>6
  <2> QED
    BY <1>8, <2>1, <2>2 DEF WithoutMarker
<1>11. TypeOK'
  BY <1>1, <1>8, <1>9, <1>10 DEF TypeOK
<1>12. \A i \in DOMAIN stack : stack'[i].base = stack[i].base
  BY <1>3, <1>7, <1>9
<1>13. Nested' /\ OuterPoolsKept'
  BY <1>8, <1>9, <1>12 DEF IInv, Nested, OuterPoolsKept
<1>14. TokensAhead'
  <2> SUFFICES ASSUME NEW i \in DOMAIN stack, stack'[i].kind = "pool", ~stack'[i].own
               PROVE  stack'[i].base <= fallback
    BY <1>8, <1>9 DEF TokensAhead
  <2>1. i # Len(stack)
    BY <1>7, <1>9
  <2> QED
    BY <1>9, <2>1 DEF IInv, TokensAhead
<1>15. PopsStop'
  <2> SUFFICES ASSUME NEW i \in DOMAIN stack, stack'[i].kind = "pop"
               PROVE  stack'[i].base <= stack'[i].marker
    BY <1>9 DEF PopsStop
  <2>1. CASE i = Len(stack)
    BY <1>6, <1>7, <1>9, <2>1
  <2>2. CASE i # Len(stack)
    BY <1>9, <2>2 DEF IInv, PopsStop
  <2> QED
    BY <2>1, <2>2
<1> QED
  BY <1>11, <1>13, <1>14, <1>15 DEF IInv

LEMMA ReleaseNextStep ==
  ASSUME PoolAssumption, IInv, ReleaseNext PROVE IInv'
<1>1. TypeOK /\ Len(objects) \in Nat
  BY LengthsAreNat DEF IInv
<1>2. stack # <<>> /\ Top.kind = "pop" /\ Len(objects) > Top.marker
  BY DEF ReleaseNext
<1>3. /\ Len(stack) \in Nat \ {0} /\ DOMAIN stack = 1 .. Len(stack)
      /\ Len(stack) \in DOMAIN stack /\ Top = stack[Len(stack)]
  BY <1>1, <1>2, LastFrame DEF TypeOK
<1>4. Top.base \in Nat /\ Top.marker \in Nat /\ Top.base <= Top.marker
  <2>1. Top.base <= Top.marker
    BY <1>2, <1>3 DEF IInv, PopsStop
  <2> QED
    BY <1>3, <2>1, FramesTyped
<1>5. Len(objects) \in Nat \ {0} /\ Top.base <= Len(objects) - 1
  BY <1>1, <1>2, <1>4
<1>6. /\ objects' = SubSeq(objects, 1, Len(objects) - 1)
      /\ UNCHANGED <<objectCapacity, markers, markerCapacity, fallback>>
  BY DEF ReleaseNext
<1>7. objects' \in Seq(Obj) /\ Len(objects') = Len(objects) - 1
  <2>1. objects \in Seq(Obj) /\ objects # <<>>
    BY <1>1, <1>5, EmptySeq DEF TypeOK
  <2> QED
    BY <1>6, <2>1, WithoutLast
\* All bases are at most the innermost one.
<1>8. \A i \in DOMAIN stack : stack[i].base \in Nat /\ stack[i].base <= Len(objects) - 1
  <2> SUFFICES ASSUME NEW i \in DOMAIN stack
               PROVE  stack[i].base \in Nat /\ stack[i].base <= Len(objects) - 1
    OBVIOUS
  <2>1. stack[i].base \in Nat
    BY FramesTyped
  <2>2. stack[i].base <= Top.base
    BY <1>3 DEF IInv, Nested
  <2> QED
    BY <1>4, <1>5, <2>1, <2>2
<1>9. objectCapacity' \in Nat /\ Len(objects') <= objectCapacity'
  BY <1>1, <1>5, <1>6, <1>7 DEF TypeOK
<1>10. CASE UNCHANGED stack
  <2>1. TypeOK'
    BY <1>1, <1>6, <1>7, <1>9, <1>10 DEF TypeOK
  <2>2. OuterPoolsKept'
    BY <1>7, <1>8, <1>10 DEF OuterPoolsKept
  <2> QED
    BY <1>6, <1>10, <2>1, <2>2 DEF IInv, Nested, TokensAhead, PopsStop
<1>11. CASE stack' = Append(stack, [kind |-> "dealloc", own |-> TRUE,
                                   base |-> Len(objects) - 1, marker |-> 0])
  <2> DEFINE f == [kind |-> "dealloc", own |-> TRUE, base |-> Len(objects) - 1, marker |-> 0]
  <2>1. f \in Frame
    BY <1>5 DEF Frame
  <2>2. /\ stack' \in Seq(Frame)
        /\ DOMAIN stack' = 1 .. Len(stack) + 1
        /\ \A i \in 1 .. Len(stack) : stack'[i] = stack[i]
        /\ stack'[Len(stack) + 1] = f
    BY <1>1, <1>11, <2>1, Entered DEF TypeOK
  <2>3. TypeOK'
    BY <1>1, <1>6, <1>7, <1>9, <2>2 DEF TypeOK
  <2>4. \A i \in 1 .. Len(stack) + 1 :
          stack'[i].base \in Nat /\ stack'[i].base <= Len(objects) - 1
    BY <1>3, <1>5, <1>8, <2>2
  <2>5. OuterPoolsKept'
    BY <1>7, <2>2, <2>4 DEF OuterPoolsKept
  <2>6. Nested'
    <3> SUFFICES ASSUME NEW i \in 1 .. Len(stack) + 1, NEW j \in 1 .. Len(stack) + 1, i <= j
                 PROVE  stack'[i].base <= stack'[j].base
      BY <2>2 DEF Nested
    <3>1. CASE j = Len(stack) + 1
      BY <2>2, <2>4, <3>1
    <3>2. CASE j # Len(stack) + 1
      BY <1>3, <2>2, <3>2 DEF IInv, Nested
    <3> QED
      BY <3>1, <3>2
  <2>7. TokensAhead'
    <3> SUFFICES ASSUME NEW i \in 1 .. Len(stack) + 1, stack'[i].kind = "pool", ~stack'[i].own
                 PROVE  stack'[i].base <= fallback
      BY <1>6, <2>2 DEF TokensAhead
    <3>1. i # Len(stack) + 1
      BY <2>2
    <3> QED
      BY <1>3, <2>2, <3>1 DEF IInv, TokensAhead
  <2>8. PopsStop'
    BY <1>3, <2>2 DEF IInv, PopsStop
  <2> QED
    BY <2>3, <2>5, <2>6, <2>7, <2>8 DEF IInv
<1> QED
  BY <1>10, <1>11 DEF ReleaseNext

\* A dealloc or a pop returns, or an exception takes the program out of a pool.
LEMMA LeaveStep ==
  ASSUME IInv, stack # <<>>, stack' = Outer,
         UNCHANGED <<objects, objectCapacity, markers, markerCapacity, fallback>>
  PROVE  IInv'
<1>1. TypeOK
  BY DEF IInv
<1>2. /\ stack' \in Seq(Frame) /\ DOMAIN stack' \subseteq DOMAIN stack
      /\ \A i \in DOMAIN stack' : stack'[i] = stack[i]
  BY <1>1, Left DEF TypeOK
<1>3. TypeOK'
  BY <1>1, <1>2 DEF TypeOK
<1>4. Nested' /\ OuterPoolsKept'
  BY <1>2 DEF IInv, Nested, OuterPoolsKept
<1>5. TokensAhead' /\ PopsStop'
  BY <1>2 DEF IInv, TokensAhead, PopsStop
<1> QED
  BY <1>3, <1>4, <1>5 DEF IInv

-----------------------------------------------------------------------------
LEMMA Inductive == ASSUME PoolAssumption, IInv, [Next]_vars PROVE IInv'
<1>1. ASSUME NEW o \in Obj, Autorelease(o) PROVE IInv'
  BY <1>1, AutoreleaseStep
<1>2. CASE Push
  BY <1>2, PushStep
<1>3. CASE Pop
  BY <1>3, PopStep
<1>4. CASE ReleaseNext
  BY <1>4, ReleaseNextStep
<1>5. CASE DeallocReturns
  BY <1>5, LeaveStep DEF DeallocReturns
<1>6. CASE PopReturns
  BY <1>6, LeaveStep DEF PopReturns
<1>7. CASE Unwind
  BY <1>7, LeaveStep DEF Unwind
<1>8. CASE UNCHANGED vars
  BY <1>8 DEF vars, IInv, TypeOK, Nested, OuterPoolsKept, TokensAhead, PopsStop
<1> QED
  BY <1>1, <1>2, <1>3, <1>4, <1>5, <1>6, <1>7, <1>8 DEF Next

LEMMA Invariance == Spec => []IInv
<1>1. Init => IInv
  BY InitOK, PoolAssumption
<1>2. IInv /\ [Next]_vars => IInv'
  BY Inductive, PoolAssumption
<1> QED
  BY <1>1, <1>2, PTL DEF Spec

\* The arrays stay within their capacities whichever allocations fail:
\* ensure_object_capacity and ensure_marker_capacity guard every write.
THEOREM ArraysInBounds == Spec => []TypeOK
<1>1. IInv => TypeOK
  BY DEF IInv
<1> QED
  BY <1>1, Invariance, PTL

\* objc_autoreleasePoolPop never releases what was pending before the push of
\* a pool that is still open, whichever allocations fail and whatever pools
\* exceptions have left without a pop.
THEOREM OuterPoolsSafe == Spec => []OuterPoolsKept
<1>1. IInv => OuterPoolsKept
  BY DEF IInv
<1> QED
  BY <1>1, Invariance, PTL

-----------------------------------------------------------------------------
\* Entering a frame that has a token of its own and is no pop.
LEMMA OwnTokensEntered ==
  ASSUME TypeOK, OwnTokens, NEW f \in Frame, f.own, f.kind # "pop",
         stack' = Append(stack, f)
  PROVE  OwnTokens'
<1>1. /\ DOMAIN stack' = 1 .. Len(stack) + 1 /\ DOMAIN stack = 1 .. Len(stack)
      /\ \A i \in 1 .. Len(stack) : stack'[i] = stack[i]
      /\ stack'[Len(stack) + 1] = f /\ Len(stack) \in Nat
  BY Entered DEF TypeOK
<1> QED
  BY <1>1 DEF OwnTokens

LEMMA OwnTokensLeft ==
  ASSUME TypeOK, OwnTokens, stack # <<>>, stack' = Outer PROVE OwnTokens'
<1>1. /\ DOMAIN stack' \subseteq DOMAIN stack
      /\ \A i \in DOMAIN stack' : stack'[i] = stack[i]
  BY Left DEF TypeOK
<1> QED
  BY <1>1 DEF OwnTokens

LEMMA OwnTokensPopped ==
  ASSUME IInv, OwnTokens, Pop PROVE OwnTokens'
<1>1. stack # <<>> /\ Top.kind = "pool"
  BY DEF Pop
<1>2. /\ Len(stack) \in DOMAIN stack /\ Top \in Frame /\ Top = stack[Len(stack)]
      /\ Len(objects) \in Nat
  BY <1>1, LastFrame, LengthsAreNat DEF IInv, TypeOK
<1>3. Top.own /\ Top.base \in Nat /\ Top.base <= Len(objects)
  BY <1>2, FramesTyped DEF OwnTokens
<1> DEFINE f == [Top EXCEPT !.kind = "pop", !.marker = Top.base]
<1>4. f.own /\ f.marker = f.base
  BY <1>2, <1>3 DEF Frame
<1>5. stack' = [stack EXCEPT ![Len(stack)] = f]
  <2> DEFINE marker == TokenMarker(Top)
             clamped == IF marker > Len(objects) THEN Len(objects) ELSE marker
  <2>1. stack' = [stack EXCEPT ![Len(stack)] =
                    [Top EXCEPT !.kind = "pop", !.marker = clamped]]
    BY <1>2 DEF Pop
  <2>2. marker = Top.base
    BY <1>3 DEF TokenMarker
  <2> HIDE DEF marker
  <2>3. clamped = Top.base
    BY <1>2, <1>3, <2>2
  <2> QED
    BY <2>1, <2>3
<1> HIDE DEF f
<1>6. /\ DOMAIN stack' = DOMAIN stack /\ stack'[Len(stack)] = f
      /\ \A i \in DOMAIN stack : i # Len(stack) => stack'[i] = stack[i]
  BY <1>2, <1>5
<1> QED
  BY <1>4, <1>6 DEF OwnTokens

LEMMA OwnTokensInductive ==
  ASSUME "token" \notin Failures, IInv, OwnTokens, [Next]_vars PROVE OwnTokens'
<1>0. TypeOK /\ Len(objects) \in Nat
  BY LengthsAreNat DEF IInv
<1>1. ASSUME NEW o \in Obj, Autorelease(o) PROVE OwnTokens'
  BY <1>1 DEF Autorelease, OwnTokens
<1>2. CASE Push
  <2> DEFINE f == [kind |-> "pool", own |-> TRUE, base |-> Len(objects), marker |-> 0]
  <2>1. stack' = Append(stack, f)
    BY <1>2 DEF Push
  <2>2. f \in Frame /\ f.own /\ f.kind # "pop"
    BY <1>0 DEF Frame
  <2> QED
    BY <1>0, <2>1, <2>2, OwnTokensEntered
<1>3. CASE Pop
  BY <1>3, OwnTokensPopped
<1>4. CASE ReleaseNext
  <2>1. CASE UNCHANGED stack
    BY <2>1 DEF OwnTokens
  <2> DEFINE f == [kind |-> "dealloc", own |-> TRUE, base |-> Len(objects) - 1, marker |-> 0]
  <2>2. CASE stack' = Append(stack, f)
    <3>1. stack # <<>> /\ Top.kind = "pop" /\ Len(objects) > Top.marker
      BY <1>4 DEF ReleaseNext
    <3>2. Top.marker \in Nat
      BY <1>0, <3>1, LastFrame, FramesTyped DEF TypeOK
    <3>3. f \in Frame /\ f.own /\ f.kind # "pop"
      BY <1>0, <3>1, <3>2 DEF Frame
    <3> QED
      BY <1>0, <2>2, <3>3, OwnTokensEntered
  <2> QED
    BY <1>4, <2>1, <2>2 DEF ReleaseNext
<1>5. CASE DeallocReturns
  BY <1>0, <1>5, OwnTokensLeft DEF DeallocReturns
<1>6. CASE PopReturns
  BY <1>0, <1>6, OwnTokensLeft DEF PopReturns
<1>7. CASE Unwind
  BY <1>0, <1>7, OwnTokensLeft DEF Unwind
<1>8. CASE UNCHANGED vars
  BY <1>8 DEF vars, OwnTokens
<1> QED
  BY <1>1, <1>2, <1>3, <1>4, <1>5, <1>6, <1>7, <1>8 DEF Next

\* No step but the end of its loop takes a pop off the stack.
LEMMA PopLeaves ==
  ASSUME IInv, OwnTokens, [Next]_vars,
         stack # <<>>, Top.kind = "pop", Len(stack') < Len(stack)
  PROVE  Len(objects) = Top.base
<1>1. /\ TypeOK /\ Len(objects) \in Nat /\ Len(stack) \in Nat
      /\ Len(stack) \in DOMAIN stack /\ Top = stack[Len(stack)]
  BY LengthsAreNat, LastFrame DEF IInv, TypeOK
<1>2. Top.base \in Nat /\ Top.base <= Len(objects) /\ Top.marker = Top.base
  BY <1>1, FramesTyped DEF OwnTokens
<1>3. stack' # stack
  BY <1>1
<1>4. ~Push /\ ~Pop /\ ~DeallocReturns /\ ~Unwind
  BY DEF Push, Pop, DeallocReturns, Unwind, Running
<1>5. ~ReleaseNext
  <2> SUFFICES ASSUME ReleaseNext PROVE FALSE
    OBVIOUS
  <2> DEFINE f == [kind |-> "dealloc", own |-> TRUE, base |-> Len(objects) - 1, marker |-> 0]
  <2>1. Len(objects) > Top.marker /\ stack' = Append(stack, f)
    BY <1>3 DEF ReleaseNext
  <2>2. f \in Frame
    BY <1>1, <1>2, <2>1 DEF Frame
  <2> QED
    BY <1>1, <2>1, <2>2, Entered DEF TypeOK
<1>6. \A o \in Obj : ~Autorelease(o)
  BY <1>3 DEF Autorelease
<1>7. PopReturns
  BY <1>3, <1>4, <1>5, <1>6 DEF Next, vars
<1> QED
  BY <1>1, <1>2, <1>7 DEF PopReturns

\* When every token is a block of its own, objc_autoreleasePoolPop returns with
\* nothing of its pool pending, even if the arrays could not grow or exceptions
\* left pools inside without a pop; g_pool_fallback_token is what makes the
\* assumption necessary.
THEOREM PoolsEmptied ==
  ASSUME "token" \notin Failures PROVE Spec => PopReleasesAll
<1>1. Init => OwnTokens
  BY DEF Init, OwnTokens
<1>2. IInv /\ OwnTokens /\ [Next]_vars => OwnTokens'
  BY OwnTokensInductive
<1>3. IInv /\ OwnTokens /\ [Next]_vars
        => [stack # <<>> /\ Top.kind = "pop" /\ Len(stack') < Len(stack)
              => Len(objects) = Top.base]_vars
  BY PopLeaves
<1> QED
  BY <1>1, <1>2, <1>3, Invariance, PTL DEF Spec, PopReleasesAll
-----------------------------------------------------------------------------
(* The pools among the frames, one frame at a time. Induction is on the      *)
(* least length for which it would fail.                                     *)

LEMMA Least ==
  ASSUME NEW T, T \subseteq Nat, T # {}
  PROVE  \E x \in T : \A y \in T : x <= y
<1>1. PICK x \in T : \A y \in T : ~(<<y, x>> \in OpToRel(<, Nat))
  BY NatLessThanWellFounded, WFMin
<1>2. \A y \in T : ~(y < x)
  BY <1>1 DEF OpToRel
<1> QED
  BY <1>2

\* What one more frame adds to the pools before it.
Kept(before, frame) == IF frame.kind = "dealloc" THEN before ELSE Append(before, frame)

Keeps(kept, frames, n) ==
  kept = [m \in 0 .. n |-> IF m = 0 THEN <<>> ELSE Kept(kept[m - 1], frames[m])]

LEMMA KeepsExists ==
  ASSUME NEW frames, NEW n \in Nat
  PROVE  \E kept : Keeps(kept, frames, n)
<1> DEFINE T == {m \in Nat : ~\E kept : Keeps(kept, frames, m)}
<1> SUFFICES ASSUME T # {} PROVE FALSE
  OBVIOUS
<1>1. PICK m \in T : \A y \in T : m <= y
  BY Least
<1>2. m \in Nat /\ ~\E kept : Keeps(kept, frames, m)
  BY <1>1
<1>3. CASE m = 0
  <2>1. PICK kept : kept = [k \in 0 .. m |-> <<>>]
    OBVIOUS
  <2>2. kept = [k \in 0 .. m |-> IF k = 0 THEN <<>> ELSE Kept(kept[k - 1], frames[k])]
    BY <1>3, <2>1
  <2> QED
    BY <1>2, <2>2 DEF Keeps
<1>4. CASE m # 0
  <2>1. m - 1 \in Nat /\ m - 1 \notin T
    BY <1>1, <1>2, <1>4
  <2>2. PICK f : Keeps(f, frames, m - 1)
    BY <2>1
  <2>3. \A k \in 0 .. m - 1 : f[k] = IF k = 0 THEN <<>> ELSE Kept(f[k - 1], frames[k])
    BY <2>2 DEF Keeps
  <2>4. PICK g : g = [k \in 0 .. m |-> IF k = m THEN Kept(f[m - 1], frames[m]) ELSE f[k]]
    OBVIOUS
  <2>5. \A k \in 0 .. m - 1 : g[k] = f[k]
    BY <1>2, <2>4
  <2>6. ASSUME NEW k \in 0 .. m
        PROVE  g[k] = IF k = 0 THEN <<>> ELSE Kept(g[k - 1], frames[k])
    <3>1. CASE k = m
      <4>1. k # 0 /\ m - 1 \in 0 .. m - 1 /\ g[k] = Kept(f[m - 1], frames[m])
        BY <1>2, <1>4, <2>4, <3>1
      <4>2. g[k - 1] = f[m - 1]
        BY <2>5, <3>1, <4>1
      <4> QED
        BY <3>1, <4>1, <4>2
    <3>2. CASE k # m
      <4>1. k \in 0 .. m - 1 /\ (k # 0 => k - 1 \in 0 .. m - 1)
        BY <1>2, <3>2
      <4> QED
        BY <2>3, <2>5, <4>1
    <3> QED
      BY <3>1, <3>2
  <2>7. g = [k \in 0 .. m |-> IF k = 0 THEN <<>> ELSE Kept(g[k - 1], frames[k])]
    BY <2>4, <2>6
  <2> QED
    BY <1>2, <2>7 DEF Keeps
<1> QED
  BY <1>3, <1>4

\* It depends on the frames up to there only.
LEMMA KeepsUnique ==
  ASSUME NEW s, NEW t, NEW n \in Nat, NEW m \in Nat, NEW f, NEW g,
         Keeps(f, s, n), Keeps(g, t, m),
         NEW k \in Nat, k <= n, k <= m, \A i \in 1 .. k : s[i] = t[i]
  PROVE  f[k] = g[k]
<1> DEFINE T == {i \in Nat : i <= k /\ f[i] # g[i]}
<1> SUFFICES ASSUME T # {} PROVE FALSE
  OBVIOUS
<1>1. PICK i \in T : \A y \in T : i <= y
  BY Least
<1>2. i \in Nat /\ i <= k /\ i \in 0 .. n /\ i \in 0 .. m /\ f[i] # g[i]
  BY <1>1
<1>3. /\ f[i] = IF i = 0 THEN <<>> ELSE Kept(f[i - 1], s[i])
      /\ g[i] = IF i = 0 THEN <<>> ELSE Kept(g[i - 1], t[i])
  BY <1>2 DEF Keeps
<1>4. i # 0
  BY <1>2, <1>3
<1>5. i - 1 \in Nat /\ i - 1 <= k /\ i - 1 \notin T /\ i \in 1 .. k
  BY <1>1, <1>2, <1>4
<1>6. f[i - 1] = g[i - 1] /\ s[i] = t[i]
  BY <1>5
<1> QED
  BY <1>2, <1>3, <1>4, <1>6

LEMMA PoolsAre ==
  ASSUME NEW frames, Len(frames) \in Nat
  PROVE  \E f : Keeps(f, frames, Len(frames)) /\ PoolsIn(frames) = f[Len(frames)]
<1> DEFINE f == CHOOSE kept : Keeps(kept, frames, Len(frames))
<1>1. PoolsIn(frames) = f[Len(frames)]
  BY DEF PoolsIn, Keeps, Kept
<1>2. Keeps(f, frames, Len(frames))
  BY KeepsExists
<1> HIDE DEF f
<1> QED
  BY <1>1, <1>2

LEMMA NoPools == PoolsIn(<<>>) = <<>>
<1>1. Len(<<>>) = 0
  BY EmptySeq
<1>2. PICK f : Keeps(f, <<>>, 0) /\ PoolsIn(<<>>) = f[0]
  BY <1>1, PoolsAre
<1> QED
  BY <1>2 DEF Keeps

\* One more pool, or one more dealloc.
LEMMA PoolAdded ==
  ASSUME NEW s \in Seq(Frame), NEW x \in Frame
  PROVE  PoolsIn(Append(s, x)) = Kept(PoolsIn(s), x)
<1>1. PICK t : t = Append(s, x)
  OBVIOUS
<1>2. PICK n \in Nat : n = Len(s)
  BY LenProperties
<1>3. Len(t) = n + 1 /\ t[n + 1] = x /\ \A i \in 1 .. n : t[i] = s[i]
  BY <1>1, <1>2, AppendProperties
<1>4. PICK f : Keeps(f, s, n) /\ PoolsIn(s) = f[n]
  BY <1>2, PoolsAre
<1>5. PICK g : Keeps(g, t, n + 1) /\ PoolsIn(t) = g[n + 1]
  BY <1>3, PoolsAre
<1>6. f[n] = g[n]
  BY <1>3, <1>4, <1>5, KeepsUnique
<1>7. g[n + 1] = Kept(g[n], t[n + 1])
  <2>1. n + 1 \in 0 .. n + 1 /\ n + 1 # 0 /\ n + 1 - 1 = n
    OBVIOUS
  <2> QED
    BY <1>5, <2>1 DEF Keeps
<1> QED
  BY <1>1, <1>3, <1>4, <1>5, <1>6, <1>7

\* Each began with at least as many objects pending as those before it.
NestedIn(frames) ==
  \A i, j \in 1 .. Len(frames) : i <= j => frames[i].base <= frames[j].base
Within(frames, most) == \A i \in 1 .. Len(frames) : frames[i].base <= most

\* A sequence with one more element at the end.
LEMMA Longer ==
  ASSUME NEW S, NEW q \in Seq(S), NEW x \in S
  PROVE  \E n \in Nat : /\ n = Len(q) /\ Len(Append(q, x)) = n + 1
                        /\ Append(q, x) \in Seq(S) /\ Append(q, x)[n + 1] = x
                        /\ \A i \in 1 .. n : Append(q, x)[i] = q[i] /\ q[i] \in S
<1>1. PICK n \in Nat : n = Len(q)
  BY LenProperties
<1>2. \A i \in 1 .. n : q[i] \in S
  BY <1>1, ElementOfSeq
<1> QED
  BY <1>1, <1>2, AppendProperties

LEMMA LaterNests ==
  ASSUME NEW q \in Seq(Frame), NEW x \in Frame, NestedIn(q), Within(q, x.base)
  PROVE  NestedIn(Append(q, x))
<1>1. PICK n \in Nat : /\ n = Len(q) /\ Len(Append(q, x)) = n + 1
                       /\ Append(q, x) \in Seq(Frame) /\ Append(q, x)[n + 1] = x
                       /\ \A i \in 1 .. n : Append(q, x)[i] = q[i] /\ q[i] \in Frame
  BY Longer
<1>2. PICK t : t = Append(q, x)
  OBVIOUS
<1> SUFFICES ASSUME NEW i \in 1 .. n + 1, NEW j \in 1 .. n + 1, i <= j
             PROVE  t[i].base <= t[j].base
  BY <1>1, <1>2 DEF NestedIn
<1>3. CASE j = n + 1
  <2>1. CASE i = n + 1
    BY <1>1, <1>2, <1>3, <2>1 DEF Frame
  <2>2. CASE i # n + 1
    <3>1. i \in 1 .. n /\ t[i] = q[i]
      BY <1>1, <1>2, <2>2
    <3> QED
      BY <1>1, <1>2, <1>3, <3>1 DEF Within
  <2> QED
    BY <2>1, <2>2
<1>4. CASE j # n + 1
  <2>1. i \in 1 .. n /\ j \in 1 .. n
    BY <1>4
  <2> QED
    BY <1>1, <1>2, <2>1 DEF NestedIn
<1> QED
  BY <1>3, <1>4

\* Pools come from the frames, and nest as the frames do.
KeptFrom(q, s, k) ==
  /\ q \in Seq(Frame) /\ NestedIn(q)
  /\ \A i \in 1 .. Len(q) : \E j \in 1 .. k : q[i] = s[j]

LEMMA KeptFromFrames ==
  ASSUME NEW s \in Seq(Frame), NestedIn(s)
  PROVE  KeptFrom(PoolsIn(s), s, Len(s))
<1>1. PICK n \in Nat : n = Len(s)
  BY LenProperties
<1>2. PICK f : Keeps(f, s, n) /\ PoolsIn(s) = f[n]
  BY <1>1, PoolsAre
<1> DEFINE T == {k \in Nat : k <= n /\ ~KeptFrom(f[k], s, k)}
<1> SUFFICES ASSUME T # {} PROVE FALSE
  BY <1>1, <1>2
<1>3. PICK k \in T : \A y \in T : k <= y
  BY Least
<1>4. k \in Nat /\ k <= n /\ ~KeptFrom(f[k], s, k)
  BY <1>3
<1>5. k \in 0 .. n /\ f[k] = IF k = 0 THEN <<>> ELSE Kept(f[k - 1], s[k])
  BY <1>2, <1>4 DEF Keeps
<1>6. CASE k = 0
  <2>1. <<>> \in Seq(Frame) /\ Len(<<>>) = 0
    BY EmptySeq
  <2>2. NestedIn(<<>>)
    BY <2>1 DEF NestedIn
  <2> QED
    BY <1>4, <1>5, <1>6, <2>1, <2>2 DEF KeptFrom
<1>7. CASE k # 0
  <2>1. PICK j \in Nat : j = k - 1 /\ j + 1 = k
    BY <1>4, <1>7
  <2>2. KeptFrom(f[j], s, j)
    BY <1>3, <1>4, <2>1
  <2>3. PICK q, x : q = f[j] /\ x = s[k]
    OBVIOUS
  <2>4. k \in 1 .. Len(s) /\ x \in Frame
    BY <1>1, <1>4, <1>7, <2>3, ElementOfSeq
  <2>5. q \in Seq(Frame) /\ NestedIn(q) /\ \A i \in 1 .. Len(q) : \E m \in 1 .. j : q[i] = s[m]
    BY <2>2, <2>3 DEF KeptFrom
  <2>6. \A i \in 1 .. Len(q) : \E m \in 1 .. k : q[i] = s[m]
    BY <2>1, <2>5
  <2>7. f[k] = Kept(q, x)
    BY <1>5, <1>7, <2>1, <2>3
  <2>8. CASE x.kind = "dealloc"
    BY <1>4, <2>5, <2>6, <2>7, <2>8 DEF Kept, KeptFrom
  <2>9. CASE x.kind # "dealloc"
    <3>1. Within(q, x.base)
      <4> SUFFICES ASSUME NEW i \in 1 .. Len(q) PROVE q[i].base <= x.base
        BY DEF Within
      <4>1. PICK m \in 1 .. k : q[i] = s[m]
        BY <2>6
      <4>2. m \in 1 .. Len(s) /\ m <= k
        BY <2>4
      <4>3. s[m].base <= s[k].base
        BY <2>4, <4>2 DEF NestedIn
      <4> QED
        BY <2>3, <4>1, <4>3
    <3>2. NestedIn(Append(q, x))
      BY <2>4, <2>5, <3>1, LaterNests
    <3>3. PICK n2 \in Nat : /\ n2 = Len(q) /\ Len(Append(q, x)) = n2 + 1
                            /\ Append(q, x) \in Seq(Frame) /\ Append(q, x)[n2 + 1] = x
                            /\ \A i \in 1 .. n2 : Append(q, x)[i] = q[i] /\ q[i] \in Frame
      <4>1. q \in Seq(Frame) /\ x \in Frame
        BY <2>4, <2>5
      <4> QED
        BY ONLY <4>1, Longer
    <3>4. ASSUME NEW i \in 1 .. n2 + 1
          PROVE  \E m \in 1 .. k : Append(q, x)[i] = s[m]
      <4>1. CASE i = n2 + 1
        <5>1. k \in 1 .. k /\ Append(q, x)[i] = s[k]
          BY <1>4, <1>7, <2>3, <3>3, <4>1
        <5> QED
          BY <5>1
      <4>2. CASE i # n2 + 1
        <5>1. i \in 1 .. n2
          BY <4>2
        <5> QED
          BY <2>6, <3>3, <5>1
      <4> QED
        BY <4>1, <4>2
    <3>5. f[k] = Append(q, x)
      BY <2>7, <2>9 DEF Kept
    <3>6. KeptFrom(Append(q, x), s, k)
      BY <3>2, <3>3, <3>4 DEF KeptFrom
    <3> QED
      BY <1>4, <3>5, <3>6
  <2> QED
    BY <2>8, <2>9
<1> QED
  BY <1>6, <1>7

LEMMA PoolsTyped ==
  ASSUME NEW s \in Seq(Frame), NestedIn(s)
  PROVE  /\ PoolsIn(s) \in Seq(Frame) /\ NestedIn(PoolsIn(s))
         /\ \A most : Within(s, most) => Within(PoolsIn(s), most)
<1>1. PICK q : q = PoolsIn(s)
  OBVIOUS
<1>2. KeptFrom(q, s, Len(s))
  BY <1>1, KeptFromFrames
<1>3. ASSUME NEW most, Within(s, most) PROVE Within(q, most)
  BY <1>2, <1>3 DEF KeptFrom, Within
<1> QED
  BY <1>1, <1>2, <1>3 DEF KeptFrom
-----------------------------------------------------------------------------
(* What the pools hold. *)

Pool == [held : Seq(Obj), closing : BOOLEAN]

\* The pool of a frame that is the last one.
Innermost(frame, pending) ==
  [held |-> SubSeq(pending, frame.base + 1, Len(pending)), closing |-> frame.kind = "pop"]

LEMMA ASeq ==
  ASSUME NEW S, NEW n \in Nat, NEW f \in [1 .. n -> S]
  PROVE  f \in Seq(S) /\ Len(f) = n
OBVIOUS

\* Part of a sequence, which may be empty.
LEMMA Part ==
  ASSUME NEW S, NEW s \in Seq(S), NEW m \in Nat \ {0}, NEW k \in Nat, k <= Len(s)
  PROVE  /\ SubSeq(s, m, k) \in Seq(S)
         /\ Len(SubSeq(s, m, k)) = IF m <= k THEN k - m + 1 ELSE 0
         /\ \A i \in 1 .. k - m + 1 : SubSeq(s, m, k)[i] = s[m + i - 1]
<1>1. \A i \in m .. k : s[i] \in S
  BY LenProperties, ElementOfSeq
<1> QED
  BY <1>1, SubSeqProperties

\* Part of what a sequence begins with.
LEMMA PartOfPrefix ==
  ASSUME NEW S, NEW s \in Seq(S), NEW b \in Nat, b <= Len(s),
         NEW m \in Nat \ {0}, NEW k \in Nat, k <= b
  PROVE  SubSeq(SubSeq(s, 1, b), m, k) = SubSeq(s, m, k)
<1>1. PICK n \in Nat : n = Len(s)
  BY LenProperties
<1>2. PICK t : t = SubSeq(s, 1, b)
  OBVIOUS
<1>3. t \in Seq(S) /\ Len(t) = b /\ \A i \in 1 .. b : t[i] = s[i]
  BY <1>1, <1>2, Part
<1>4. PICK u, v : u = SubSeq(t, m, k) /\ v = SubSeq(s, m, k)
  OBVIOUS
<1>5. /\ u \in Seq(S) /\ Len(u) = IF m <= k THEN k - m + 1 ELSE 0
      /\ \A i \in 1 .. k - m + 1 : u[i] = t[m + i - 1]
  BY <1>3, <1>4, Part
<1>6. /\ v \in Seq(S) /\ Len(v) = IF m <= k THEN k - m + 1 ELSE 0
      /\ \A i \in 1 .. k - m + 1 : v[i] = s[m + i - 1]
  BY <1>1, <1>4, Part
<1>7. ASSUME NEW i \in 1 .. Len(u) PROVE u[i] = v[i]
  <2>1. m <= k /\ i \in 1 .. k - m + 1 /\ m + i - 1 \in 1 .. b
    BY <1>5
  <2> QED
    BY <1>3, <1>5, <1>6, <2>1
<1>8. u = v
  BY <1>5, <1>6, <1>7, SeqEqual
<1> QED
  BY <1>2, <1>4, <1>8

\* Appending leaves the parts before the end alone.
LEMMA PartOfLonger ==
  ASSUME NEW S, NEW s \in Seq(S), NEW x \in S, NEW m \in Nat \ {0}, NEW k \in Nat, k <= Len(s)
  PROVE  SubSeq(Append(s, x), m, k) = SubSeq(s, m, k)
<1>1. PICK n \in Nat : /\ n = Len(s) /\ Len(Append(s, x)) = n + 1
                       /\ Append(s, x) \in Seq(S) /\ Append(s, x)[n + 1] = x
                       /\ \A i \in 1 .. n : Append(s, x)[i] = s[i] /\ s[i] \in S
  BY Longer
<1>2. PICK t : t = Append(s, x)
  OBVIOUS
<1>3. PICK u, v : u = SubSeq(t, m, k) /\ v = SubSeq(s, m, k)
  OBVIOUS
<1>4. /\ u \in Seq(S) /\ Len(u) = IF m <= k THEN k - m + 1 ELSE 0
      /\ \A i \in 1 .. k - m + 1 : u[i] = t[m + i - 1]
  BY <1>1, <1>2, <1>3, Part
<1>5. /\ v \in Seq(S) /\ Len(v) = IF m <= k THEN k - m + 1 ELSE 0
      /\ \A i \in 1 .. k - m + 1 : v[i] = s[m + i - 1]
  BY <1>1, <1>3, Part
<1>6. ASSUME NEW i \in 1 .. Len(u) PROVE u[i] = v[i]
  <2>1. m <= k /\ i \in 1 .. k - m + 1 /\ m + i - 1 \in 1 .. n
    BY <1>1, <1>4
  <2> QED
    BY <1>1, <1>2, <1>4, <1>5, <2>1
<1>7. u = v
  BY <1>4, <1>5, <1>6, SeqEqual
<1> QED
  BY <1>2, <1>3, <1>7

\* What is appended ends the last part.
LEMMA PartThenOne ==
  ASSUME NEW S, NEW s \in Seq(S), NEW x \in S, NEW b \in Nat, b <= Len(s)
  PROVE  SubSeq(Append(s, x), b + 1, Len(s) + 1) = Append(SubSeq(s, b + 1, Len(s)), x)
<1>1. PICK n \in Nat : /\ n = Len(s) /\ Len(Append(s, x)) = n + 1
                       /\ Append(s, x) \in Seq(S) /\ Append(s, x)[n + 1] = x
                       /\ \A i \in 1 .. n : Append(s, x)[i] = s[i] /\ s[i] \in S
  BY Longer
<1>2. PICK t : t = Append(s, x)
  OBVIOUS
<1>3. PICK u, v : u = SubSeq(t, b + 1, n + 1) /\ v = SubSeq(s, b + 1, n)
  OBVIOUS
<1>4. /\ u \in Seq(S) /\ Len(u) = n - b + 1 /\ \A i \in 1 .. n - b + 1 : u[i] = t[b + i]
  <2>1. b + 1 \in Nat \ {0} /\ n + 1 \in Nat /\ n + 1 <= Len(t) /\ t \in Seq(S)
    BY <1>1, <1>2
  <2>2. /\ u \in Seq(S)
        /\ Len(u) = IF b + 1 <= n + 1 THEN n + 1 - (b + 1) + 1 ELSE 0
        /\ \A i \in 1 .. n + 1 - (b + 1) + 1 : u[i] = t[b + 1 + i - 1]
    BY <1>3, <2>1, Part
  <2>3. b + 1 <= n + 1 /\ n + 1 - (b + 1) + 1 = n - b + 1 /\ n - b + 1 \in Nat
    BY <1>1
  <2>4. \A i \in 1 .. n - b + 1 : b + 1 + i - 1 = b + i
    OBVIOUS
  <2> QED
    BY <2>2, <2>3, <2>4
<1>5. /\ v \in Seq(S) /\ Len(v) = n - b /\ \A i \in 1 .. n - b : v[i] = s[b + i]
  <2>1. /\ v \in Seq(S) /\ Len(v) = IF b + 1 <= n THEN n - (b + 1) + 1 ELSE 0
        /\ \A i \in 1 .. n - (b + 1) + 1 : v[i] = s[b + 1 + i - 1]
    BY <1>1, <1>3, Part
  <2>2. n - (b + 1) + 1 = n - b /\ (~(b + 1 <= n) => n - b = 0)
    BY <1>1
  <2>3. \A i \in 1 .. n - b : b + 1 + i - 1 = b + i
    OBVIOUS
  <2> QED
    BY <2>1, <2>2, <2>3
<1>6. PICK w : w = Append(v, x)
  OBVIOUS
<1>7. PICK k \in Nat : k = n - b /\ n = b + k
  <2>1. n - b \in Nat /\ n = b + (n - b)
    BY <1>1
  <2> QED
    BY <2>1
<1>8. /\ w \in Seq(S) /\ Len(w) = k + 1 /\ w[k + 1] = x /\ \A i \in 1 .. k : w[i] = v[i]
  <2>1. v \in Seq(S) /\ Len(v) = k /\ x \in S
    BY <1>5, <1>7
  <2> QED
    BY ONLY <1>6, <2>1, AppendProperties
<1>9. ASSUME NEW i \in 1 .. k + 1 PROVE u[i] = w[i]
  <2>1. CASE i = k + 1
    <3>1. i \in 1 .. n - b + 1 /\ b + i = n + 1
      BY <1>7, <2>1
    <3> QED
      BY <1>1, <1>2, <1>4, <1>8, <2>1, <3>1
  <2>2. CASE i # k + 1
    <3>1. i \in 1 .. k /\ b + i \in 1 .. n /\ i \in 1 .. n - b + 1 /\ i \in 1 .. n - b
      BY <1>7, <2>2
    <3> QED
      BY <1>1, <1>2, <1>4, <1>5, <1>8, <3>1
  <2> QED
    BY <2>1, <2>2
<1>10. Len(u) = k + 1
  BY <1>4, <1>7
<1>11. u = w
  BY <1>4, <1>8, <1>9, <1>10, SeqEqual
<1> QED
  BY <1>1, <1>2, <1>3, <1>6, <1>11

\* A part that is not empty, without its last element.
LEMMA PartButLast ==
  ASSUME NEW S, NEW s \in Seq(S), NEW m \in Nat \ {0}, NEW n \in Nat,
         n <= Len(s), m <= n
  PROVE  /\ SubSeq(s, m, n) # <<>>
         /\ SubSeq(SubSeq(s, m, n), 1, Len(SubSeq(s, m, n)) - 1) = SubSeq(s, m, n - 1)
<1>1. PICK k \in Nat : k = n - 1 /\ n = k + 1
  <2>1. n - 1 \in Nat /\ n = n - 1 + 1
    OBVIOUS
  <2> QED
    BY <2>1
<1>2. PICK b \in Nat : m = b + 1 /\ b <= k
  <2>1. m - 1 \in Nat /\ m = m - 1 + 1 /\ m - 1 <= k
    BY <1>1
  <2> QED
    BY <2>1
<1>3. PICK d \in Nat : d = k - b /\ k = b + d
  <2>1. k - b \in Nat /\ k = b + (k - b)
    BY <1>2
  <2> QED
    BY <2>1
<1>4. PICK u, v : u = SubSeq(s, m, n) /\ v = SubSeq(s, m, k)
  OBVIOUS
<1>5. /\ u \in Seq(S) /\ Len(u) = d + 1 /\ \A i \in 1 .. d + 1 : u[i] = s[b + i]
  <2>1. n - m + 1 = d + 1
    BY <1>1, <1>2, <1>3
  <2>2. /\ u \in Seq(S) /\ Len(u) = IF m <= n THEN n - m + 1 ELSE 0
        /\ \A i \in 1 .. n - m + 1 : u[i] = s[m + i - 1]
    BY <1>4, Part, SMTT(30)
  <2>3. \A i \in 1 .. d + 1 : m + i - 1 = b + i
    BY <1>2
  <2> QED
    BY <2>1, <2>2, <2>3
<1>6. /\ v \in Seq(S) /\ Len(v) = d /\ \A i \in 1 .. d : v[i] = s[b + i]
  <2>1. k - m + 1 = d /\ (~(m <= k) => d = 0) /\ k <= Len(s)
    BY <1>1, <1>2, <1>3, LenProperties
  <2>2. /\ v \in Seq(S) /\ Len(v) = IF m <= k THEN k - m + 1 ELSE 0
        /\ \A i \in 1 .. k - m + 1 : v[i] = s[m + i - 1]
    BY <1>4, <2>1, Part, SMTT(30)
  <2>3. \A i \in 1 .. d : m + i - 1 = b + i
    BY <1>2
  <2> QED
    BY <2>1, <2>2, <2>3
<1>7. u # <<>>
  BY <1>5, EmptySeq
<1>8. PICK w : w = SubSeq(u, 1, Len(u) - 1)
  OBVIOUS
<1>9. w \in Seq(S) /\ Len(w) = d /\ \A i \in 1 .. d : w[i] = u[i]
  <2>1. /\ w \in Seq(S) /\ Len(w) = Len(u) - 1
        /\ \A i \in 1 .. Len(u) - 1 : w[i] = u[i]
    BY <1>5, <1>7, <1>8, WithoutLast
  <2> QED
    BY <1>5, <2>1
<1>10. \A i \in 1 .. d : w[i] = v[i]
  <2>1. \A i \in 1 .. d : i \in 1 .. d + 1
    OBVIOUS
  <2> QED
    BY <1>5, <1>6, <1>9, <2>1
<1>11. w = v
  BY <1>6, <1>9, <1>10, SeqEqual
<1> QED
  BY <1>1, <1>4, <1>7, <1>8, <1>11

LEMMA InnermostTyped ==
  ASSUME NEW x \in Frame, NEW pending \in Seq(Obj), x.base <= Len(pending)
  PROVE  Innermost(x, pending) \in Pool
<1>1. x.base \in Nat /\ Len(pending) \in Nat
  BY LenProperties DEF Frame
<1>2. SubSeq(pending, x.base + 1, Len(pending)) \in Seq(Obj)
  BY <1>1, Part
<1> QED
  BY <1>2 DEF Innermost, Pool

\* What the frames but the last hold is what they held when it began.
LEMMA PoolsOfMore ==
  ASSUME NEW q \in Seq(Frame), NEW x \in Frame, NEW pending \in Seq(Obj),
         x.base <= Len(pending), Within(q, x.base)
  PROVE  /\ PoolsOf(q, SubSeq(pending, 1, x.base)) \in Seq(Pool)
         /\ PoolsOf(Append(q, x), pending)
              = Append(PoolsOf(q, SubSeq(pending, 1, x.base)), Innermost(x, pending))
<1>1. PICK n \in Nat : /\ n = Len(q) /\ Len(Append(q, x)) = n + 1
                       /\ Append(q, x) \in Seq(Frame) /\ Append(q, x)[n + 1] = x
                       /\ \A i \in 1 .. n : Append(q, x)[i] = q[i] /\ q[i] \in Frame
  BY Longer
<1>2. PICK b \in Nat : b = x.base
  BY DEF Frame
<1>3. PICK rest : rest = SubSeq(pending, 1, b)
  OBVIOUS
<1>4. rest \in Seq(Obj) /\ Len(rest) = b /\ Len(pending) \in Nat /\ b <= Len(pending)
  BY <1>2, <1>3, Part, LenProperties
<1>5. \A i \in 1 .. n : q[i].base \in Nat /\ q[i].base <= b
  BY <1>1, <1>2 DEF Within, Frame
<1> DEFINE to(i) == IF i = n THEN b ELSE q[i + 1].base
           held(i) == SubSeq(rest, q[i].base + 1, to(i))
           part(i) == [held |-> held(i), closing |-> q[i].kind = "pop"]
<1>6. ASSUME NEW i \in 1 .. n PROVE to(i) \in Nat /\ to(i) <= b
  <2>1. i # n => i + 1 \in 1 .. n
    OBVIOUS
  <2> QED
    BY <1>5, <2>1
<1>7. \A i \in 1 .. n : held(i) \in Seq(Obj)
  BY <1>4, <1>5, <1>6, Part
<1>8. PICK X : X = PoolsOf(q, rest)
  OBVIOUS
<1>9. X = [i \in 1 .. n |-> part(i)]
  BY <1>1, <1>4, <1>8 DEF PoolsOf
<1>10. \A i \in 1 .. n : part(i) \in Pool
  BY <1>7 DEF Pool
<1>11. X \in Seq(Pool) /\ Len(X) = n
  BY <1>9, <1>10, ASeq
<1>12. PICK r : r = Innermost(x, pending)
  OBVIOUS
<1>13. r \in Pool
  BY <1>12, InnermostTyped
<1>14. PICK t : t = Append(q, x)
  OBVIOUS
<1>15. PICK A : A = PoolsOf(t, pending)
  OBVIOUS
<1> DEFINE after(i) == IF i = n + 1 THEN Len(pending) ELSE t[i + 1].base
<1>16. A = [i \in 1 .. n + 1 |-> [held |-> SubSeq(pending, t[i].base + 1, after(i)),
                                  closing |-> t[i].kind = "pop"]]
  BY <1>1, <1>14, <1>15 DEF PoolsOf
<1>17. A[n + 1] = r
  <2>1. n + 1 \in 1 .. n + 1 /\ after(n + 1) = Len(pending) /\ t[n + 1] = x
    BY <1>1, <1>14
  <2> HIDE DEF after
  <2>2. A[n + 1] = [held |-> SubSeq(pending, t[n + 1].base + 1, after(n + 1)),
                    closing |-> t[n + 1].kind = "pop"]
    BY ONLY <1>16, <2>1
  <2> QED
    BY <1>12, <2>1, <2>2 DEF Innermost
<1>18. ASSUME NEW i \in 1 .. n PROVE A[i] = X[i]
  <2>1. after(i) = to(i)
    BY <1>1, <1>2, <1>14
  <2>2. t[i] = q[i]
    BY <1>1, <1>14
  <2>3. PICK m \in Nat \ {0}, k \in Nat : m = q[i].base + 1 /\ k = to(i) /\ k <= b
    BY <1>5, <1>6, SMTT(30)
  <2>4. SubSeq(rest, m, k) = SubSeq(pending, m, k)
    <3>1. pending \in Seq(Obj) /\ b <= Len(pending) /\ k <= b
      BY <1>4, <2>3
    <3>2. SubSeq(SubSeq(pending, 1, b), m, k) = SubSeq(pending, m, k)
      BY ONLY <3>1, PartOfPrefix
    <3> QED
      BY <1>3, <3>2
  <2> HIDE DEF after, to
  <2>5. A[i] = [held |-> SubSeq(pending, m, k), closing |-> q[i].kind = "pop"]
    <3>1. i \in 1 .. n + 1
      OBVIOUS
    <3>2. A[i] = [held |-> SubSeq(pending, t[i].base + 1, after(i)),
                  closing |-> t[i].kind = "pop"]
      BY ONLY <1>16, <3>1
    <3> QED
      BY <2>1, <2>2, <2>3, <3>2
  <2>6. X[i] = [held |-> SubSeq(rest, m, k), closing |-> q[i].kind = "pop"]
    BY <1>9, <2>3
  <2> QED
    BY <2>4, <2>5, <2>6
<1>19. PICK B : B = Append(X, r)
  OBVIOUS
<1>20. B \in Seq(Pool) /\ Len(B) = n + 1 /\ B[n + 1] = r /\ \A i \in 1 .. n : B[i] = X[i]
  BY <1>11, <1>13, <1>19, AppendProperties
<1>21. \A i \in 1 .. n + 1 : A[i] = B[i]
  BY <1>17, <1>18, <1>20
<1>22. A = B
  <2>1. A = [i \in 1 .. n + 1 |-> A[i]]
    BY <1>16
  <2>2. B = [i \in 1 .. n + 1 |-> B[i]]
    BY <1>20, LenProperties
  <2> HIDE DEF after, to, held, part
  <2> QED
    BY ONLY <1>21, <2>1, <2>2
<1> QED
  BY <1>2, <1>3, <1>8, <1>11, <1>12, <1>14, <1>15, <1>19, <1>22
-----------------------------------------------------------------------------
(* The steps of PoolStack, on the innermost pool. *)

Pools == PoolsOf(PoolsIn(stack), objects)

\* The innermost pool replaced, its objects replaced, and its pop begun.
WithLast(A, z) == [A EXCEPT ![Len(A)] = z]
WithHeld(A, h) == [A EXCEPT ![Len(A)].held = h]
WithPop(A) == [A EXCEPT ![Len(A)].closing = TRUE]

LEMMA LastReplaced ==
  ASSUME NEW S, NEW X \in Seq(S), NEW r \in S, NEW z \in S
  PROVE  WithLast(Append(X, r), z) = Append(X, z)
<1>1. PICK A : A = Append(X, r)
  OBVIOUS
<1>2. PICK n \in Nat : n = Len(X)
  BY LenProperties
<1>3. /\ A \in Seq(S) /\ Len(A) = n + 1 /\ A[n + 1] = r
      /\ \A i \in 1 .. n : A[i] = X[i]
  BY <1>1, <1>2, AppendProperties
<1>4. PICK B, C : B = [A EXCEPT ![n + 1] = z] /\ C = Append(X, z)
  OBVIOUS
<1>5. /\ B \in Seq(S) /\ Len(B) = n + 1
      /\ \A j \in 1 .. n + 1 : B[j] = IF j = n + 1 THEN z ELSE A[j]
  <2>1. n + 1 \in 1 .. Len(A) /\ A \in Seq(S) /\ Len(A) = n + 1
    BY <1>3
  <2>2. /\ [A EXCEPT ![n + 1] = z] \in Seq(S)
        /\ Len([A EXCEPT ![n + 1] = z]) = Len(A)
        /\ \A j \in 1 .. Len(A) :
             [A EXCEPT ![n + 1] = z][j] = IF j = n + 1 THEN z ELSE A[j]
    BY ONLY <2>1, ExceptSeq
  <2> QED
    BY <1>4, <2>1, <2>2
<1>6. /\ C \in Seq(S) /\ Len(C) = n + 1 /\ C[n + 1] = z
      /\ \A j \in 1 .. n : C[j] = X[j]
  BY <1>2, <1>4, AppendProperties
<1>7. \A j \in 1 .. n + 1 : B[j] = C[j]
  BY <1>3, <1>5, <1>6
<1>8. B = C
  BY <1>5, <1>6, <1>7, SeqEqual
<1> QED
  BY <1>1, <1>3, <1>4, <1>8 DEF WithLast

\* A stack of pools with an innermost one.
LEMMA InnerOf ==
  ASSUME NEW X \in Seq(Pool), NEW r \in Pool, NEW A, A = Append(X, r)
  PROVE  /\ A # <<>> /\ A[Len(A)] = r /\ SubSeq(A, 1, Len(A) - 1) = X
         /\ \A z \in Pool : WithLast(A, z) = Append(X, z)
<1>1. PICK n \in Nat : /\ n = Len(X) /\ Len(Append(X, r)) = n + 1
                       /\ Append(X, r) \in Seq(Pool) /\ Append(X, r)[n + 1] = r
                       /\ \A i \in 1 .. n : Append(X, r)[i] = X[i] /\ X[i] \in Pool
  BY Longer
<1>2. A # <<>> /\ A[Len(A)] = r /\ Len(A) = n + 1
  BY <1>1, AppendProperties
<1>3. SubSeq(A, 1, n) = X
  <2>1. SubSeq(A, 1, n) = SubSeq(X, 1, n)
    BY <1>1, PartOfLonger
  <2>2. SubSeq(X, 1, n) = X
    BY <1>1, SubSeqFull
  <2> QED
    BY <2>1, <2>2
<1>4. Len(A) - 1 = n
  BY <1>2
<1> QED
  BY <1>2, <1>3, <1>4, LastReplaced

\* Only the held objects, or only the progress, of the innermost pool changes.
LEMMA HeldChanged ==
  ASSUME NEW X \in Seq(Pool), NEW r \in Pool, NEW A, A = Append(X, r), NEW h \in Seq(Obj)
  PROVE  WithHeld(A, h) = Append(X, [held |-> h, closing |-> r.closing])
<1>1. A[Len(A)] = r /\ \A z \in Pool : WithLast(A, z) = Append(X, z)
  BY InnerOf
<1>2. PICK z : z = [held |-> h, closing |-> r.closing]
  OBVIOUS
<1>3. z \in Pool /\ z = [r EXCEPT !.held = h]
  BY <1>2 DEF Pool
<1>4. WithHeld(A, h) = WithLast(A, [r EXCEPT !.held = h])
  BY <1>1 DEF WithHeld, WithLast
<1> QED
  BY <1>1, <1>2, <1>3, <1>4

LEMMA Progress ==
  ASSUME NEW S, NEW r \in [held : S, closing : BOOLEAN]
  PROVE  [r EXCEPT !.closing = TRUE] = [held |-> r.held, closing |-> TRUE]
<1>1. PICK e : e = [r EXCEPT !.closing = TRUE]
  OBVIOUS
<1>2. e.held = r.held /\ e.closing = TRUE /\ e \in [held : S, closing : BOOLEAN]
  BY <1>1
<1>3. e = [held |-> e.held, closing |-> e.closing]
  BY <1>2
<1> QED
  BY <1>1, <1>2, <1>3

LEMMA PopBegun ==
  ASSUME NEW X \in Seq(Pool), NEW r \in Pool, NEW A, A = Append(X, r)
  PROVE  WithPop(A) = Append(X, [held |-> r.held, closing |-> TRUE])
<1>1. A[Len(A)] = r /\ \A z \in Pool : WithLast(A, z) = Append(X, z)
  BY InnerOf
<1>2. PICK z : z = [held |-> r.held, closing |-> TRUE]
  OBVIOUS
<1>3. z \in Pool
  BY <1>2 DEF Pool
<1>4. z = [r EXCEPT !.closing = TRUE]
  BY <1>2, Progress DEF Pool
<1>5. WithPop(A) = WithLast(A, [r EXCEPT !.closing = TRUE])
  BY <1>1 DEF WithPop, WithLast
<1> QED
  BY <1>1, <1>2, <1>3, <1>4, <1>5

LEMMA Opens ==
  ASSUME Pools' = Append(Pools, [held |-> <<>>, closing |-> FALSE])
  PROVE  P!Next
BY DEF Pools, P!Open, P!Next

LEMMA KeepsOne ==
  ASSUME NEW X \in Seq(Pool), NEW r \in Pool, NEW o \in Obj, Pools = Append(X, r),
         Pools' = Append(X, [held |-> Append(r.held, o), closing |-> r.closing])
  PROVE  P!Next
<1>1. PICK A, B : A = Pools /\ B = Pools'
  OBVIOUS
<1>2. PICK h : h = Append(r.held, o)
  OBVIOUS
<1>3. h \in Seq(Obj)
  BY <1>2, AppendProperties DEF Pool
<1>4. /\ A # <<>> /\ A[Len(A)].held = r.held
      /\ WithHeld(A, h) = Append(X, [held |-> h, closing |-> r.closing])

  <2>1. A = Append(X, r) /\ h \in Seq(Obj)
    BY <1>1, <1>3
  <2>2. WithHeld(A, h) = Append(X, [held |-> h, closing |-> r.closing])
    BY ONLY <2>1, HeldChanged
  <2>3. A # <<>> /\ A[Len(A)] = r
    BY ONLY <2>1, InnerOf
  <2> QED
    BY <2>2, <2>3
<1>5. [A EXCEPT ![Len(A)].held = Append(@, o)] = WithHeld(A, h)
  BY <1>2, <1>4 DEF WithHeld
<1>6. P!Keep(o)
  BY <1>1, <1>2, <1>4, <1>5 DEF Pools, P!Keep
<1> QED
  BY <1>6 DEF P!Next

LEMMA Closes ==
  ASSUME NEW X \in Seq(Pool), NEW r \in Pool, Pools = Append(X, r), ~r.closing,
         Pools' = Append(X, [held |-> r.held, closing |-> TRUE])
  PROVE  P!Next
<1>1. PICK A, B : A = Pools /\ B = Pools'
  OBVIOUS
<1>2. A # <<>> /\ A[Len(A)] = r /\ B = WithPop(A)
  BY <1>1, InnerOf, PopBegun
<1>3. P!Close
  BY <1>1, <1>2 DEF WithPop, Pools, P!Close, P!Inner
<1> QED
  BY <1>3 DEF P!Next

LEMMA ReleasesLast ==
  ASSUME NEW X \in Seq(Pool), NEW r \in Pool, Pools = Append(X, r), r.closing,
         r.held # <<>>,
         Pools' = Append(X, [held |-> SubSeq(r.held, 1, Len(r.held) - 1),
                             closing |-> r.closing])
  PROVE  P!Next
<1>1. PICK A, B : A = Pools /\ B = Pools'
  OBVIOUS
<1>2. PICK h : h = SubSeq(r.held, 1, Len(r.held) - 1)
  OBVIOUS
<1>3. h \in Seq(Obj)
  BY <1>2, WithoutLast DEF Pool
<1>4. /\ A # <<>> /\ A[Len(A)] = r
      /\ WithHeld(A, h) = Append(X, [held |-> h, closing |-> r.closing])

  <2>1. A = Append(X, r) /\ h \in Seq(Obj)
    BY <1>1, <1>3
  <2>2. WithHeld(A, h) = Append(X, [held |-> h, closing |-> r.closing])
    BY ONLY <2>1, HeldChanged
  <2>3. A # <<>> /\ A[Len(A)] = r
    BY ONLY <2>1, InnerOf
  <2> QED
    BY <2>2, <2>3
<1>5. [A EXCEPT ![Len(A)].held = SubSeq(@, 1, Len(@) - 1)] = WithHeld(A, h)
  BY <1>2, <1>4 DEF WithHeld
<1>6. P!ReleaseLast
  BY <1>1, <1>2, <1>4, <1>5 DEF Pools, P!ReleaseLast, P!Inner
<1> QED
  BY <1>6 DEF P!Next

LEMMA ClosesEmpty ==
  ASSUME NEW X \in Seq(Pool), NEW r \in Pool, Pools = Append(X, r), r.closing,
         r.held = <<>>, Pools' = X
  PROVE  P!Next
<1>1. PICK A, B : A = Pools /\ B = Pools'
  OBVIOUS
<1>2. A # <<>> /\ A[Len(A)] = r /\ SubSeq(A, 1, Len(A) - 1) = X
  BY <1>1, InnerOf
<1>3. P!Closed
  BY <1>1, <1>2 DEF Pools, P!Closed, P!Inner, P!Outer
<1> QED
  BY <1>3 DEF P!Next

LEMMA LeavesOutermost ==
  ASSUME NEW r \in Pool, Pools = Append(<<>>, r), ~r.closing, Pools' = <<>>
  PROVE  P!Next
<1>1. PICK A, B : A = Pools /\ B = Pools'
  OBVIOUS
<1>2. <<>> \in Seq(Pool)
  BY EmptySeq
<1>3. A # <<>> /\ A[Len(A)] = r /\ SubSeq(A, 1, Len(A) - 1) = <<>>
  BY <1>1, <1>2, InnerOf
<1>4. P!Leave
  BY <1>1, <1>3 DEF Pools, P!Leave, P!Inner, P!Outer
<1> QED
  BY <1>4 DEF P!Next

LEMMA LeavesToOuter ==
  ASSUME NEW X \in Seq(Pool), NEW r \in Pool, NEW Y \in Seq(Pool), NEW z \in Pool,
         X = Append(Y, z), Pools = Append(X, r), ~r.closing,
         Pools' = Append(Y, [held |-> z.held \o r.held, closing |-> z.closing])
  PROVE  P!Next
<1>1. PICK A, B : A = Pools /\ B = Pools'
  OBVIOUS
<1>2. PICK h : h = z.held \o r.held
  OBVIOUS
<1>3. h \in Seq(Obj)
  BY <1>2, ConcatProperties DEF Pool
<1>4. A # <<>> /\ A[Len(A)] = r /\ SubSeq(A, 1, Len(A) - 1) = X
  BY <1>1, InnerOf
<1>5. /\ X # <<>> /\ X[Len(X)] = z
      /\ WithHeld(X, h) = Append(Y, [held |-> h, closing |-> z.closing])

  <2>1. X = Append(Y, z) /\ h \in Seq(Obj)
    BY <1>3
  <2>2. WithHeld(X, h) = Append(Y, [held |-> h, closing |-> z.closing])
    BY ONLY <2>1, HeldChanged
  <2>3. X # <<>> /\ X[Len(X)] = z
    BY ONLY <2>1, InnerOf
  <2> QED
    BY <2>2, <2>3
<1>6. [X EXCEPT ![Len(X)].held = @ \o r.held] = WithHeld(X, h)
  BY <1>2, <1>5 DEF WithHeld
<1>7. B = [X EXCEPT ![Len(X)].held = @ \o r.held]
  BY <1>1, <1>2, <1>5, <1>6
<1>8. P!Leave
  BY <1>1, <1>4, <1>5, <1>7 DEF Pools, P!Leave, P!Inner, P!Outer
<1> QED
  BY <1>8 DEF P!Next

-----------------------------------------------------------------------------
(* The steps of the runtime *)

LEMMA StackNests ==
  ASSUME IInv
  PROVE  /\ stack \in Seq(Frame) /\ NestedIn(stack)
         /\ objects \in Seq(Obj) /\ Len(objects) \in Nat
         /\ PoolsIn(stack) \in Seq(Frame) /\ NestedIn(PoolsIn(stack))
         /\ Within(PoolsIn(stack), Len(objects))
<1>1. stack \in Seq(Frame) /\ DOMAIN stack = 1 .. Len(stack)
  BY LenProperties DEF IInv, TypeOK
<1>2. NestedIn(stack) /\ Within(stack, Len(objects))
  BY <1>1 DEF IInv, Nested, NestedIn, OuterPoolsKept, Within
<1>3. objects \in Seq(Obj) /\ Len(objects) \in Nat
  BY LenProperties DEF IInv, TypeOK
<1> QED
  BY <1>1, <1>2, <1>3, PoolsTyped

\* The last frame and those around it.
TopOf(s) ==
  /\ s = Outer /\ s \in Seq(Frame) /\ stack = Append(s, Top) /\ Top \in Frame
  /\ Top.base \in Nat /\ Top.base <= Len(objects)
  /\ PoolsIn(stack) = Kept(PoolsIn(s), Top)
  /\ PoolsIn(s) \in Seq(Frame) /\ NestedIn(PoolsIn(s)) /\ Within(PoolsIn(s), Top.base)

LEMMA TopIs ==
  ASSUME IInv, stack # <<>>
  PROVE  TopOf(Outer)
<1>1. /\ Len(stack) \in Nat \ {0} /\ Top \in Frame /\ Top = stack[Len(stack)]
      /\ stack \in Seq(Frame) /\ DOMAIN stack = 1 .. Len(stack)
  BY LastFrame DEF IInv, TypeOK
<1>2. Top.base \in Nat /\ Top.base <= Len(objects)
  BY <1>1, FramesTyped
<1>3. PICK s : s = Outer
  OBVIOUS
<1>4. PICK n \in Nat : Len(stack) = n + 1
  <2>1. Len(stack) - 1 \in Nat /\ Len(stack) = Len(stack) - 1 + 1
    BY <1>1
  <2> QED
    BY <2>1
<1>5. /\ s \in Seq(Frame) /\ Len(s) = n /\ \A i \in 1 .. n : s[i] = stack[i]
  <2>1. Len(stack) - 1 = n
    BY <1>4
  <2> QED
    BY <1>1, <1>3, <2>1, WithoutLast DEF Outer
<1>6. stack = Append(s, Top)
  <2>1. PICK t : t = Append(s, Top)
    OBVIOUS
  <2>2. t \in Seq(Frame) /\ Len(t) = n + 1 /\ t[n + 1] = Top /\ \A i \in 1 .. n : t[i] = s[i]
    BY <1>1, <1>5, <2>1, AppendProperties
  <2>3. \A i \in 1 .. n + 1 : stack[i] = t[i]
    BY <1>1, <1>4, <1>5, <2>2
  <2> QED
    BY <1>1, <1>4, <2>1, <2>2, <2>3, SeqEqual
<1>7. PoolsIn(stack) = Kept(PoolsIn(s), Top)
  BY <1>1, <1>5, <1>6, PoolAdded
<1>8. NestedIn(s) /\ Within(s, Top.base)
  BY <1>1, <1>4, <1>5 DEF IInv, Nested, NestedIn, Within
<1>9. /\ PoolsIn(s) \in Seq(Frame) /\ NestedIn(PoolsIn(s)) /\ Within(PoolsIn(s), Top.base)
  BY <1>5, <1>8, PoolsTyped
<1> QED
  BY <1>1, <1>2, <1>3, <1>5, <1>6, <1>7, <1>9 DEF TopOf

LEMMA NoPoolsHold == \A pending : PoolsOf(<<>>, pending) = <<>>
<1> SUFFICES ASSUME NEW pending PROVE PoolsOf(<<>>, pending) = <<>>
  OBVIOUS
<1>1. PICK A : A = PoolsOf(<<>>, pending)
  OBVIOUS
<1>2. A = [i \in 1 .. 0 |-> i]
  BY <1>1, EmptySeq DEF PoolsOf
<1>3. A \in Seq(Nat) /\ Len(A) = 0
  BY <1>2, ASeq
<1> QED
  BY <1>1, <1>3, EmptySeq

\* The innermost of some pools, and those around it.
LEMMA InnermostIs ==
  ASSUME NEW q \in Seq(Frame), NestedIn(q), q # <<>>
  PROVE  \E s \in Seq(Frame), x \in Frame : q = Append(s, x) /\ Within(s, x.base)
<1>1. PICK s \in Seq(Frame), x \in Frame : q = Append(s, x)
  BY SequenceEmptyOrAppend
<1>2. PICK n \in Nat : /\ n = Len(s) /\ Len(Append(s, x)) = n + 1
                       /\ Append(s, x) \in Seq(Frame) /\ Append(s, x)[n + 1] = x
                       /\ \A i \in 1 .. n : Append(s, x)[i] = s[i] /\ s[i] \in Frame
  BY ONLY <1>1, Longer
<1>3. /\ q[n + 1] = x /\ Len(q) = n + 1 /\ n + 1 \in 1 .. n + 1
      /\ \A i \in 1 .. n : q[i] = s[i] /\ i \in 1 .. n + 1 /\ i <= n + 1
  BY <1>1, <1>2
<1>4. Within(s, x.base)
  BY <1>2, <1>3 DEF NestedIn, Within
<1> QED
  BY <1>1, <1>4

LEMMA InnermostWithin ==
  ASSUME NEW s \in Seq(Frame), NEW x \in Frame, NEW most, Within(Append(s, x), most)
  PROVE  x.base <= most
<1>1. PICK n \in Nat : n = Len(s)
  BY LenProperties
<1>2. /\ Len(Append(s, x)) = n + 1 /\ Append(s, x)[n + 1] = x /\ n + 1 \in 1 .. n + 1
  BY <1>1, AppendProperties
<1> QED
  BY <1>2 DEF Within

LEMMA PoolsPrimed == Pools' = PoolsOf(PoolsIn(stack'), objects')
BY DEF Pools, PoolsOf, PoolsIn

LEMMA AutoreleaseImplements ==
  ASSUME IInv, NEW o \in Obj, Autorelease(o)
  PROVE  P!Next \/ Pools' = Pools
<1>1. stack' = stack /\ (objects' = objects \/ objects' = Append(objects, o))
  BY DEF Autorelease
<1>2. PICK q : q = PoolsIn(stack)
  OBVIOUS
<1>3. Pools' = PoolsOf(q, objects') /\ Pools = PoolsOf(q, objects)
  BY <1>1, <1>2, PoolsPrimed DEF Pools
<1>4. CASE objects' = objects
  BY <1>3, <1>4
<1>5. CASE q = <<>>
  BY <1>3, <1>5, NoPoolsHold
<1>6. CASE objects' = Append(objects, o) /\ q # <<>>
  <2>1. /\ q \in Seq(Frame) /\ NestedIn(q) /\ Within(q, Len(objects))
        /\ objects \in Seq(Obj) /\ Len(objects) \in Nat
    BY <1>2, StackNests
  <2>2. PICK s \in Seq(Frame), x \in Frame : q = Append(s, x) /\ Within(s, x.base)
    BY <1>6, <2>1, InnermostIs
  <2>4. Within(s, x.base) /\ x.base <= Len(objects)
    BY <2>1, <2>2, InnermostWithin
  <2>5. PICK b \in Nat : b = x.base
    BY DEF Frame
  <2>6. PICK longer : longer = Append(objects, o)
    OBVIOUS
  <2>7. longer \in Seq(Obj) /\ Len(longer) = Len(objects) + 1 /\ b <= Len(longer)
    BY <2>1, <2>4, <2>5, <2>6, AppendProperties
  <2>8. PICK X : X = PoolsOf(s, SubSeq(objects, 1, b))
    OBVIOUS
  <2>9. SubSeq(longer, 1, b) = SubSeq(objects, 1, b)
    BY <2>1, <2>4, <2>5, <2>6, PartOfLonger
  <2>10. X \in Seq(Pool) /\ Pools = Append(X, Innermost(x, objects))
    BY <1>3, <2>1, <2>2, <2>4, <2>5, <2>8, PoolsOfMore
  <2>11. Pools' = Append(X, Innermost(x, longer))
    BY <1>3, <1>6, <2>2, <2>4, <2>5, <2>6, <2>7, <2>8, <2>9, PoolsOfMore
  <2>12. PICK r : r = Innermost(x, objects)
    OBVIOUS
  <2>13. r \in Pool
    BY <2>1, <2>4, <2>12, InnermostTyped
  <2>14. Innermost(x, longer) = [held |-> Append(r.held, o), closing |-> r.closing]
    <3>1. SubSeq(longer, b + 1, Len(objects) + 1) = Append(SubSeq(objects, b + 1, Len(objects)), o)
      BY <2>1, <2>4, <2>5, <2>6, PartThenOne
    <3> QED
      BY <2>5, <2>7, <2>12, <3>1 DEF Innermost
  <2>15. P!Next
    BY <2>10, <2>11, <2>12, <2>13, <2>14, KeepsOne
  <2> QED
    BY <2>15
<1> QED
  BY <1>1, <1>4, <1>5, <1>6

LEMMA PushImplements ==
  ASSUME IInv, Push
  PROVE  P!Next
<1>1. PICK n \in Nat : n = Len(objects)
  BY StackNests
<1>2. PICK own \in BOOLEAN :
        stack' = Append(stack, [kind |-> "pool", own |-> own, base |-> n, marker |-> 0])
  BY <1>1 DEF Push
<1>3. PICK f : f = [kind |-> "pool", own |-> own, base |-> n, marker |-> 0]
  OBVIOUS
<1>4. f \in Frame /\ f.base = n /\ f.kind = "pool" /\ stack' = Append(stack, f)
  BY <1>2, <1>3 DEF Frame
<1>5. PICK q : q = PoolsIn(stack)
  OBVIOUS
<1>6. /\ stack \in Seq(Frame) /\ q \in Seq(Frame) /\ objects \in Seq(Obj)
      /\ Within(q, n) /\ objects' = objects
  BY <1>1, <1>5, StackNests DEF Push
<1>7. PoolsIn(stack') = Append(q, f)
  BY <1>4, <1>5, <1>6, PoolAdded DEF Kept
<1>8. SubSeq(objects, 1, n) = objects
  BY <1>1, <1>6, SubSeqFull
<1>9. Innermost(f, objects) = [held |-> <<>>, closing |-> FALSE]
  <2>1. SubSeq(objects, n + 1, n) = <<>>
    BY SubSeqEmpty
  <2> QED
    BY <1>1, <1>4, <2>1 DEF Innermost
<1>10. PoolsOf(Append(q, f), objects)
         = Append(PoolsOf(q, SubSeq(objects, 1, n)), Innermost(f, objects))
  <2>1. f.base <= Len(objects) /\ Within(q, f.base)
    BY <1>1, <1>4, <1>6
  <2> QED
    BY <1>4, <1>6, <2>1, PoolsOfMore
<1>11. Pools' = Append(Pools, [held |-> <<>>, closing |-> FALSE])
  BY <1>5, <1>6, <1>7, <1>8, <1>9, <1>10, PoolsPrimed DEF Pools
<1> QED
  BY <1>11, Opens

\* The pools with a pool or a pop on top.
LEMMA PoolOnTop ==
  ASSUME IInv, stack # <<>>, Top.kind # "dealloc"
  PROVE  \E q \in Seq(Frame), X \in Seq(Pool), r \in Pool :
           /\ q = PoolsIn(Outer) /\ NestedIn(q) /\ Within(q, Top.base)
           /\ X = PoolsOf(q, SubSeq(objects, 1, Top.base))
           /\ r = Innermost(Top, objects)
           /\ PoolsIn(stack) = Append(q, Top) /\ Pools = Append(X, r)
<1>1. PICK s : s = Outer
  OBVIOUS
<1>2. TopOf(s)
  BY <1>1, TopIs
<1>3. PICK q : q = PoolsIn(s)
  OBVIOUS
<1>4. /\ q \in Seq(Frame) /\ NestedIn(q) /\ Within(q, Top.base) /\ Top \in Frame
      /\ Top.base <= Len(objects) /\ PoolsIn(stack) = Append(q, Top)
  BY <1>2, <1>3 DEF TopOf, Kept
<1>5. objects \in Seq(Obj)
  BY StackNests
<1>6. PICK X : X = PoolsOf(q, SubSeq(objects, 1, Top.base))
  OBVIOUS
<1>7. PICK r : r = Innermost(Top, objects)
  OBVIOUS
<1>8. r \in Pool
  BY <1>4, <1>5, <1>7, InnermostTyped
<1>9. X \in Seq(Pool) /\ PoolsOf(Append(q, Top), objects) = Append(X, r)
  BY <1>4, <1>5, <1>6, <1>7, PoolsOfMore
<1>10. Pools = Append(X, r)
  BY <1>4, <1>9 DEF Pools
<1> QED
  BY <1>1, <1>3, <1>4, <1>6, <1>7, <1>8, <1>9, <1>10

LEMMA PopImplements ==
  ASSUME IInv, Pop
  PROVE  P!Next
<1>1. stack # <<>> /\ Top.kind = "pool" /\ objects' = objects
  BY DEF Pop
<1>2. PICK q \in Seq(Frame), X \in Seq(Pool), r \in Pool :
        /\ q = PoolsIn(Outer) /\ Within(q, Top.base)
        /\ X = PoolsOf(q, SubSeq(objects, 1, Top.base)) /\ r = Innermost(Top, objects)
        /\ Pools = Append(X, r)
  BY <1>1, PoolOnTop
<1>3. PICK s : s = Outer
  OBVIOUS
<1>4. TopOf(s)
  BY <1>1, <1>3, TopIs
<1>5. PICK marker \in Nat :
        stack' = [stack EXCEPT ![Len(stack)] = [Top EXCEPT !.kind = "pop", !.marker = marker]]
  <2>1. TokenMarker(Top) \in Nat /\ Len(objects) \in Nat
    <3>1. fallback \in Nat /\ Top.base \in Nat /\ Top \in Frame
      BY <1>4 DEF IInv, TypeOK, TopOf
    <3> QED
      BY <3>1, StackNests DEF TokenMarker
  <2> DEFINE clamped == IF TokenMarker(Top) > Len(objects) THEN Len(objects)
                        ELSE TokenMarker(Top)
  <2>2. clamped \in Nat
    BY <2>1
  <2>3. stack' = [stack EXCEPT ![Len(stack)] = [Top EXCEPT !.kind = "pop", !.marker = clamped]]
    BY <1>1 DEF Pop, Top
  <2> HIDE DEF clamped
  <2> QED
    BY <2>2, <2>3
<1>6. PICK f : f = [Top EXCEPT !.kind = "pop", !.marker = marker]
  OBVIOUS
<1>7. f \in Frame /\ f.kind = "pop" /\ f.base = Top.base
  BY <1>4, <1>6 DEF TopOf, Frame
<1>8. stack' = Append(s, f)
  <2>1. stack' = WithLast(stack, f)
    BY <1>5, <1>6 DEF WithLast
  <2>2. s \in Seq(Frame) /\ Top \in Frame /\ stack = Append(s, Top)
    BY <1>4 DEF TopOf
  <2>3. WithLast(stack, f) = Append(s, f)
    BY ONLY <1>7, <2>2, LastReplaced
  <2> QED
    BY <2>1, <2>3
<1>9. PoolsIn(stack') = Append(q, f)
  BY <1>2, <1>3, <1>4, <1>7, <1>8, PoolAdded DEF Kept, TopOf
<1>10. Pools' = Append(X, Innermost(f, objects))
  <2>1. /\ q \in Seq(Frame) /\ f \in Frame /\ objects \in Seq(Obj)
        /\ f.base <= Len(objects) /\ Within(q, f.base)
    BY <1>2, <1>4, <1>7, StackNests DEF TopOf
  <2>2. PoolsOf(Append(q, f), objects)
          = Append(PoolsOf(q, SubSeq(objects, 1, f.base)), Innermost(f, objects))
    BY ONLY <2>1, PoolsOfMore
  <2> QED
    BY <1>1, <1>2, <1>7, <1>9, <2>2, PoolsPrimed
<1>11. ~r.closing /\ Innermost(f, objects) = [held |-> r.held, closing |-> TRUE]
  BY <1>1, <1>2, <1>7 DEF Innermost
<1> QED
  BY <1>2, <1>10, <1>11, Closes

LEMMA ReleaseNextImplements ==
  ASSUME IInv, ReleaseNext
  PROVE  P!Next
<1>1. /\ stack # <<>> /\ Top.kind = "pop" /\ Len(objects) > Top.marker
      /\ objects' = SubSeq(objects, 1, Len(objects) - 1)
  BY DEF ReleaseNext
<1>2. PICK q \in Seq(Frame), X \in Seq(Pool), r \in Pool :
        /\ q = PoolsIn(Outer) /\ Within(q, Top.base)
        /\ X = PoolsOf(q, SubSeq(objects, 1, Top.base)) /\ r = Innermost(Top, objects)
        /\ PoolsIn(stack) = Append(q, Top) /\ Pools = Append(X, r)
  BY <1>1, PoolOnTop
<1>3. Top \in Frame /\ stack \in Seq(Frame) /\ objects \in Seq(Obj)
  <2>1. TopOf(Outer)
    BY <1>1, TopIs
  <2> QED
    BY <2>1, StackNests DEF TopOf
<1>4. PICK b \in Nat, n \in Nat : b = Top.base /\ n = Len(objects) /\ b < n
  <2>1. Top.base \in Nat /\ Top.marker \in Nat /\ Len(objects) \in Nat
    BY <1>3, StackNests DEF Frame
  <2>2. Top.base <= Top.marker
    BY <1>1, LastFrame, <1>3 DEF IInv, PopsStop
  <2> QED
    BY <1>1, <2>1, <2>2
<1>5. PICK k \in Nat : k = n - 1 /\ n = k + 1 /\ b <= k
  <2>1. n - 1 \in Nat /\ n = n - 1 + 1 /\ b <= n - 1
    BY <1>4
  <2> QED
    BY <2>1
<1>6. PICK rest : rest = SubSeq(objects, 1, k)
  OBVIOUS
<1>7. objects' = rest /\ rest \in Seq(Obj) /\ Len(rest) = k
  <2>1. objects' = rest
    BY <1>1, <1>4, <1>5, <1>6
  <2>2. k <= Len(objects) /\ 1 \in Nat \ {0}
    BY <1>4, <1>5
  <2>3. rest \in Seq(Obj) /\ Len(rest) = IF 1 <= k THEN k - 1 + 1 ELSE 0
    BY <1>3, <1>6, <2>2, Part
  <2> QED
    BY <2>1, <2>3
\* The dealloc the release may run is no pool.
<1>8. PoolsIn(stack') = PoolsIn(stack)
  <2>1. CASE stack' = stack
    BY <2>1
  <2>2. CASE stack' # stack
    <3>1. PICK f : f = [kind |-> "dealloc", own |-> TRUE, base |-> Len(objects) - 1,
                        marker |-> 0]
      OBVIOUS
    <3>2. stack' = Append(stack, f)
      BY <2>2, <3>1 DEF ReleaseNext
    <3>3. f \in Frame /\ f.kind = "dealloc"
      BY <1>4, <1>5, <3>1 DEF Frame
    <3> QED
      BY <1>3, <3>2, <3>3, PoolAdded DEF Kept
  <2> QED
    BY <2>1, <2>2
<1>9. Pools' = PoolsOf(Append(q, Top), rest)
  BY <1>2, <1>7, <1>8, PoolsPrimed
<1>10. PoolsOf(Append(q, Top), rest)
         = Append(PoolsOf(q, SubSeq(rest, 1, Top.base)), Innermost(Top, rest))
  <2>1. /\ q \in Seq(Frame) /\ Top \in Frame /\ rest \in Seq(Obj)
        /\ Top.base <= Len(rest) /\ Within(q, Top.base)
    BY <1>2, <1>3, <1>4, <1>5, <1>7
  <2> QED
    BY ONLY <2>1, PoolsOfMore
<1>11. PoolsOf(q, SubSeq(rest, 1, Top.base)) = X
  <2>1. objects \in Seq(Obj) /\ k <= Len(objects) /\ b <= k /\ 1 \in Nat \ {0}
    BY <1>3, <1>4, <1>5
  <2>2. SubSeq(SubSeq(objects, 1, k), 1, b) = SubSeq(objects, 1, b)
    BY ONLY <2>1, PartOfPrefix
  <2> QED
    BY <1>2, <1>4, <1>6, <2>2
<1>12. /\ r.closing /\ r.held # <<>>
       /\ Innermost(Top, rest) = [held |-> SubSeq(r.held, 1, Len(r.held) - 1),
                                  closing |-> r.closing]
  <2>1. r.held = SubSeq(objects, b + 1, n) /\ r.closing
    BY <1>1, <1>2, <1>4 DEF Innermost
  <2>2. r.held # <<>> /\ SubSeq(r.held, 1, Len(r.held) - 1) = SubSeq(objects, b + 1, k)
    <3> DEFINE m == b + 1
    <3>1. m \in Nat \ {0} /\ objects \in Seq(Obj) /\ n <= Len(objects) /\ m <= n
      BY <1>3, <1>4, <1>5
    <3>2. n - 1 = k
      BY <1>5
    <3> HIDE DEF m
    <3>3. /\ SubSeq(objects, m, n) # <<>>
          /\ SubSeq(SubSeq(objects, m, n), 1, Len(SubSeq(objects, m, n)) - 1)
               = SubSeq(objects, m, n - 1)
      BY ONLY <3>1, PartButLast
    <3> QED
      BY <2>1, <3>2, <3>3 DEF m
  <2>3. SubSeq(rest, b + 1, k) = SubSeq(objects, b + 1, k)
    <3>1. objects \in Seq(Obj) /\ k <= Len(objects) /\ b + 1 \in Nat \ {0} /\ k <= k
      BY <1>3, <1>4, <1>5
    <3>2. SubSeq(SubSeq(objects, 1, k), b + 1, k) = SubSeq(objects, b + 1, k)
      BY ONLY <3>1, PartOfPrefix
    <3> QED
      BY <1>6, <3>2
  <2>4. Innermost(Top, rest) = [held |-> SubSeq(rest, b + 1, k), closing |-> TRUE]
    BY <1>1, <1>4, <1>7 DEF Innermost
  <2> QED
    BY <2>1, <2>2, <2>3, <2>4
<1> QED
  BY <1>2, <1>9, <1>10, <1>11, <1>12, ReleasesLast

LEMMA DeallocReturnsImplements ==
  ASSUME IInv, DeallocReturns
  PROVE  Pools' = Pools
<1>1. stack # <<>> /\ Top.kind = "dealloc" /\ stack' = Outer /\ objects' = objects
  BY DEF DeallocReturns
<1>2. PoolsIn(stack) = PoolsIn(Outer)
  BY <1>1, TopIs DEF TopOf, Kept
<1> QED
  BY <1>1, <1>2, PoolsPrimed DEF Pools

LEMMA PopReturnsImplements ==
  ASSUME IInv, OwnTokens, PopReturns
  PROVE  P!Next
<1>1. /\ stack # <<>> /\ Top.kind = "pop" /\ Len(objects) <= Top.marker
      /\ stack' = Outer /\ objects' = objects
  BY DEF PopReturns
<1>2. PICK q \in Seq(Frame), X \in Seq(Pool), r \in Pool :
        /\ q = PoolsIn(Outer) /\ X = PoolsOf(q, SubSeq(objects, 1, Top.base))
        /\ r = Innermost(Top, objects) /\ Pools = Append(X, r)
  BY <1>1, PoolOnTop
<1>3. PICK n \in Nat : n = Len(objects) /\ Top.base = n
  <2>1. TopOf(Outer) /\ Len(objects) \in Nat
    BY <1>1, TopIs, StackNests
  <2>2. Top.marker = Top.base
    BY <1>1, LastFrame DEF IInv, TypeOK, OwnTokens
  <2> QED
    BY <1>1, <2>1, <2>2 DEF TopOf
<1>4. SubSeq(objects, 1, n) = objects
  BY <1>3, StackNests, SubSeqFull
<1>5. Pools' = X
  BY <1>1, <1>2, <1>3, <1>4, PoolsPrimed
<1>6. r.closing /\ r.held = <<>>
  <2>1. SubSeq(objects, n + 1, n) = <<>>
    BY SubSeqEmpty
  <2> QED
    BY <1>1, <1>2, <1>3, <2>1 DEF Innermost
<1> QED
  BY <1>2, <1>5, <1>6, ClosesEmpty

LEMMA UnwindImplements ==
  ASSUME IInv, Unwind
  PROVE  P!Next
<1>1. stack # <<>> /\ Top.kind = "pool" /\ stack' = Outer /\ objects' = objects
  BY DEF Unwind
<1>2. PICK q \in Seq(Frame), X \in Seq(Pool), r \in Pool :
        /\ q = PoolsIn(Outer) /\ NestedIn(q) /\ Within(q, Top.base)
        /\ X = PoolsOf(q, SubSeq(objects, 1, Top.base))
        /\ r = Innermost(Top, objects) /\ Pools = Append(X, r)
  BY <1>1, PoolOnTop
<1>3. PICK b \in Nat, n \in Nat : b = Top.base /\ n = Len(objects) /\ b <= n
  <2>1. TopOf(Outer) /\ Len(objects) \in Nat
    BY <1>1, TopIs, StackNests
  <2> QED
    BY <2>1 DEF TopOf
<1>4. objects \in Seq(Obj)
  BY StackNests
<1>5. Pools' = PoolsOf(q, objects)
  BY <1>1, <1>2, PoolsPrimed
<1>6. ~r.closing /\ r.held = SubSeq(objects, b + 1, n)
  BY <1>1, <1>2, <1>3 DEF Innermost
<1>7. CASE q = <<>>
  <2>1. \A pending : PoolsOf(q, pending) = <<>>
    BY <1>7, NoPoolsHold
  <2>2. Pools = Append(<<>>, r) /\ Pools' = <<>>
    BY <1>2, <1>5, <2>1
  <2> QED
    BY <1>6, <2>2, LeavesOutermost
<1>8. CASE q # <<>>
  <2>1. PICK s \in Seq(Frame), x \in Frame : q = Append(s, x) /\ Within(s, x.base)
    BY <1>2, <1>8, InnermostIs
  <2>2. PICK c \in Nat : c = x.base /\ c <= b
    <3>1. x.base \in Nat /\ x.base <= Top.base
      BY <1>2, <2>1, InnermostWithin DEF Frame
    <3> QED
      BY <1>3, <3>1
  <2>3. PICK rest : rest = SubSeq(objects, 1, b)
    OBVIOUS
  <2>4. rest \in Seq(Obj) /\ Len(rest) = b
    BY <1>3, <1>4, <2>3, Part
  <2>5. PICK Y : Y = PoolsOf(s, SubSeq(objects, 1, c))
    OBVIOUS
  <2>6. PICK z : z = Innermost(x, rest)
    OBVIOUS
  <2>7. SubSeq(rest, 1, c) = SubSeq(objects, 1, c)
    <3>1. objects \in Seq(Obj) /\ b <= Len(objects) /\ 1 \in Nat \ {0} /\ c <= b
      BY <1>3, <1>4, <2>2
    <3>2. SubSeq(SubSeq(objects, 1, b), 1, c) = SubSeq(objects, 1, c)
      BY ONLY <3>1, PartOfPrefix
    <3> QED
      BY <2>3, <3>2
  <2>8. Y \in Seq(Pool) /\ X = Append(Y, z)
    <3>1. s \in Seq(Frame) /\ x \in Frame /\ rest \in Seq(Obj) /\ x.base <= Len(rest)
          /\ Within(s, x.base)
      BY <2>1, <2>2, <2>4
    <3>2. /\ PoolsOf(s, SubSeq(rest, 1, x.base)) \in Seq(Pool)
          /\ PoolsOf(Append(s, x), rest)
               = Append(PoolsOf(s, SubSeq(rest, 1, x.base)), Innermost(x, rest))
      BY ONLY <3>1, PoolsOfMore
    <3> QED
      BY <1>2, <1>3, <2>1, <2>2, <2>3, <2>5, <2>6, <2>7, <3>2
  <2>9. z \in Pool
    BY <2>2, <2>4, <2>6, InnermostTyped
  <2>10. Pools' = Append(Y, Innermost(x, objects))
    <3>1. s \in Seq(Frame) /\ x \in Frame /\ objects \in Seq(Obj) /\ x.base <= Len(objects)
          /\ Within(s, x.base)
      BY <1>3, <1>4, <2>1, <2>2
    <3>2. PoolsOf(Append(s, x), objects)
            = Append(PoolsOf(s, SubSeq(objects, 1, x.base)), Innermost(x, objects))
      BY ONLY <3>1, PoolsOfMore
    <3> QED
      BY <1>5, <2>1, <2>2, <2>5, <3>2
  <2>11. Innermost(x, objects) = [held |-> z.held \o r.held, closing |-> z.closing]
    <3>1. z = [held |-> SubSeq(rest, c + 1, b), closing |-> x.kind = "pop"]
      BY <2>2, <2>4, <2>6 DEF Innermost
    <3>2. SubSeq(rest, c + 1, b) = SubSeq(objects, c + 1, b)
      <4>1. objects \in Seq(Obj) /\ b <= Len(objects) /\ c + 1 \in Nat \ {0} /\ b <= b
        BY <1>3, <1>4
      <4>2. SubSeq(SubSeq(objects, 1, b), c + 1, b) = SubSeq(objects, c + 1, b)
        BY ONLY <4>1, PartOfPrefix
      <4> QED
        BY <2>3, <4>2
    <3>3. SubSeq(objects, c + 1, b) \o SubSeq(objects, b + 1, n) = SubSeq(objects, c + 1, n)
      <4>1. /\ c + 1 \in 1 .. Len(objects) + 1 /\ b \in c + 1 - 1 .. Len(objects)
            /\ n \in b .. Len(objects) /\ objects \in Seq(Obj)
        BY <1>3, <1>4, <2>2
      <4> QED
        BY ONLY <4>1, ConcatAdjacentSubSeq
    <3>4. Innermost(x, objects) = [held |-> SubSeq(objects, c + 1, n), closing |-> x.kind = "pop"]
      BY <1>3, <2>2 DEF Innermost
    <3> QED
      BY <1>6, <3>1, <3>2, <3>3, <3>4
  <2> QED
    BY <1>2, <1>6, <2>8, <2>9, <2>10, <2>11, LeavesToOuter
<1> QED
  BY <1>7, <1>8

LEMMA StepsImplement ==
  ASSUME IInv, OwnTokens, [Next]_vars
  PROVE  P!Next \/ Pools' = Pools
<1>1. ASSUME NEW o \in Obj, Autorelease(o) PROVE P!Next \/ Pools' = Pools
  BY <1>1, AutoreleaseImplements
<1>2. CASE Push
  BY <1>2, PushImplements
<1>3. CASE Pop
  BY <1>3, PopImplements
<1>4. CASE ReleaseNext
  BY <1>4, ReleaseNextImplements
<1>5. CASE DeallocReturns
  BY <1>5, DeallocReturnsImplements
<1>6. CASE PopReturns
  BY <1>6, PopReturnsImplements
<1>7. CASE Unwind
  BY <1>7, UnwindImplements
<1>8. CASE UNCHANGED vars
  BY <1>8, PoolsPrimed DEF vars, Pools
<1> QED
  BY <1>1, <1>2, <1>3, <1>4, <1>5, <1>6, <1>7, <1>8 DEF Next

LEMMA InitialPools == ASSUME Init PROVE P!Init
<1>1. PoolsIn(stack) = <<>>
  BY NoPools DEF Init
<1>2. PoolsOf(PoolsIn(stack), objects) = <<>>
  BY <1>1, NoPoolsHold
<1> QED
  BY <1>2 DEF P!Init

\* When every token is a block of its own, objc_autoreleasePoolPush, sf_autorelease
\* and objc_autoreleasePoolPop over the shared arrays do what a stack of pools
\* does, each with the objects autoreleased while it was the innermost: also if
\* the arrays could not grow, deallocs use pools inside a pop, and exceptions
\* leave pools without a pop.
THEOREM PoolStackImplemented ==
  ASSUME "token" \notin Failures PROVE Spec => ImplementsPoolStack
<1>1. Init => P!Init /\ OwnTokens
  BY InitialPools DEF Init, OwnTokens
<1>2. IInv /\ OwnTokens /\ [Next]_vars => OwnTokens'
  BY OwnTokensInductive
<1>3. IInv /\ OwnTokens /\ [Next]_vars => [P!Next]_(PoolsOf(PoolsIn(stack), objects))
  BY StepsImplement DEF Pools
<1> QED
  BY <1>1, <1>2, <1>3, Invariance, PTL DEF Spec, ImplementsPoolStack, P!Spec
=============================================================================
