------------------------ MODULE ObjectLifetimeProofs ------------------------
(***************************************************************************)
(* Proofs about ObjectLifetime, for programs that follow the rules of the  *)
(* module (Uses = {}), any number of objects, ivars and references, and    *)
(* any class layout.                                                       *)
(***************************************************************************)
EXTENDS ObjectLifetime, TLAPS, FiniteSetTheorems, SequenceTheorems

OnStack(o) == \E i \in DOMAIN frames : frames[i].obj = o

\* A dealloc in progress: of a live object nothing refers to any more, whose
\* ivars are clear except those still to do. The object has one frame.
FrameOK(f) ==
  /\ IsLive(f.obj) /\ f.obj \notin InPlace
  /\ f.obj \in Heap => rc[f.obj] = 0
  /\ f.obj \in Cell => slot[OwnerSlot[f.obj]] # f.obj
  /\ f.todo \subseteq SlotsOf(f.obj)
  /\ f.phase = "dealloc" => f.todo = SlotsOf(f.obj)
  /\ \A s \in SlotsOf(f.obj) \ f.todo : slot[s] = Nil
StackOK == DeallocNotReentered /\ \A i \in DOMAIN frames : FrameOK(frames[i])

\* References: only live objects have any, and the count is exact.
CountsOK ==
  /\ RefcountExact
  /\ \A o \in Object : held[o] > 0 => IsLive(o) /\ o \in Heap \ InPlace
  /\ \A s \in Slot : slot[s] # Nil => IsLive(slot[s])
  /\ \A s \in Slot : slot[s] \in Cell => s = OwnerSlot[slot[s]]
  /\ \A s \in Slot : slot[s] # Nil => IsLive(SlotOwner[s])
  /\ \A o \in InPlace : state[o] \in {"absent", "live"}

\* An embedded object lives in a live home, with one reference to its name
\* while it is in its slot. While it is being deallocated the home is held by
\* the program or is itself being deallocated, further out.
Hosted(i) ==
  LET h == HomeOf(frames[i].obj) IN
  frames[i].obj \in Cell =>
    held[h] > 0 \/ h \in InPlace
    \/ \E j \in DOMAIN frames : j > i /\ frames[j].obj = h
CellsOK ==
  /\ \A c \in Cell :
       /\ group[c] = Nil
       /\ state[c] \in {"live", "disposed"}
       /\ IsLive(c) => parent[c] = HomeOf(c) /\ IsLive(HomeOf(c))
       /\ slot[OwnerSlot[c]] = c => rc[c] = 1
  /\ \A i \in DOMAIN frames : Hosted(i)

\* Members of a group: heap objects with memory, the root among them, and at
\* least one of them alive.
GroupsOK ==
  /\ \A o \in Object : group[o] # Nil =>
       /\ o \in Heap /\ HasMemory(o)
       /\ group[o] \in Heap /\ group[group[o]] = group[o]
       /\ LiveMembers(group[o]) # {}
  /\ \A o \in Heap : state[o] = "disposed" => group[o] # Nil
  /\ \A o \in Heap : parent[o] # Nil =>
       parent[o] \in Heap /\ group[o] # Nil /\ group[parent[o]] = group[o]
  /\ LiveCountExact

CacheOK == cache # Nil => IsLive(cache)

IInv == TypeOK /\ StackOK /\ CountsOK /\ NoForgottenObject /\ CellsOK
               /\ GroupsOK /\ CacheOK
-----------------------------------------------------------------------------
(* Types *)

\* The root of an object's group is an object, in the header the group names.
LEMMA RootOfType ==
  ASSUME TypeOK, NEW o \in Object
  PROVE  RootOf(o) \in Object
BY ConstantsAssumption DEF TypeOK, RootOf, Object, Group

LEMMA GroupsForType ==
  ASSUME TypeOK, NEW p \in Object, NEW g \in GroupsFor(RootOf(p))
  PROVE  /\ g \in Group /\ RootOf(p) \in Object
         /\ RootsWith(RootOf(p), g) \in [GroupState -> Cell \cup {Nil}]
<1>1. RootOf(p) \in Object
  BY RootOfType
<1> QED
  BY <1>1, ConstantsAssumption DEF TypeOK, GroupsFor, RootsWith, Object, Group

LEMMA CountWithType ==
  ASSUME TypeOK, NEW r, NEW g \in Group
  PROVE  CountWith(r, g) \in Nat
BY DEF TypeOK, CountWith

LEMMA IncrementType ==
  ASSUME TypeOK, NEW o \in Object
  PROVE  Increment(o) \in [Object -> Nat]
BY DEF TypeOK, Increment

LEMMA DecrementType ==
  ASSUME NEW counts \in [Object -> Nat], NEW o \in Object, NEW slots
  PROVE  Decrement(counts, o, slots) \in [Object -> Nat]
BY DEF Decrement

LEMMA NewFrameType ==
  ASSUME NEW o \in Object
  PROVE  NewFrame(o) \in Frame
BY DEF NewFrame, Frame, SlotsOf

\* Entering a dealloc: the new frame is the innermost one.
LEMMA Pushed ==
  ASSUME NEW rest \in Seq(Frame), NEW o \in Object
  PROVE  LET new == <<NewFrame(o)>> \o rest IN
         /\ new \in Seq(Frame)
         /\ DOMAIN new = 1 .. Len(rest) + 1
         /\ new[1] = NewFrame(o)
         /\ \A i \in 1 .. Len(rest) : new[i + 1] = rest[i]
<1>1. <<NewFrame(o)>> \in Seq(Frame) /\ Len(<<NewFrame(o)>>) = 1
  BY NewFrameType
<1>2. Len(rest) \in Nat
  BY LenProperties
<1> QED
  BY <1>1, <1>2, ConcatProperties, LenProperties

\* Changing the innermost frame leaves the others alone.
LEMMA TopChanged ==
  ASSUME NEW st \in Seq(Frame), st # <<>>, NEW f \in Frame
  PROVE  LET new == [st EXCEPT ![1] = f] IN
         /\ new \in Seq(Frame)
         /\ Len(new) = Len(st)
         /\ DOMAIN new = DOMAIN st
         /\ new[1] = f
         /\ \A i \in DOMAIN st : i # 1 => new[i] = st[i]
<1>1. 1 \in 1 .. Len(st) /\ DOMAIN st = 1 .. Len(st)
  BY EmptySeq, LenProperties
<1> QED
  BY <1>1, ExceptSeq, LenProperties

\* Leaving a dealloc.
LEMMA Popped ==
  ASSUME NEW st \in Seq(Frame), st # <<>>
  PROVE  /\ Tail(st) \in Seq(Frame)
         /\ DOMAIN Tail(st) = 1 .. Len(st) - 1
         /\ \A i \in 1 .. Len(st) - 1 : Tail(st)[i] = st[i + 1]
BY HeadTailProperties, LenProperties

LEMMA TopOfStack ==
  ASSUME NEW st \in Seq(Frame), st # <<>>
  PROVE  /\ Len(st) \in Nat \ {0} /\ DOMAIN st = 1 .. Len(st) /\ 1 \in DOMAIN st
         /\ Head(st) = st[1] /\ st[1] \in Frame
BY EmptySeq, LenProperties, HeadTailProperties, ElementOfSeq

\* The variables have their types after every step.
LEMMA TypeStep == TypeOK /\ [Next]_vars => TypeOK'
<1> SUFFICES ASSUME TypeOK, [Next]_vars PROVE TypeOK'
  OBVIOUS
<1> USE DEF TypeOK
<1>1. ASSUME NEW o \in Heap, AllocObject(o) PROVE TypeOK'
  BY <1>1 DEF AllocObject, Object
<1>2. ASSUME NEW o \in Heap, AllocInPlace(o) PROVE TypeOK'
  BY <1>2 DEF AllocInPlace, Object
<1>3. ASSUME NEW c \in Cell, AllocValue(c) PROVE TypeOK'
  BY <1>3, ConstantsAssumption DEF AllocValue, Object, HomeOf
<1>4. ASSUME NEW p \in Object, AllocChildFails(p) PROVE TypeOK'
  <2>1. PICK g \in GroupsFor(RootOf(p)) :
          /\ extRoot' = RootsWith(RootOf(p), g)
          /\ group' = [group EXCEPT ![RootOf(p)] = g]
          /\ liveCount' = [liveCount EXCEPT ![g] = CountWith(RootOf(p), g)]
    BY <1>4 DEF AllocChildFails, LiveCountSet
  <2> QED
    BY <1>4, <2>1, GroupsForType, CountWithType DEF AllocChildFails
<1>5. ASSUME NEW p \in Object, NEW o \in Heap, AllocChild(o, p) PROVE TypeOK'
  <2>1. PICK g \in GroupsFor(RootOf(p)) :
          /\ extRoot' = RootsWith(RootOf(p), g)
          /\ group' = [group EXCEPT ![RootOf(p)] = g, ![o] = g]
          /\ liveCount' = [liveCount EXCEPT ![g] = CountWith(RootOf(p), g) + 1]
    BY <1>5 DEF AllocChild, JoinedGroup, LiveCountSet
  <2>2. o \in Object
    BY DEF Object
  <2>3. /\ g \in Group /\ RootOf(p) \in Object
        /\ CountWith(RootOf(p), g) \in Nat
        /\ extRoot' \in [GroupState -> Cell \cup {Nil}]
    BY <2>1, GroupsForType, CountWithType
  <2>4. group' \in [Object -> Group \cup {Nil}]
    <3>1. group \in [Object -> Group \cup {Nil}]
      BY DEF TypeOK
    <3> QED
      BY <2>1, <2>2, <2>3, <3>1
  <2>6. liveCount' \in [Group -> Nat]
    <3>1. liveCount \in [Group -> Nat] /\ CountWith(RootOf(p), g) + 1 \in Nat
      BY <2>3 DEF TypeOK
    <3> QED
      BY <2>1, <2>3, <3>1
  <2> QED
    BY <1>5, <2>2, <2>3, <2>4, <2>6 DEF AllocChild
<1>6. ASSUME NEW o \in Object, Retain(o) PROVE TypeOK'
  BY <1>6, IncrementType DEF Retain, CacheAfter
<1>7. ASSUME NEW o \in Object, Release(o) PROVE TypeOK'
  <2>1. Owns(o) => held[o] - 1 \in Nat
    BY DEF Owns, MayDrop
  <2>2. held' \in [Object -> Nat]
    BY <1>7, <2>1 DEF Release
  <2>3. frames' \in Seq(Frame)
    BY <1>7, Pushed DEF Release
  <2> QED
    BY <1>7, <2>2, <2>3, DecrementType DEF Release, CacheAfter
<1>8. ASSUME NEW s \in Slot, NEW v \in Object \cup {Nil}, StoreStrong(s, v)
      PROVE  TypeOK'
  <2>1. frames' \in Seq(Frame)
    BY <1>8, Pushed DEF StoreStrong
  <2> QED
    BY <1>8, <2>1, IncrementType, DecrementType DEF StoreStrong, CacheAfter, HasHeader
<1>9. CASE DeallocReturns
  <2>1. [Head(frames) EXCEPT !.phase = "ivars"] \in Frame
    BY <1>9, TopOfStack DEF DeallocReturns, Frame
  <2> QED
    BY <1>9, <2>1, TopChanged, TopOfStack DEF DeallocReturns
<1>10. ASSUME NEW s \in Slot, ClearIvar(s) PROVE TypeOK'
  <2> DEFINE rest == [frames EXCEPT ![1].todo = @ \ {s}]
  <2>1. [frames[1] EXCEPT !.todo = @ \ {s}] \in Frame
    BY <1>10, TopOfStack DEF ClearIvar, Frame
  <2>2. rest \in Seq(Frame)
    BY <1>10, <2>1, TopChanged DEF ClearIvar
  <2>3. frames' = rest \/ \E o \in Object : frames' = <<NewFrame(o)>> \o rest
    BY <1>10, ConstantsAssumption DEF ClearIvar, HasHeader
  <2> HIDE DEF rest
  <2>4. frames' \in Seq(Frame)
    BY <2>2, <2>3, Pushed
  <2> QED
    BY <1>10, <2>4, DecrementType DEF ClearIvar, CacheAfter, HasHeader
<1>11. CASE Dispose
  <2> DEFINE o == Head(frames).obj
  <2>1. o \in Object /\ frames' \in Seq(Frame)
    BY <1>11, TopOfStack, Popped DEF Dispose, Frame
  <2>2. CASE ~IsLive(o)
    BY <1>11, <2>1, <2>2 DEF Dispose
  <2>3. CASE IsLive(o) /\ Grouped(o)
    <3>1. group[RootOf(o)] \in Group
      BY <2>1, <2>3, RootOfType DEF Grouped
    <3>2. DisposeMember(o, group[RootOf(o)])
      BY <1>11, <2>3 DEF Dispose, DisposeObject
    <3>3. liveCount' \in [Group -> Nat]
      BY <3>1, <3>2 DEF DisposeMember, LiveCountSet
    <3>4. /\ extRoot' \in [GroupState -> Cell \cup {Nil}]
          /\ state' \in [Object -> {"absent", "live", "disposed", "freed"}]
          /\ parent' \in [Object -> Object \cup {Nil}]
          /\ group' \in [Object -> Group \cup {Nil}]
      BY <3>1, <3>2 DEF DisposeMember
    <3> QED
      BY <1>11, <2>1, <2>3, <3>3, <3>4 DEF Dispose, DisposeObject, SlotsAfterDispose
  <2>4. CASE IsLive(o) /\ ~Grouped(o)
    BY <1>11, <2>1, <2>4 DEF Dispose, DisposeObject, DisposeAlone, SlotsAfterDispose
  <2> QED
    BY <2>2, <2>3, <2>4
<1>12. CASE UNCHANGED vars
  BY <1>12 DEF vars
<1> QED
  BY <1>1, <1>2, <1>3, <1>4, <1>5, <1>6, <1>7, <1>8, <1>9, <1>10, <1>11, <1>12
  DEF Next, Program, Runtime

\* The headers, ivars and counters of the runtime have the values the code
\* gives them, for any number of objects.
THEOREM TypeCorrect == Spec => []TypeOK
<1>1. Init => TypeOK
  BY DEF Init, TypeOK, Object
<1> QED
  BY <1>1, TypeStep, PTL DEF Spec
-----------------------------------------------------------------------------
(* References *)

\* Writing an ivar moves one reference from what it held to what it holds.
LEMMA RefsAfterStore ==
  ASSUME TypeOK, NEW s \in Slot, NEW v, slot' = [slot EXCEPT ![s] = v],
         NEW o \in Object
  PROVE  /\ v = o /\ slot[s] # o => Cardinality(Refs(o))' = Cardinality(Refs(o)) + 1
         /\ v # o /\ slot[s] = o => Cardinality(Refs(o))' = Cardinality(Refs(o)) - 1
         /\ (v = o <=> slot[s] = o) => Cardinality(Refs(o))' = Cardinality(Refs(o))
<1>1. IsFiniteSet(Refs(o))
  BY ConstantsAssumption, FS_Subset DEF Refs
<1>2. v = o => Refs(o)' = Refs(o) \cup {s}
  BY DEF TypeOK, Refs
<1>3. v # o => Refs(o)' = Refs(o) \ {s}
  BY DEF TypeOK, Refs
<1>4. s \in Refs(o) <=> slot[s] = o
  BY DEF Refs
<1> QED
  BY <1>1, <1>2, <1>3, <1>4, FS_AddElement, FS_RemoveElement

\* How many ivars refer to an object.
LEMMA RefsNat ==
  ASSUME TypeOK, NEW o \in Object
  PROVE  /\ Cardinality(Refs(o)) \in Nat
         /\ (\E s \in Slot : slot[s] = o) => Cardinality(Refs(o)) > 0
         /\ (\A s \in Slot : slot[s] # o) => Cardinality(Refs(o)) = 0
         /\ Cardinality(Refs(o)) = 0 => \A s \in Slot : slot[s] # o
<1>1. IsFiniteSet(Refs(o))
  BY ConstantsAssumption, FS_Subset DEF Refs
<1>2. (\E s \in Slot : slot[s] = o) <=> Refs(o) # {}
  BY DEF Refs
<1> QED
  BY <1>1, <1>2, FS_CardinalityType, FS_EmptySet

\* Who is counted: a live heap object the program may release, and an embedded
\* object that is no longer in its slot.
LEMMA CountedObjects ==
  ASSUME IInv, NEW o \in Object, NEW slots
  PROVE  /\ o \in Heap => (Counted(o, slots) <=> IsLive(o) /\ o \notin InPlace)
         /\ o \in Cell => (Counted(o, slots) <=> IsLive(o) /\ slots[OwnerSlot[o]] # o)
<1>1. o \in Cell /\ IsLive(o) => parent[o] # Nil /\ o \notin InPlace
  BY ConstantsAssumption DEF IInv, CellsOK, Object
<1>2. o \in Heap => o \notin Cell
  BY ConstantsAssumption
<1> QED
  BY <1>1, <1>2 DEF Counted, InOwnerSlot

-----------------------------------------------------------------------------
(* The call stack *)

\* st is the stack in progress but for the phases and the ivars to do.
SameObjects(st) ==
  st \in Seq(Frame) /\ DOMAIN st = DOMAIN frames
  /\ \A i \in DOMAIN frames : st[i].obj = frames[i].obj

\* A frame stays as it must be under a change of references that revives
\* nothing and writes no ivar the frame has cleared.
LEMMA FrameKept ==
  ASSUME TypeOK, NEW f \in Frame, FrameOK(f), state' = state,
         f.obj \in Heap => rc'[f.obj] = 0,
         \A s \in Slot :
           \/ slot'[s] = slot[s]
           \/ slot'[s] = Nil
           \/ slot'[s] # f.obj /\ s \notin SlotsOf(f.obj) \ f.todo
  PROVE  FrameOK(f)'
<1>1. f.obj \in Object /\ f.todo \subseteq Slot
  BY DEF Frame
<1>2. f.obj \in Cell => slot'[OwnerSlot[f.obj]] # f.obj
  BY <1>1, ConstantsAssumption DEF FrameOK
<1>3. \A s \in SlotsOf(f.obj) \ f.todo : slot'[s] = Nil
  BY DEF FrameOK, SlotsOf
<1> QED
  BY <1>2, <1>3 DEF FrameOK, IsLive

\* No dealloc begins.
LEMMA StackKept ==
  ASSUME StackOK, TypeOK, SameObjects(frames'),
         \A f \in Frame, i \in DOMAIN frames' : frames'[i] = f => FrameOK(f)',
         \A i \in DOMAIN frames : Hosted(i),
         \A i \in DOMAIN frames : LET h == HomeOf(frames[i].obj) IN
            frames[i].obj \in Cell /\ held[h] > 0 => held'[h] > 0
  PROVE  /\ StackOK'
         /\ \A o \in Object : OnStack(o)' <=> OnStack(o)
         /\ \A i \in DOMAIN frames' : Hosted(i)'
<1>1. DeallocNotReentered'
  BY DEF StackOK, SameObjects, DeallocNotReentered
<1>2. \A o \in Object : OnStack(o)' <=> OnStack(o)
  BY DEF SameObjects, OnStack
<1>3. \A i \in DOMAIN frames' : Hosted(i)'
  BY DEF SameObjects, Hosted
<1>4. \A i \in DOMAIN frames' : frames'[i] \in Frame
  BY ElementOfSeq, LenProperties DEF SameObjects
<1>5. (\A i \in DOMAIN frames : FrameOK(frames[i]))'
  BY <1>4 DEF FrameOK
<1> QED
  BY <1>1, <1>2, <1>3, <1>5 DEF StackOK

\* The dealloc of o begins, on top of a stack with the objects of this one.
LEMMA StackPushed ==
  ASSUME StackOK, TypeOK,
         NEW o \in Object, ~OnStack(o), FrameOK(NewFrame(o))',
         NEW rest, SameObjects(rest),
         \A f \in Frame, i \in DOMAIN rest : rest[i] = f => FrameOK(f)',
         frames' = <<NewFrame(o)>> \o rest,
         \A i \in DOMAIN frames : Hosted(i),
         \A i \in DOMAIN frames : LET h == HomeOf(frames[i].obj) IN
            frames[i].obj \in Cell /\ held[h] > 0 => held'[h] > 0,
         o \in Cell => LET h == HomeOf(o) IN
            held'[h] > 0 \/ h \in InPlace \/ OnStack(h)
  PROVE  /\ StackOK'
         /\ \A x \in Object : OnStack(x)' <=> x = o \/ OnStack(x)
         /\ \A i \in DOMAIN frames' : Hosted(i)'
<1> DEFINE n == Len(rest)
<1>1. /\ n \in Nat /\ DOMAIN rest = 1 .. n /\ DOMAIN frames = 1 .. n
      /\ DOMAIN frames' = 1 .. n + 1
      /\ frames'[1] = NewFrame(o)
      /\ \A i \in 1 .. n : frames'[i + 1] = rest[i] /\ rest[i].obj = frames[i].obj
  BY Pushed, LenProperties DEF SameObjects
<1>2. NewFrame(o).obj = o
  BY DEF NewFrame
<1> HIDE DEF n
<1>3. \A i \in 1 .. n + 1 : i = 1 \/ (i - 1 \in 1 .. n /\ frames'[i].obj = frames[i - 1].obj
                                      /\ frames'[i] = rest[i - 1])
  <2> TAKE i \in 1 .. n + 1
  <2>1. i # 1 => i - 1 \in 1 .. n /\ (i - 1) + 1 = i
    BY <1>1
  <2> QED
    BY <1>1, <2>1
<1>4. DeallocNotReentered'
  <2>1. \A i \in 1 .. n : frames[i].obj # o
    BY <1>1 DEF OnStack
  <2>2. \A i, j \in 1 .. n : frames[i].obj = frames[j].obj => i = j
    BY <1>1 DEF StackOK, DeallocNotReentered
  <2>3. ASSUME NEW i \in 1 .. n + 1, NEW j \in 1 .. n + 1, frames'[i].obj = frames'[j].obj
        PROVE  i = j
    <3>0. /\ frames'[1].obj = o
          /\ \A k \in 1 .. n + 1 : k # 1 => frames'[k].obj # o
      BY <1>1, <1>2, <1>3, <2>1
    <3>1. CASE i = 1 \/ j = 1
      BY <2>3, <3>0, <3>1
    <3>2. CASE i # 1 /\ j # 1
      <4>1. i - 1 = j - 1
        BY <1>3, <2>2, <2>3, <3>2
      <4> QED
        BY <1>1, <4>1
    <3> QED
      BY <3>1, <3>2
  <2> QED
    BY <1>1, <2>3 DEF DeallocNotReentered
<1>5. (\A i \in DOMAIN frames : FrameOK(frames[i]))'
  <2>1. \A i \in 1 .. n : rest[i] \in Frame
    BY <1>1, ElementOfSeq DEF SameObjects, n
  <2> QED
    BY <1>1, <1>3, <2>1 DEF FrameOK
<1>6. \A x \in Object : OnStack(x)' <=> x = o \/ OnStack(x)
  <2> TAKE x \in Object
  <2>1. OnStack(x)' => x = o \/ OnStack(x)
    BY <1>1, <1>2, <1>3 DEF OnStack
  <2>2. ASSUME NEW i \in DOMAIN frames, frames[i].obj = x PROVE OnStack(x)'
    <3>1. i + 1 \in DOMAIN frames' /\ frames'[i + 1].obj = x
      BY <1>1, <2>2
    <3> QED
      BY <3>1 DEF OnStack
  <2>3. x = o => OnStack(x)'
    <3>1. 1 \in DOMAIN frames'
      BY <1>1
    <3> QED
      BY <1>1, <1>2, <3>1 DEF OnStack
  <2> QED
    BY <2>1, <2>2, <2>3 DEF OnStack
<1>7. ASSUME NEW i \in DOMAIN frames' PROVE Hosted(i)'
  <2> DEFINE h == HomeOf(frames'[i].obj)
  <2> SUFFICES ASSUME frames'[i].obj \in Cell, held'[h] = 0 \/ ~(held'[h] > 0), h \notin InPlace
               PROVE  \E j \in DOMAIN frames' : j > i /\ frames'[j].obj = h
    BY DEF Hosted, HomeOf
  <2>1. ASSUME NEW j \in 1 .. n, frames[j].obj = h, j + 1 > i
        PROVE  \E k \in DOMAIN frames' : k > i /\ frames'[k].obj = h
    <3>1. j + 1 \in DOMAIN frames' /\ frames'[j + 1].obj = h
      BY <1>1, <2>1
    <3> QED
      BY <2>1, <3>1
  <2>2. CASE i = 1
    <3>1. PICK j \in DOMAIN frames : frames[j].obj = h
      BY <1>1, <1>2, <2>2 DEF OnStack
    <3> QED
      BY <1>1, <2>1, <2>2, <3>1
  <2>3. CASE i # 1
    <3>1. i - 1 \in 1 .. n /\ frames'[i].obj = frames[i - 1].obj
      BY <1>1, <1>3, <2>3
    <3>2. PICK j \in DOMAIN frames : j > i - 1 /\ frames[j].obj = h
      BY <1>1, <3>1 DEF Hosted
    <3> QED
      BY <1>1, <2>1, <3>1, <3>2
  <2> QED
    BY <2>2, <2>3
<1> QED
  BY <1>4, <1>5, <1>6, <1>7 DEF StackOK
-----------------------------------------------------------------------------
(* Steps that move references and leave headers and groups alone *)

Headers == <<state, parent, group, extRoot, liveCount>>

LEMMA GroupsKept == GroupsOK /\ UNCHANGED Headers => GroupsOK'
BY DEF GroupsOK, Headers, HasMemory, IsLive, LiveMembers, Members, LiveCountExact

LEMMA CacheKept ==
  ASSUME CacheOK, state' = state, NEW o, cache' \in {cache, CacheAfter(o)}
  PROVE  CacheOK'
BY DEF CacheOK, CacheAfter, HasHeader, IsLive

\* An object being deallocated has no references left.
LEMMA Unreferenced ==
  ASSUME IInv, NEW o \in Object, OnStack(o)
  PROVE  /\ IsLive(o) /\ o \notin InPlace /\ ~Referenced(o)
         /\ o \in Heap => rc[o] = 0 /\ held[o] = 0
         /\ \A s \in Slot : slot[s] # o
<1>1. IsLive(o) /\ o \notin InPlace
  BY DEF IInv, StackOK, OnStack, FrameOK
<1>2. CASE o \in Heap
  <2>1. rc[o] = 0 /\ rc[o] = held[o] + Cardinality(Refs(o))
    BY <1>1, <1>2 DEF IInv, StackOK, OnStack, FrameOK, CountsOK, RefcountExact
  <2>2. held[o] = 0 /\ Cardinality(Refs(o)) = 0
    BY <2>1, RefsNat DEF IInv, TypeOK
  <2>3. \A s \in Slot : slot[s] # o
    BY <2>2, RefsNat DEF IInv
  <2>4. o \notin Cell
    BY <1>2, ConstantsAssumption
  <2> QED
    BY <1>1, <2>1, <2>2, <2>3, <2>4 DEF Referenced, InOwnerSlot
<1>3. CASE o \in Cell
  <2>1. slot[OwnerSlot[o]] # o
    BY <1>3 DEF IInv, StackOK, OnStack, FrameOK
  <2>2. \A s \in Slot : slot[s] # o
    BY <1>3, <2>1 DEF IInv, CountsOK
  <2>3. o \notin Heap
    BY <1>3, ConstantsAssumption
  <2> QED
    BY <1>1, <2>1, <2>2, <2>3 DEF Referenced, InOwnerSlot
<1> QED
  BY <1>2, <1>3 DEF Object

\* A program that uses an object being deallocated is in its dealloc method,
\* which is the innermost one and has cleared nothing yet.
LEMMA UsedByDealloc ==
  ASSUME IInv, NEW o \in Object, CanUse(o),
         NEW i \in DOMAIN frames, frames[i].obj = o
  PROVE  i = 1 /\ frames[i].todo = SlotsOf(o)
<1>1. OnStack(o)
  BY DEF OnStack
<1>2. IsSelf(o)
  BY <1>1, Unreferenced DEF CanUse
<1>3. Head(frames) = frames[1] /\ 1 \in DOMAIN frames
  BY <1>2, TopOfStack DEF IsSelf, IInv, TypeOK
<1>4. i = 1
  BY <1>2, <1>3 DEF IsSelf, IInv, StackOK, DeallocNotReentered
<1> QED
  BY <1>2, <1>3, <1>4 DEF IsSelf, IInv, StackOK, FrameOK

LEMMA UsedIsLive ==
  ASSUME IInv, NEW o \in Object, CanUse(o)
  PROVE  IsLive(o)
<1>1. IsSelf(o) => OnStack(o)
  BY TopOfStack DEF IsSelf, OnStack, IInv, TypeOK
<1> QED
  BY <1>1, Unreferenced DEF CanUse, Referenced

LEMMA RetainStep ==
  ASSUME IInv, NEW o \in Object, Retain(o)
  PROVE  IInv'
<1> USE DEF Retain
<1>1. TypeOK'
  BY TypeStep DEF IInv, Next, Program
<1>2. Counted(o, slot) => o \in Heap /\ Referenced(o) /\ o \notin InPlace /\ IsLive(o)
  <2>1. o \in Cell => ~Counted(o, slot)
    BY ConstantsAssumption DEF Referenced, Counted
  <2> QED
    BY <2>1 DEF Counted, Object
<1>3. \A f \in Frame, i \in DOMAIN frames' : frames'[i] = f => FrameOK(f)'
  <2> TAKE f \in Frame, i \in DOMAIN frames'
  <2> HAVE frames'[i] = f
  <2>1. FrameOK(f) /\ OnStack(f.obj) /\ f.obj \in Object
    BY DEF IInv, StackOK, OnStack, Frame
  <2>2. f.obj \in Heap => rc'[f.obj] = 0
    BY <1>2, <2>1, Unreferenced DEF Increment, IInv, TypeOK
  <2> QED
    BY <2>1, <2>2, FrameKept DEF IInv
<1>4. /\ StackOK'
      /\ \A x \in Object : OnStack(x)' <=> OnStack(x)
      /\ \A i \in DOMAIN frames' : Hosted(i)'
  <2>1. SameObjects(frames')
    BY DEF SameObjects, IInv, TypeOK
  <2>2. \A x \in Object : held[x] > 0 => held'[x] > 0
    BY DEF IInv, TypeOK
  <2>3. \A i \in DOMAIN frames : frames[i].obj \in Cell => HomeOf(frames[i].obj) \in Object
    BY ConstantsAssumption DEF Object
  <2> QED
    BY <1>3, <2>1, <2>2, <2>3, StackKept DEF IInv, CellsOK
<1>5. CountsOK'
  <2>1. ASSUME NEW x \in Heap \ InPlace, IsLive(x)'
        PROVE  rc'[x] = held'[x] + Cardinality(Refs(x))'
    <3>1. Cardinality(Refs(x))' = Cardinality(Refs(x)) /\ Cardinality(Refs(x)) \in Nat
      BY RefsNat DEF Refs, IInv, Object
    <3>2. rc[x] = held[x] + Cardinality(Refs(x))
      BY <2>1 DEF IInv, CountsOK, RefcountExact, IsLive
    <3> QED
      BY <1>2, <3>1, <3>2 DEF Increment, IInv, TypeOK, Object
  <2> QED
    BY <1>2, <2>1 DEF IInv, TypeOK, CountsOK, RefcountExact, IsLive
<1>6. NoForgottenObject'
  BY <1>2, <1>4 DEF IInv, TypeOK, NoForgottenObject, Referenced, InOwnerSlot, IsLive,
                    Increment, OnStack
<1>7. CellsOK'
  <2>1. \A c \in Cell : rc'[c] = rc[c]
    BY <1>2, ConstantsAssumption DEF Increment, IInv, TypeOK, Object
  <2> QED
    BY <1>4, <2>1 DEF IInv, CellsOK, IsLive
<1>8. GroupsOK' /\ CacheOK'
  BY GroupsKept, CacheKept DEF IInv, Headers
<1> QED
  BY <1>1, <1>4, <1>5, <1>6, <1>7, <1>8 DEF IInv

\* A new frame of an object that has just lost its last reference.
LEMMA NewFrameOK ==
  ASSUME NEW o \in Object, IsLive(o)', o \notin InPlace,
         o \in Heap => rc'[o] = 0,
         o \in Cell => slot'[OwnerSlot[o]] # o
  PROVE  FrameOK(NewFrame(o))'
BY ConstantsAssumption DEF FrameOK, NewFrame, SlotsOf

\* The frames of the stack that go on are as they must be, when o loses a
\* reference and no other count changes.
LEMMA FramesAfterDrop ==
  ASSUME IInv, NEW o \in Object, ~OnStack(o), state' = state, slot' = slot,
         \A x \in Object : x # o => rc'[x] = rc[x],
         NEW f \in Frame, NEW i \in DOMAIN frames, frames[i] = f
  PROVE  FrameOK(f)'
<1>1. FrameOK(f) /\ OnStack(f.obj) /\ f.obj \in Object
  BY DEF IInv, StackOK, OnStack, Frame
<1>2. f.obj \in Heap => rc'[f.obj] = 0
  BY <1>1, Unreferenced
<1> QED
  BY <1>1, <1>2, FrameKept DEF IInv

LEMMA ReleaseStep ==
  ASSUME IInv, NEW o \in Object, Release(o)
  PROVE  IInv'
<1> USE DEF Release
<1>1. TypeOK'
  BY TypeStep DEF IInv, Next, Program
<1>2. GroupsOK' /\ CacheOK'
  BY GroupsKept, CacheKept DEF IInv, Headers
<1>3. CASE ~Owns(o)
  <2>1. ~Counted(o, slot)
    BY <1>3 DEF MayReleaseForNothing, Counted
  <2>2. UNCHANGED <<state, rc, slot, parent, group, held, frames>>
    BY <1>3, <2>1 DEF Decrement, IsLastRef
  <2>3. StackOK'
    BY <2>2 DEF IInv, StackOK, DeallocNotReentered, FrameOK, IsLive
  <2>4. CountsOK'
    BY <2>2 DEF IInv, CountsOK, RefcountExact, Refs, IsLive
  <2>5. NoForgottenObject'
    BY <2>2 DEF IInv, NoForgottenObject, Referenced, InOwnerSlot, IsLive
  <2>6. CellsOK'
    BY <2>2 DEF IInv, CellsOK, Hosted, IsLive
  <2> QED
    BY <1>1, <1>2, <2>3, <2>4, <2>5, <2>6 DEF IInv
<1>4. CASE Owns(o)
  <2>1. /\ o \in Heap /\ o \notin InPlace /\ o \notin Cell /\ IsLive(o) /\ held[o] > 0
        /\ rc[o] = held[o] + Cardinality(Refs(o))
        /\ held[o] \in Nat /\ Cardinality(Refs(o)) \in Nat
    BY <1>4, RefsNat, ConstantsAssumption
    DEF Owns, MayDrop, IInv, TypeOK, CountsOK, RefcountExact
  <2>2. /\ ~OnStack(o)
        /\ rc' = [rc EXCEPT ![o] = rc[o] - 1] /\ held' = [held EXCEPT ![o] = held[o] - 1]
        /\ frames' = IF rc[o] = 1 THEN <<NewFrame(o)>> \o frames ELSE frames
    <3>1. Counted(o, slot) /\ rc[o] > 0
      BY <2>1, CountedObjects
    <3>2. ~OnStack(o)
      BY <2>1, Unreferenced
    <3> QED
      BY <1>4, <3>1, <3>2 DEF Decrement, IsLastRef
  <2>3. /\ \A x \in Object : x # o => rc'[x] = rc[x] /\ held'[x] = held[x]
        /\ rc'[o] = rc[o] - 1 /\ held'[o] = held[o] - 1
    BY <2>2 DEF IInv, TypeOK
  <2>4. \A f \in Frame, i \in DOMAIN frames : frames[i] = f => FrameOK(f)'
    BY <2>2, <2>3, FramesAfterDrop
  <2>5. \A i \in DOMAIN frames : LET h == HomeOf(frames[i].obj) IN
          frames[i].obj \in Cell /\ held[h] > 0 => held'[h] > 0
    <3> TAKE i \in DOMAIN frames
    <3> DEFINE h == HomeOf(frames[i].obj)
    <3> SUFFICES ASSUME frames[i].obj \in Cell, held[h] > 0 PROVE held'[h] > 0
      OBVIOUS
    <3>1. h \in Object
      BY ConstantsAssumption DEF Object
    <3>2. h = o => held[o] > 1
      BY <1>4 DEF Owns, MayDrop, Detaching
    <3> QED
      BY <2>1, <2>3, <3>1, <3>2
  <2>6. SameObjects(frames)
    BY DEF SameObjects, IInv, TypeOK
  <2>7. /\ StackOK'
        /\ \A x \in Object : OnStack(x)' <=> OnStack(x) \/ (x = o /\ rc[o] = 1)
        /\ \A i \in DOMAIN frames' : Hosted(i)'
    <3>1. CASE rc[o] = 1
      <4>1. FrameOK(NewFrame(o))'
        BY <2>1, <2>3, <3>1, NewFrameOK DEF IsLive
      <4> QED
        BY <2>1, <2>2, <2>4, <2>5, <2>6, <3>1, <4>1, StackPushed DEF IInv, CellsOK
    <3>2. CASE rc[o] # 1
      <4>1. SameObjects(frames')
        BY <2>2, <2>6, <3>2 DEF SameObjects
      <4> QED
        BY <2>2, <2>4, <2>5, <3>2, <4>1, StackKept DEF IInv, CellsOK
    <3> QED
      BY <3>1, <3>2
  <2>8. CountsOK'
    <3>1. ASSUME NEW x \in Heap \ InPlace, IsLive(x)'
          PROVE  rc'[x] = held'[x] + Cardinality(Refs(x))'
      <4>1. Cardinality(Refs(x))' = Cardinality(Refs(x))
        BY DEF Refs
      <4>2. rc[x] = held[x] + Cardinality(Refs(x)) /\ x \in Object
        BY <3>1 DEF IInv, CountsOK, RefcountExact, IsLive, Object
      <4> QED
        BY <2>1, <2>3, <4>1, <4>2
    <3>2. \A x \in Object : held'[x] > 0 => IsLive(x)' /\ x \in Heap \ InPlace
      BY <2>1, <2>3 DEF IInv, CountsOK, IsLive
    <3> QED
      BY <3>1, <3>2 DEF IInv, CountsOK, RefcountExact, IsLive
  <2>9. NoForgottenObject'
    <3>1. ASSUME NEW x \in Object \ InPlace, IsLive(x)' PROVE Referenced(x)' \/ OnStack(x)'
      <4>1. Referenced(x) \/ OnStack(x)
        BY <3>1 DEF IInv, NoForgottenObject, IsLive, OnStack
      <4>2. CASE x = o
        BY <2>1, <2>3, <2>7, <3>1, <4>2 DEF Referenced
      <4>3. CASE x # o
        BY <2>3, <2>7, <4>1, <4>3 DEF Referenced, InOwnerSlot, IsLive
      <4> QED
        BY <4>2, <4>3
    <3> QED
      BY <3>1 DEF NoForgottenObject, OnStack
  <2>10. CellsOK'
    <3>1. \A c \in Cell : rc'[c] = rc[c]
      BY <2>1, <2>3 DEF Object
    <3> QED
      BY <2>7, <3>1 DEF IInv, CellsOK, IsLive
  <2> QED
    BY <1>1, <1>2, <2>7, <2>8, <2>9, <2>10 DEF IInv
<1> QED
  BY <1>3, <1>4

LEMMA DeallocReturnsStep == IInv /\ DeallocReturns => IInv'
<1> SUFFICES ASSUME IInv, DeallocReturns PROVE IInv'
  OBVIOUS
<1> USE DEF DeallocReturns
<1> DEFINE top == [frames[1] EXCEPT !.phase = "ivars"]
<1>1. TypeOK'
  BY TypeStep DEF IInv, Next
<1>2. top \in Frame /\ frames \in Seq(Frame) /\ frames # <<>> /\ 1 \in DOMAIN frames
  BY TopOfStack DEF IInv, TypeOK, Frame
<1>3. frames' = [frames EXCEPT ![1] = top]
  OBVIOUS
<1>4. /\ top.obj = frames[1].obj /\ top.todo = frames[1].todo /\ top.phase = "ivars"
      /\ frames[1].phase = "dealloc"
  BY <1>2, TopOfStack DEF Frame
<1> HIDE DEF top
<1>5. SameObjects(frames') /\ frames'[1] = top
      /\ \A i \in DOMAIN frames : i # 1 => frames'[i] = frames[i]
  BY <1>2, <1>3, <1>4, TopChanged DEF SameObjects
<1>6. ASSUME NEW f \in Frame, NEW i \in DOMAIN frames', frames'[i] = f
      PROVE  FrameOK(f)'
  <2>1. FrameOK(frames[i])
    BY <1>5 DEF IInv, StackOK, SameObjects
  <2>2. FrameOK(f)
    BY <1>4, <1>5, <1>6, <2>1 DEF FrameOK
  <2>3. f.obj \in Heap => rc'[f.obj] = 0
    BY <2>2 DEF FrameOK
  <2> QED
    BY <2>2, <2>3, FrameKept DEF IInv
<1>7. /\ StackOK'
      /\ \A x \in Object : OnStack(x)' <=> OnStack(x)
      /\ \A i \in DOMAIN frames' : Hosted(i)'
  BY <1>5, <1>6, StackKept DEF IInv, CellsOK
<1>8. CountsOK'
  BY DEF IInv, CountsOK, RefcountExact, Refs, IsLive
<1>9. NoForgottenObject'
  BY <1>7 DEF IInv, NoForgottenObject, Referenced, InOwnerSlot, IsLive, OnStack
<1>10. CellsOK'
  BY <1>7 DEF IInv, CellsOK, IsLive
<1>11. GroupsOK' /\ CacheOK'
  BY GroupsKept, CacheKept DEF IInv, Headers
<1> QED
  BY <1>1, <1>7, <1>8, <1>9, <1>10, <1>11 DEF IInv

\* An ivar that held one object holds another or none: counts of heap objects
\* follow, and the dealloc of the old one begins if that was the last
\* reference or, for an embedded object, its slot.
Ends(old) == old \in Cell \/ (old \in Heap \ InPlace /\ rc[old] = 1)
RewiredBy(s, v, rest) ==
  /\ UNCHANGED <<Headers, held>>
  /\ v \in Heap \cup {Nil} /\ (v # Nil => v # slot[s] /\ Referenced(v))
  /\ slot' = [slot EXCEPT ![s] = v] /\ IsLive(SlotOwner[s])
  /\ \A x \in Heap : rc'[x] = rc[x] + (IF x = v /\ x \notin InPlace THEN 1 ELSE 0)
                               - (IF x = slot[s] /\ x \notin InPlace THEN 1 ELSE 0)
  /\ \A c \in Cell : c # slot[s] => rc'[c] = rc[c]
  /\ SameObjects(rest)
  /\ \A f \in Frame, i \in DOMAIN rest : rest[i] = f => FrameOK(f)'
  /\ frames' = IF Ends(slot[s]) THEN <<NewFrame(slot[s])>> \o rest ELSE rest
  /\ slot[s] \in Cell => LET h == HomeOf(slot[s]) IN
        held[h] > 0 \/ h \in InPlace \/ OnStack(h)

LEMMA Rewired ==
  ASSUME IInv, TypeOK', CacheOK', NEW s \in Slot, NEW v, NEW rest, RewiredBy(s, v, rest)
  PROVE  IInv'
<1> USE DEF RewiredBy, Ends
<1> PICK old \in Object \cup {Nil} : old = slot[s]
  BY DEF IInv, TypeOK
<1>0. old = slot[s]
  OBVIOUS
<1> DEFINE ends == old \in Cell \/ (old \in Heap \ InPlace /\ rc[old] = 1)
<1>1. old # Nil => /\ old \in Object /\ IsLive(old) /\ ~OnStack(old)
                   /\ old \in Cell => s = OwnerSlot[old] /\ old # v /\ old \notin Heap
                   /\ old \notin Cell => old \in Heap
  BY <1>0, Unreferenced, ConstantsAssumption DEF IInv, CountsOK, Object
<1>2. Nil \notin Object
  BY ConstantsAssumption DEF Object
<1>3. \A x \in Object : rc[x] \in Nat /\ rc'[x] \in Nat
  BY DEF IInv, TypeOK
<1>4. \A x \in Slot : x # s => slot'[x] = slot[x]
  BY DEF IInv, TypeOK
<1>5. slot'[s] = v
  BY DEF IInv, TypeOK
<1>6. ASSUME ends PROVE FrameOK(NewFrame(old))'
  <2>1. old # Nil /\ old \in Object /\ IsLive(old)'
    BY <1>0, <1>1, <1>2, <1>6 DEF Headers, IsLive, Object
  <2>2. old \in Heap => old \notin InPlace /\ rc'[old] = 0
    BY <1>0, <1>1, <1>3, <1>6, <2>1, ConstantsAssumption
  <2>3. old \in Cell => slot'[OwnerSlot[old]] # old /\ old \notin InPlace
    BY <1>0, <1>1, <1>5, <2>1, ConstantsAssumption
  <2> QED
    BY <2>1, <2>2, <2>3, NewFrameOK DEF Object
<1>7. /\ StackOK'
      /\ \A x \in Object : OnStack(x)' <=> OnStack(x) \/ (x = old /\ ends)
      /\ \A i \in DOMAIN frames' : Hosted(i)'
  <2>1. CASE ends
    <3>1. old \in Object /\ ~OnStack(old)
      BY <1>1, <1>2, <2>1 DEF Object
    <3>2. old \in Cell => LET h == HomeOf(old) IN
            held'[h] > 0 \/ h \in InPlace \/ OnStack(h)
      BY <1>0
    <3>3. frames' = <<NewFrame(old)>> \o rest
      BY <1>0, <2>1
    <3> QED
      BY <3>3, <1>6, <2>1, <3>1, <3>2, StackPushed DEF IInv, CellsOK
  <2>2. CASE ~ends
    <3>1. frames' = rest
      BY <1>0, <2>2
    <3>2. SameObjects(frames')
      BY <3>1
    <3> QED
      BY <2>2, <3>1, <3>2, StackKept DEF IInv, CellsOK
  <2> QED
    BY <2>1, <2>2
<1>8. CountsOK'
  <2>1. ASSUME NEW x \in Heap \ InPlace, IsLive(x)'
        PROVE  rc'[x] = held'[x] + Cardinality(Refs(x))'
    <3>1. x \in Object /\ rc[x] = held[x] + Cardinality(Refs(x))
      BY <2>1 DEF IInv, CountsOK, RefcountExact, Headers, IsLive, Object
    <3>2. held[x] \in Nat /\ held'[x] = held[x] /\ Cardinality(Refs(x)) \in Nat
      BY <3>1, RefsNat DEF IInv, TypeOK
    <3>3. TypeOK /\ slot' = [slot EXCEPT ![s] = v]
      BY DEF IInv
    <3>4. /\ v = x /\ slot[s] # x => Cardinality(Refs(x))' = Cardinality(Refs(x)) + 1
          /\ v # x /\ slot[s] = x => Cardinality(Refs(x))' = Cardinality(Refs(x)) - 1
          /\ (v = x <=> slot[s] = x) => Cardinality(Refs(x))' = Cardinality(Refs(x))
      BY ONLY <3>1, <3>3, RefsAfterStore
    <3>5. /\ v = x /\ old # x => Cardinality(Refs(x))' = Cardinality(Refs(x)) + 1
          /\ v # x /\ old = x => Cardinality(Refs(x))' = Cardinality(Refs(x)) - 1
          /\ (v = x <=> old = x) => Cardinality(Refs(x))' = Cardinality(Refs(x))
      BY <1>0, <3>4
    <3>6. rc'[x] = rc[x] + (IF x = v THEN 1 ELSE 0) - (IF x = old THEN 1 ELSE 0)
      BY <1>0, <2>1
    <3> QED
      BY <3>1, <3>2, <3>5, <3>6
  <2>2. \A x \in Object : held'[x] > 0 => IsLive(x)' /\ x \in Heap \ InPlace
    BY DEF IInv, CountsOK, Headers, IsLive
  <2>3. v # Nil => IsLive(v)
    BY DEF Referenced
  <2>4. \A x \in Slot : slot'[x] # Nil => IsLive(slot'[x]) /\ IsLive(SlotOwner[x])
    BY <1>4, <1>5, <2>3 DEF IInv, CountsOK
  <2>5. \A x \in Slot : slot'[x] \in Cell => x = OwnerSlot[slot'[x]]
    BY <1>4, <1>5, ConstantsAssumption DEF IInv, CountsOK
  <2> QED
    BY <2>1, <2>2, <2>4, <2>5 DEF IInv, CountsOK, RefcountExact, Headers, IsLive
<1>9. NoForgottenObject'
  <2>1. ASSUME NEW x \in Object \ InPlace, IsLive(x)' PROVE Referenced(x)' \/ OnStack(x)'
    <3>1. Referenced(x) \/ OnStack(x)
      BY <2>1 DEF IInv, NoForgottenObject, Headers, IsLive, OnStack
    <3>2. CASE x \in Heap /\ Referenced(x)
      <4>1. rc[x] > 0 /\ x \notin Cell
        BY <2>1, <3>2, ConstantsAssumption DEF Referenced, InOwnerSlot
      <4>2. x = old /\ rc[x] = 1 => OnStack(x)'
        BY <1>7, <2>1, <3>2
      <4>3. x # old \/ rc[x] # 1 => rc'[x] > 0
        BY <1>0, <1>3, <2>1, <3>2, <4>1
      <4> QED
        BY <2>1, <3>2, <4>2, <4>3 DEF Referenced
    <3>3. CASE x \in Cell /\ Referenced(x)
      <4>1. InOwnerSlot(x, slot)
        BY <2>1, <3>3, ConstantsAssumption DEF Referenced
      <4>2. OwnerSlot[x] = s => OnStack(x)'
        BY <1>0, <1>7, <3>3, <4>1 DEF InOwnerSlot
      <4>3. OwnerSlot[x] # s => InOwnerSlot(x, slot)'
        BY <1>4, <3>3, <4>1, ConstantsAssumption DEF InOwnerSlot, Headers
      <4> QED
        BY <2>1, <4>2, <4>3 DEF Referenced
    <3> QED
      BY <1>7, <2>1, <3>1, <3>2, <3>3 DEF Object
  <2> QED
    BY <2>1 DEF NoForgottenObject, OnStack
<1>10. CellsOK'
  <2>1. ASSUME NEW c \in Cell, slot'[OwnerSlot[c]] = c PROVE rc'[c] = 1
    <3>1. OwnerSlot[c] # s /\ slot[OwnerSlot[c]] = c
      BY <1>4, <1>5, <2>1, ConstantsAssumption DEF Object
    <3>2. c # old
      BY <1>0, <1>1, <1>2, <3>1 DEF Object
    <3> QED
      BY <1>0, <3>1, <3>2 DEF IInv, CellsOK
  <2> QED
    BY <1>7, <2>1 DEF IInv, CellsOK, Headers, IsLive
<1>11. GroupsOK' /\ CacheOK'
  BY GroupsKept DEF IInv, Headers
<1> QED
  BY <1>7, <1>8, <1>9, <1>10, <1>11 DEF IInv

\* The counts after objc_storeStrong, or after clear_object_ivars emptied s.
CountsAfter(s, v) ==
  LET taken == IF v = Nil THEN rc ELSE Increment(v) IN
  IF slot[s] = Nil THEN taken ELSE Decrement(taken, slot[s], [slot EXCEPT ![s] = v])
LEMMA CountsAfterStore ==
  ASSUME IInv, NEW s \in Slot, NEW v \in Heap \cup {Nil},
         v # Nil => v # slot[s] /\ Referenced(v)
  PROVE  /\ \A x \in Heap :
              CountsAfter(s, v)[x] = rc[x] + (IF x = v /\ x \notin InPlace THEN 1 ELSE 0)
                                     - (IF x = slot[s] /\ x \notin InPlace THEN 1 ELSE 0)
         /\ \A c \in Cell : c # slot[s] => CountsAfter(s, v)[c] = rc[c]
         /\ slot[s] # Nil => (IsLastRef(slot[s], [slot EXCEPT ![s] = v]) <=> Ends(slot[s]))
<1> DEFINE old == slot[s]
           stored == [slot EXCEPT ![s] = v]
           taken == IF v = Nil THEN rc ELSE Increment(v)
           new == IF old = Nil THEN taken ELSE Decrement(taken, old, stored)
<1>0. stored[s] = v
  BY DEF IInv, TypeOK
<1> HIDE DEF stored
<1>1. /\ rc \in [Object -> Nat] /\ Nil \notin Object /\ old \in Object \cup {Nil}
      /\ \A x \in Heap : x \notin Cell /\ x \in Object
      /\ \A c \in Cell : c \notin InPlace /\ c \in Object
  BY ConstantsAssumption DEF IInv, TypeOK, Object
<1>2. v \in Heap => (Counted(v, slot) <=> v \notin InPlace)
  BY <1>1, CountedObjects DEF Referenced
<1>3. /\ taken \in [Object -> Nat]
      /\ \A x \in Object : taken[x] = rc[x] + IF x = v /\ x \notin InPlace THEN 1 ELSE 0
  BY <1>1, <1>2 DEF Increment
<1>4. old \in Heap => /\ Counted(old, stored) <=> old \notin InPlace
                      /\ old \notin InPlace => rc[old] > 0
  <2> SUFFICES ASSUME old \in Heap
               PROVE  /\ Counted(old, stored) <=> old \notin InPlace
                      /\ old \notin InPlace => rc[old] > 0
    OBVIOUS
  <2>1. IsLive(old) /\ old \in Object
    BY <1>1 DEF IInv, CountsOK
  <2>2. Counted(old, stored) <=> old \notin InPlace
    BY <2>1, CountedObjects
  <2>3. Cardinality(Refs(old)) \in Nat /\ Cardinality(Refs(old)) > 0
    BY <2>1, RefsNat DEF IInv
  <2>4. old \notin InPlace => rc[old] = held[old] + Cardinality(Refs(old))
    BY <2>1 DEF IInv, CountsOK, RefcountExact
  <2>5. held[old] \in Nat
    BY <2>1 DEF IInv, TypeOK
  <2> QED
    BY <2>2, <2>3, <2>4, <2>5
<1>5. old \in Cell => /\ Counted(old, stored) /\ rc[old] = 1
                      /\ old # v
  <2> SUFFICES ASSUME old \in Cell
               PROVE  Counted(old, stored) /\ rc[old] = 1 /\ old # v
    OBVIOUS
  <2>1. IsLive(old) /\ s = OwnerSlot[old] /\ old # v
    BY <1>1 DEF IInv, CountsOK
  <2>2. Counted(old, stored)
    BY <1>0, <1>1, <2>1, CountedObjects
  <2> QED
    BY <2>1, <2>2 DEF IInv, CellsOK
<1>6. old # Nil => old \in Heap \/ old \in Cell
  BY <1>1 DEF Object
<1>7. \A x \in Heap : new[x] = rc[x] + (IF x = v /\ x \notin InPlace THEN 1 ELSE 0)
                               - (IF x = old /\ x \notin InPlace THEN 1 ELSE 0)
  BY <1>1, <1>3, <1>4, <1>5, <1>6 DEF Decrement
<1>8. \A c \in Cell : c # old => new[c] = rc[c]
  BY <1>1, <1>3, <1>6 DEF Decrement
<1>9. old # Nil => (IsLastRef(old, stored)
                    <=> Ends(old))
  BY <1>1, <1>4, <1>5, <1>6 DEF IsLastRef, Ends
<1>10. CountsAfter(s, v) = new
  BY DEF CountsAfter, stored
<1> QED
  BY <1>7, <1>8, <1>9, <1>10 DEF stored

LEMMA StoreStrongStep ==
  ASSUME Uses = {}, IInv, NEW s \in Slot, NEW v \in Object \cup {Nil}, StoreStrong(s, v)
  PROVE  IInv'
<1>1. TypeOK'
  BY TypeStep DEF IInv, Next, Program
<1>2. /\ v \in Heap \cup {Nil}
      /\ v # Nil => v # slot[s] /\ Referenced(v)
      /\ CanUse(SlotOwner[s]) /\ SlotOwner[s] \in Object
      /\ slot' = [slot EXCEPT ![s] = v]
      /\ UNCHANGED <<Headers, held>>
  BY ConstantsAssumption DEF StoreStrong, Object, Headers
<1>3. /\ rc' = CountsAfter(s, v)
      /\ frames' = IF slot[s] # Nil /\ IsLastRef(slot[s], [slot EXCEPT ![s] = v])
                   THEN <<NewFrame(slot[s])>> \o frames ELSE frames
      /\ cache' = IF HasHeader(slot[s]) THEN slot[s] ELSE CacheAfter(v)
      /\ slot[s] \in Cell => Pinned(SlotOwner[s])
  BY DEF StoreStrong, CountsAfter
<1>4. /\ \A x \in Heap : rc'[x] = rc[x] + (IF x = v /\ x \notin InPlace THEN 1 ELSE 0)
                                  - (IF x = slot[s] /\ x \notin InPlace THEN 1 ELSE 0)
      /\ \A c \in Cell : c # slot[s] => rc'[c] = rc[c]
      /\ slot[s] # Nil => (IsLastRef(slot[s], [slot EXCEPT ![s] = v]) <=> Ends(slot[s]))
  BY <1>2, <1>3, CountsAfterStore
<1>5. frames' = IF Ends(slot[s]) THEN <<NewFrame(slot[s])>> \o frames ELSE frames
  BY <1>3, <1>4, ConstantsAssumption DEF Ends
<1>6. ASSUME NEW f \in Frame, NEW i \in DOMAIN frames, frames[i] = f
      PROVE  FrameOK(f)'
  <2>1. FrameOK(f) /\ OnStack(f.obj) /\ f.obj \in Object
    BY <1>6 DEF IInv, StackOK, OnStack, Frame
  <2>2. f.obj # v /\ f.obj # slot[s]
    BY <1>2, <2>1, Unreferenced, ConstantsAssumption DEF Object
  <2>3. f.obj \in Heap => rc'[f.obj] = 0
    BY <1>4, <2>1, <2>2, Unreferenced
  <2>4. s \notin SlotsOf(f.obj) \ f.todo
    BY <1>2, <1>6, UsedByDealloc DEF SlotsOf
  <2>5. \A x \in Slot : x # s => slot'[x] = slot[x]
    BY <1>2 DEF IInv, TypeOK
  <2>6. slot'[s] = v
    BY <1>2 DEF IInv, TypeOK
  <2>7. state' = state
    BY <1>2 DEF Headers
  <2> QED
    BY <2>1, <2>2, <2>3, <2>4, <2>5, <2>6, <2>7, FrameKept DEF IInv
<1>7. SameObjects(frames)
  BY DEF SameObjects, IInv, TypeOK
<1>8. IsLive(SlotOwner[s])
  BY <1>2, UsedIsLive
<1>9. slot[s] \in Cell => LET h == HomeOf(slot[s]) IN
        held[h] > 0 \/ h \in InPlace \/ OnStack(h)
  <2> SUFFICES ASSUME slot[s] \in Cell
               PROVE  LET h == HomeOf(slot[s]) IN held[h] > 0 \/ h \in InPlace \/ OnStack(h)
    OBVIOUS
  <2>1. HomeOf(slot[s]) = SlotOwner[s]
    BY DEF IInv, CountsOK, HomeOf
  <2>2. IsSelf(SlotOwner[s]) => OnStack(SlotOwner[s])
    BY TopOfStack DEF IsSelf, OnStack, IInv, TypeOK
  <2> QED
    BY <1>3, <2>1, <2>2 DEF Pinned
<1>10. CacheOK'
  BY <1>2, <1>3 DEF IInv, CacheOK, CacheAfter, HasHeader, IsLive, Headers
<1>11. RewiredBy(s, v, frames)
  BY <1>2, <1>4, <1>5, <1>6, <1>7, <1>8, <1>9 DEF RewiredBy
<1> QED
  BY <1>1, <1>10, <1>11, Rewired

LEMMA ClearIvarStep ==
  ASSUME IInv, NEW s \in Slot, ClearIvar(s)
  PROVE  IInv'
<1> DEFINE top == [frames[1] EXCEPT !.todo = @ \ {s}]
<1>1. TypeOK'
  BY TypeStep DEF IInv, Next, Runtime
<1>2. /\ frames \in Seq(Frame) /\ frames # <<>> /\ 1 \in DOMAIN frames
      /\ Head(frames) = frames[1] /\ frames[1] \in Frame
      /\ frames[1].phase = "ivars" /\ s \in frames[1].todo
  BY TopOfStack DEF IInv, TypeOK, ClearIvar
<1>3. PICK new \in Frame : /\ new = top /\ new.obj = frames[1].obj /\ new.phase = "ivars"
                           /\ new.todo = frames[1].todo \ {s}
  <2>1. top \in Frame
    BY <1>2 DEF Frame
  <2>2. top.obj = frames[1].obj /\ top.phase = "ivars" /\ top.todo = frames[1].todo \ {s}
    BY <1>2 DEF Frame
  <2> QED
    BY <2>1, <2>2
<1>4. PICK rest \in Seq(Frame) :
        /\ rest = [frames EXCEPT ![1].todo = @ \ {s}]
        /\ DOMAIN rest = DOMAIN frames /\ rest[1] = new
        /\ \A i \in DOMAIN frames : i # 1 => rest[i] = frames[i]
  <2> DEFINE changed == [frames EXCEPT ![1] = new]
  <2>1. /\ changed \in Seq(Frame)
        /\ DOMAIN changed = DOMAIN frames /\ changed[1] = new
        /\ \A i \in DOMAIN frames : i # 1 => changed[i] = frames[i]
    BY <1>2, TopChanged
  <2>2. changed = [frames EXCEPT ![1].todo = @ \ {s}]
    BY <1>3
  <2> QED
    BY <2>1, <2>2
<1> PICK old \in Object \cup {Nil} : old = slot[s]
  BY DEF IInv, TypeOK
<1>5. /\ FrameOK(frames[1]) /\ OnStack(frames[1].obj) /\ frames[1].obj \in Object
      /\ SlotOwner[s] = frames[1].obj
  BY <1>2 DEF IInv, StackOK, OnStack, Frame, FrameOK, SlotsOf
<1>6. old # Nil => HasHeader(old) /\ (old \in Heap \/ old \in Cell) /\ old \in Object
  BY ConstantsAssumption DEF IInv, CountsOK, HasHeader, Object
<1>7. /\ \A x \in Heap : CountsAfter(s, Nil)[x]
            = rc[x] + (IF x = Nil /\ x \notin InPlace THEN 1 ELSE 0)
              - (IF x = old /\ x \notin InPlace THEN 1 ELSE 0)
      /\ \A c \in Cell : c # old => CountsAfter(s, Nil)[c] = rc[c]
      /\ old # Nil => (IsLastRef(old, [slot EXCEPT ![s] = Nil]) <=> Ends(old))
  BY CountsAfterStore
<1>8. /\ old \in Cell => rc' = rc
      /\ old \notin Cell => rc' = CountsAfter(s, Nil)
      /\ frames' = IF Ends(old) THEN <<NewFrame(old)>> \o rest ELSE rest
  <2>1. CASE old \in Cell
    <3>1. old # Nil /\ Ends(old)
      BY <2>1, ConstantsAssumption DEF Ends
    <3> QED
      BY <1>4, <1>6, <2>1, <3>1 DEF ClearIvar
  <2>2. CASE old \notin Cell
    <3>1. Ends(old) <=> (old # Nil /\ IsLastRef(old, [slot EXCEPT ![s] = Nil]))
      BY <1>7, <2>2, ConstantsAssumption DEF Ends
    <3> QED
      BY <1>4, <2>2, <3>1 DEF ClearIvar, CountsAfter
  <2> QED
    BY <2>1, <2>2
<1>9. /\ \A x \in Heap : rc'[x] = rc[x] + (IF x = Nil /\ x \notin InPlace THEN 1 ELSE 0)
                                  - (IF x = old /\ x \notin InPlace THEN 1 ELSE 0)
      /\ \A c \in Cell : c # old => rc'[c] = rc[c]
  <2>1. \A x \in Heap : rc[x] \in Nat /\ x # Nil /\ x \notin Cell
    BY ConstantsAssumption DEF IInv, TypeOK, Object
  <2> QED
    BY <1>7, <1>8, <2>1
<1>10. /\ slot' = [slot EXCEPT ![s] = Nil] /\ slot'[s] = Nil
       /\ \A x \in Slot : x # s => slot'[x] = slot[x]
       /\ UNCHANGED <<Headers, held>> /\ state' = state
  BY DEF ClearIvar, Headers, IInv, TypeOK
<1>11. ASSUME NEW f \in Frame, NEW i \in DOMAIN rest, rest[i] = f
       PROVE  FrameOK(f)'
  <2>1. frames[i] \in Frame /\ FrameOK(frames[i]) /\ OnStack(frames[i].obj)
        /\ frames[i].obj \in Object /\ f.obj = frames[i].obj
    <3>1. frames[i] \in Frame /\ FrameOK(frames[i]) /\ OnStack(frames[i].obj)
      BY <1>2, <1>4, ElementOfSeq, LenProperties DEF IInv, StackOK, OnStack
    <3>2. f.obj = frames[i].obj
      BY <1>3, <1>4, <1>11
    <3> QED
      BY <3>1, <3>2 DEF Frame
  <2>2. f.obj # old /\ (f.obj \in Heap => rc'[f.obj] = 0)
    BY <1>9, <2>1, Unreferenced, ConstantsAssumption
  <2>3. CASE i = 1
    <3>1. f.obj = frames[1].obj /\ f.phase = "ivars" /\ f.todo = frames[1].todo \ {s}
      BY <1>3, <1>4, <1>11, <2>3
    <3>2. IsLive(f.obj)' /\ f.obj \notin InPlace
      BY <1>5, <1>10, <3>1 DEF FrameOK, IsLive
    <3>3. f.obj \in Cell => slot'[OwnerSlot[f.obj]] # f.obj
      BY <1>5, <1>10, <3>1, ConstantsAssumption DEF FrameOK
    <3>4. f.todo \subseteq SlotsOf(f.obj)
      BY <1>5, <3>1 DEF FrameOK
    <3>5. \A x \in SlotsOf(f.obj) \ f.todo : slot'[x] = Nil
      BY <1>5, <1>10, <3>1 DEF FrameOK, SlotsOf
    <3> QED
      BY <2>2, <3>1, <3>2, <3>3, <3>4, <3>5 DEF FrameOK
  <2>4. CASE i # 1
    <3>1. f = frames[i]
      BY <1>4, <1>11, <2>4
    <3>2. FrameOK(f) /\ f.obj \in Object
      BY <2>1, <3>1
    <3>3. \A x \in Slot : slot'[x] = slot[x] \/ slot'[x] = Nil
      BY <1>10
    <3> QED
      BY <1>10, <2>2, <3>2, <3>3, FrameKept DEF IInv
  <2> QED
    BY <2>3, <2>4
<1>12. SameObjects(rest)
  BY <1>3, <1>4 DEF SameObjects
<1>13. old \in Cell => OnStack(HomeOf(old))
  <2>1. old \in Cell => HomeOf(old) = SlotOwner[s]
    BY DEF IInv, CountsOK, HomeOf
  <2> QED
    BY <1>5, <2>1
<1>14. IsLive(SlotOwner[s])
  BY <1>5 DEF FrameOK
<1>15. RewiredBy(s, Nil, rest)
  BY <1>8, <1>9, <1>10, <1>11, <1>12, <1>13, <1>14 DEF RewiredBy
<1>16. CacheOK'
  BY CacheKept DEF ClearIvar, IInv
<1> QED
  BY <1>1, <1>15, <1>16, Rewired
-----------------------------------------------------------------------------
(* Allocation *)

\* An object that has not been allocated is in no group and nothing refers to it.
LEMMA Fresh ==
  ASSUME IInv, NEW o \in Heap, state[o] = "absent"
  PROVE  /\ o \in Object /\ o \notin Cell /\ ~IsLive(o) /\ ~HasMemory(o)
         /\ group[o] = Nil /\ parent[o] = Nil
         /\ ~OnStack(o) /\ ~(held[o] > 0)
         /\ \A s \in Slot : slot[s] # o
<1>1. o \in Object /\ o \notin Cell /\ o # Nil
  BY ConstantsAssumption DEF Object
<1>2. ~IsLive(o) /\ ~HasMemory(o)
  BY DEF IsLive, HasMemory
<1>3. group[o] = Nil /\ parent[o] = Nil
  BY <1>1, <1>2 DEF IInv, GroupsOK
<1>4. ~OnStack(o)
  BY <1>2 DEF IInv, StackOK, OnStack, FrameOK
<1> QED
  BY <1>1, <1>2, <1>3, <1>4 DEF IInv, CountsOK

\* A new object on the heap, with the one reference its creator holds; objects
\* of +allocInPlace:size: are not counted. Groups are another matter.
AddedBy(o) ==
  /\ state[o] = "absent"
  /\ state' = [state EXCEPT ![o] = "live"]
  /\ rc' = [rc EXCEPT ![o] = 1]
  /\ held' = IF o \in InPlace THEN held ELSE [held EXCEPT ![o] = 1]
  /\ UNCHANGED <<slot, frames, cache>>
  /\ \A c \in Cell : group'[c] = group[c] /\ parent'[c] = parent[c]

LEMMA Added ==
  ASSUME IInv, TypeOK', GroupsOK', NEW o \in Heap, AddedBy(o)
  PROVE  IInv'
<1> USE DEF AddedBy
<1>1. /\ o \in Object /\ o \notin Cell /\ ~IsLive(o) /\ ~OnStack(o) /\ ~(held[o] > 0)
      /\ \A s \in Slot : slot[s] # o
  BY Fresh
<1>2. /\ IsLive(o)' /\ rc'[o] = 1
      /\ o \notin InPlace => held'[o] = 1
      /\ o \in InPlace => held'[o] = held[o]
      /\ \A x \in Object : x # o => /\ IsLive(x)' <=> IsLive(x)
                                    /\ state'[x] = state[x]
                                    /\ rc'[x] = rc[x] /\ held'[x] = held[x]
  BY <1>1 DEF IInv, TypeOK, IsLive
<1>3. StackOK'
  <2>1. ASSUME NEW i \in DOMAIN frames, NEW f \in Frame, frames[i] = f PROVE FrameOK(f)'
    <3>1. FrameOK(f) /\ f.obj # o /\ f.obj \in Object
      BY <1>1, <2>1 DEF IInv, StackOK, OnStack, Frame
    <3> QED
      BY <1>2, <3>1 DEF FrameOK
  <2>2. \A i \in DOMAIN frames : frames[i] \in Frame
    BY ElementOfSeq, LenProperties DEF IInv, TypeOK
  <2>3. (\A i \in DOMAIN frames : FrameOK(frames[i]))'
    BY <2>1, <2>2 DEF FrameOK
  <2> QED
    BY <2>3 DEF IInv, StackOK, DeallocNotReentered
<1>4. CountsOK'
  <2>1. ASSUME NEW x \in Heap \ InPlace, IsLive(x)'
        PROVE  rc'[x] = held'[x] + Cardinality(Refs(x))'
    <3>1. x \in Object /\ Cardinality(Refs(x))' = Cardinality(Refs(x))
      BY DEF Refs, Object
    <3>2. x = o => Cardinality(Refs(x)) = 0
      BY <1>1, RefsNat DEF IInv
    <3> QED
      BY <1>2, <2>1, <3>1, <3>2 DEF IInv, CountsOK, RefcountExact
  <2>2. \A x \in Object : held'[x] > 0 => IsLive(x)' /\ x \in Heap \ InPlace
    BY <1>1, <1>2 DEF IInv, CountsOK
  <2>3. \A x \in Object : IsLive(x) => IsLive(x)'
    BY <1>2
  <2>4. \A x \in InPlace : state'[x] \in {"absent", "live"}
    BY <1>2, ConstantsAssumption DEF IInv, CountsOK, IsLive, Object
  <2>5. \A s \in Slot : slot[s] # Nil => slot[s] \in Object /\ SlotOwner[s] \in Object
    BY ConstantsAssumption DEF IInv, TypeOK
  <2> QED
    BY <2>1, <2>2, <2>3, <2>4, <2>5 DEF IInv, CountsOK, RefcountExact
<1>5. NoForgottenObject'
  <2>1. ASSUME NEW x \in Object \ InPlace, IsLive(x)' PROVE Referenced(x)' \/ OnStack(x)'
    <3>1. CASE x = o
      BY <1>2, <3>1 DEF Referenced
    <3>2. CASE x # o
      BY <1>2, <2>1, <3>2 DEF IInv, NoForgottenObject, Referenced, InOwnerSlot, OnStack
    <3> QED
      BY <3>1, <3>2
  <2> QED
    BY <2>1 DEF NoForgottenObject, OnStack
<1>6. CellsOK'
  <2>1. \A c \in Cell : c \in Object /\ c # o /\ HomeOf(c) \in Object
    BY <1>1, ConstantsAssumption DEF Object
  <2>2. \A x \in Object : (IsLive(x) => IsLive(x)') /\ (held[x] > 0 => held'[x] > 0)
    BY <1>1, <1>2
  <2>3. ASSUME NEW i \in DOMAIN frames PROVE Hosted(i)'
    BY <2>1, <2>2 DEF IInv, CellsOK, Hosted
  <2>4. ASSUME NEW c \in Cell
        PROVE  /\ group'[c] = Nil
               /\ state'[c] \in {"live", "disposed"}
               /\ IsLive(c)' => parent'[c] = HomeOf(c) /\ IsLive(HomeOf(c))'
               /\ slot'[OwnerSlot[c]] = c => rc'[c] = 1
    BY <1>2, <2>1, <2>2 DEF IInv, CellsOK
  <2> QED
    BY <2>3, <2>4 DEF CellsOK
<1>7. CacheOK'
  BY <1>2 DEF IInv, TypeOK, CacheOK, Object
<1> QED
  BY <1>3, <1>4, <1>5, <1>6, <1>7 DEF IInv

\* An object on its own changes no group.
LEMMA AddedAlone ==
  ASSUME IInv, NEW o \in Heap, state[o] = "absent", TypeOK',
         state' = [state EXCEPT ![o] = "live"],
         UNCHANGED <<parent, group, liveCount>>
  PROVE  GroupsOK'
<1>1. o \in Object /\ group[o] = Nil
  BY Fresh
<1>2. \A x \in Object : x # o => state'[x] = state[x]
  BY DEF IInv, TypeOK
<1>3. state'[o] = "live"
  BY <1>1 DEF IInv, TypeOK
<1>4. \A x \in Heap : HasMemory(x) => HasMemory(x)'
  BY <1>2, <1>3 DEF HasMemory, Object
<1>5. \A g \in Group : LiveMembers(g)' = LiveMembers(g)
  BY <1>1, <1>2, ConstantsAssumption DEF LiveMembers, Members, IsLive, Group
<1>6. \A x \in Object : group[x] # Nil => group[x] \in Group
  BY DEF IInv, TypeOK
<1>7. \A x \in Heap : state'[x] = "disposed" => group'[x] # Nil
  BY <1>2, <1>3 DEF IInv, GroupsOK, Object
<1>8. \A x \in Object : group'[x] # Nil =>
        /\ x \in Heap /\ HasMemory(x)'
        /\ group'[x] \in Heap /\ group'[group'[x]] = group'[x]
        /\ LiveMembers(group[x])' # {}
  BY <1>4, <1>5, <1>6 DEF IInv, GroupsOK
<1>9. LiveCountExact'
  BY <1>5 DEF IInv, GroupsOK, LiveCountExact
<1> QED
  BY <1>7, <1>8, <1>9 DEF IInv, GroupsOK

LEMMA AllocObjectStep ==
  ASSUME IInv, NEW o \in Heap, AllocObject(o) \/ AllocInPlace(o)
  PROVE  IInv'
<1>1. TypeOK'
  BY TypeStep DEF IInv, Next, Program
<1>2. AddedBy(o) /\ UNCHANGED <<parent, group, liveCount>>
  BY DEF AllocObject, AllocInPlace, AddedBy
<1>3. GroupsOK'
  BY <1>1, <1>2, AddedAlone DEF AddedBy
<1> QED
  BY <1>1, <1>2, <1>3, Added

LEMMA AllocValueStep ==
  ASSUME IInv, NEW c \in Cell, AllocValue(c)
  PROVE  IInv'
<1> DEFINE p == HomeOf(c)
           own == OwnerSlot[c]
<1> USE DEF AllocValue
<1>1. TypeOK'
  BY TypeStep DEF IInv, Next, Program
<1>2. /\ c \in Object /\ c \notin Heap /\ c \notin InPlace /\ c # Nil
      /\ p \in Heap /\ p \in Object /\ p # Nil /\ own \in Slot /\ SlotOwner[own] = p
  BY ConstantsAssumption DEF Object, HomeOf
<1>3. CanUse(p) /\ IsLive(p) /\ ~IsLive(c) /\ slot[own] = Nil
  BY <1>2, UsedIsLive
<1>4. group' = group
  BY DEF IInv, TypeOK, CellsOK
<1>5. /\ IsLive(c)' /\ state'[c] = "live" /\ rc'[c] = 1 /\ parent'[c] = p /\ slot'[own] = c
      /\ \A s \in Slot : s # own => slot'[s] = slot[s]
      /\ \A x \in Object : x # c => /\ state'[x] = state[x] /\ rc'[x] = rc[x]
                                    /\ parent'[x] = parent[x]
                                    /\ IsLive(x)' <=> IsLive(x)
  BY <1>2 DEF IInv, TypeOK, IsLive
<1>6. StackOK'
  <2>1. ASSUME NEW i \in DOMAIN frames, NEW f \in Frame, frames[i] = f PROVE FrameOK(f)'
    <3>1. FrameOK(f) /\ f.obj # c /\ f.obj \in Object
      BY <1>3, <2>1 DEF IInv, StackOK, FrameOK, Frame
    <3>2. own \notin SlotsOf(f.obj) \ f.todo
      BY <1>2, <1>3, <2>1, UsedByDealloc DEF SlotsOf
    <3>3. \A s \in SlotsOf(f.obj) \ f.todo : slot'[s] = Nil
      BY <1>5, <3>1, <3>2 DEF FrameOK, SlotsOf
    <3>4. f.obj \in Cell => slot'[OwnerSlot[f.obj]] # f.obj
      BY <1>5, <3>1, ConstantsAssumption DEF FrameOK
    <3> QED
      BY <1>5, <3>1, <3>3, <3>4 DEF FrameOK
  <2>2. \A i \in DOMAIN frames : frames[i] \in Frame
    BY ElementOfSeq, LenProperties DEF IInv, TypeOK
  <2>3. (\A i \in DOMAIN frames : FrameOK(frames[i]))'
    BY <2>1, <2>2 DEF FrameOK
  <2> QED
    BY <2>3 DEF IInv, StackOK, DeallocNotReentered
<1>7. CountsOK'
  <2>1. ASSUME NEW x \in Heap \ InPlace, IsLive(x)'
        PROVE  rc'[x] = held'[x] + Cardinality(Refs(x))'
    <3>1. x \in Object /\ x # c /\ x # Nil
      BY <1>2, ConstantsAssumption DEF Object
    <3>2. Refs(x)' = Refs(x)
      BY <1>3, <1>5, <3>1 DEF Refs
    <3> QED
      BY <1>5, <2>1, <3>1, <3>2 DEF IInv, CountsOK, RefcountExact
  <2>2. \A x \in Object : IsLive(x) => IsLive(x)'
    BY <1>5
  <2>3. \A s \in Slot : SlotOwner[s] \in Object /\ slot[s] \in Object \cup {Nil}
    BY ConstantsAssumption DEF IInv, TypeOK
  <2>4. \A s \in Slot : slot'[s] # Nil =>
          state'[slot'[s]] = "live" /\ state'[SlotOwner[s]] = "live"
    <3> TAKE s \in Slot
    <3>1. CASE s = own
      BY <1>2, <1>3, <1>5, <2>2, <3>1 DEF IsLive
    <3>2. CASE s # own
      BY <1>5, <2>2, <2>3, <3>2 DEF IInv, CountsOK, IsLive
    <3> QED
      BY <3>1, <3>2
  <2>5. \A s \in Slot : slot'[s] \in Cell => s = OwnerSlot[slot'[s]]
    BY <1>5 DEF IInv, CountsOK
  <2>6. \A x \in InPlace : state'[x] \in {"absent", "live"}
    BY <1>2, <1>5, ConstantsAssumption DEF IInv, CountsOK, Object
  <2> QED
    BY <2>1, <2>2, <2>4, <2>5, <2>6 DEF IInv, CountsOK, RefcountExact, IsLive
<1>8. NoForgottenObject'
  <2>1. ASSUME NEW x \in Object \ InPlace, IsLive(x)' PROVE Referenced(x)' \/ OnStack(x)'
    <3>1. CASE x = c
      BY <1>2, <1>5, <3>1 DEF Referenced, InOwnerSlot
    <3>2. CASE x # c
      <4>1. IsLive(x) /\ (Referenced(x) \/ OnStack(x))
        BY <1>5, <2>1, <3>2 DEF IInv, NoForgottenObject, OnStack
      <4>2. OnStack(x) => OnStack(x)'
        BY DEF OnStack
      <4>3. InOwnerSlot(x, slot) => InOwnerSlot(x, slot)'
        BY <1>2, <1>3, <1>5, <3>2, ConstantsAssumption DEF InOwnerSlot
      <4> QED
        BY <1>5, <2>1, <3>2, <4>1, <4>2, <4>3 DEF Referenced
    <3> QED
      BY <3>1, <3>2
  <2> QED
    BY <2>1 DEF NoForgottenObject, OnStack
<1>9. CellsOK'
  <2>1. \A d \in Cell : d \in Object /\ HomeOf(d) \in Object /\ HomeOf(d) # c
    BY <1>2, ConstantsAssumption DEF Object
  <2>2. ASSUME NEW d \in Cell
        PROVE  /\ group'[d] = Nil
               /\ state'[d] \in {"live", "disposed"}
               /\ IsLive(d)' => parent'[d] = HomeOf(d) /\ IsLive(HomeOf(d))'
               /\ slot'[OwnerSlot[d]] = d => rc'[d] = 1
    <3>1. CASE d = c
      BY <1>2, <1>3, <1>4, <1>5, <3>1 DEF IInv, CellsOK
    <3>2. CASE d # c
      BY <1>4, <1>5, <2>1, <3>2, ConstantsAssumption DEF IInv, CellsOK
    <3> QED
      BY <3>1, <3>2
  <2>3. ASSUME NEW i \in DOMAIN frames PROVE Hosted(i)'
    BY DEF IInv, CellsOK, Hosted
  <2> QED
    BY <2>2, <2>3 DEF CellsOK
<1>10. GroupsOK'
  <2>1. \A x \in Heap : x # c /\ x \in Object
    BY <1>2 DEF Object
  <2>2. \A x \in Heap : HasMemory(x)' <=> HasMemory(x)
    BY <1>5, <2>1 DEF HasMemory
  <2>3. \A g \in Group : LiveMembers(g)' = LiveMembers(g)
    <3>1. \A g \in Group : group[c] # g
      BY ConstantsAssumption DEF IInv, CellsOK, Group
    <3>2. \A g \in Group, x \in Object : group[x] = g => (IsLive(x)' <=> IsLive(x))
      BY <1>5, <3>1
    <3>3. \A g \in Group : Members(g)' = Members(g)
      BY <1>4 DEF Members
    <3> QED
      BY <3>2, <3>3 DEF LiveMembers, Members
  <2>4. \A x \in Object : group[x] # Nil =>
          /\ x \in Heap /\ HasMemory(x)'
          /\ group[x] \in Heap /\ group[group[x]] = group[x]
          /\ LiveMembers(group[x])' # {}
    <3>1. \A x \in Object : group[x] # Nil => group[x] \in Group
      BY DEF IInv, TypeOK
    <3> QED
      BY <1>4, <2>2, <2>3, <3>1 DEF IInv, GroupsOK
  <2>5. \A x \in Heap : state'[x] = "disposed" => group[x] # Nil
    BY <1>5, <2>1 DEF IInv, GroupsOK
  <2>6. \A x \in Heap : parent'[x] # Nil =>
          parent'[x] \in Heap /\ group[x] # Nil /\ group[parent'[x]] = group[x]
    BY <1>5, <2>1 DEF IInv, GroupsOK
  <2>7. LiveCountExact'
    BY <2>3 DEF IInv, GroupsOK, LiveCountExact
  <2> QED
    BY <1>4, <2>4, <2>5, <2>6, <2>7 DEF GroupsOK
<1>11. CacheOK'
  BY <1>5 DEF IInv, TypeOK, CacheOK
<1> QED
  BY <1>1, <1>6, <1>7, <1>8, <1>9, <1>10, <1>11 DEF IInv

\* p or its root r, of which r becomes a group if it is none: r is a heap
\* object with memory, and with p there are as many live members as
\* sf_header_init_group_root leaves in its counter.
LEMMA RootForChild ==
  ASSUME IInv, NEW p \in Heap, IsLive(p), NEW r, r = RootOf(p)
  PROVE  /\ r \in Heap /\ HasMemory(r) /\ GroupsFor(r) = {r} /\ RootsWith(r, r) = extRoot
         /\ group[p] = Nil => r = p
         /\ group[p] # Nil => group[p] = r /\ group[r] = r
         /\ \A x \in Object : group[x] = r => group[r] = r
         /\ IsFiniteSet(LiveMembers(r) \cup {p})
         /\ CountWith(r, r) = Cardinality(LiveMembers(r) \cup {p})
<1>1. p \in Object /\ HasMemory(p)
  BY DEF Object, IsLive, HasMemory
<1>2. group[p] = Nil => r = p
  BY DEF RootOf
<1>3. group[p] # Nil => r = group[p] /\ r \in Heap /\ group[r] = r
  BY <1>1 DEF RootOf, IInv, GroupsOK
<1>4. r \in Heap /\ r \in Object /\ r \in Group /\ r \notin GroupState
  BY <1>2, <1>3, ConstantsAssumption DEF Object, Group
<1>5. HasMemory(r)
  BY <1>1, <1>2, <1>3, <1>4, ConstantsAssumption DEF IInv, GroupsOK, Object
<1>6. GroupsFor(r) = {r} /\ RootsWith(r, r) = extRoot
  BY <1>2, <1>3, <1>4 DEF GroupsFor, RootsWith
<1>7. \A x \in Object : group[x] = r => group[r] = r
  BY <1>4, ConstantsAssumption DEF IInv, GroupsOK, Object
<1>8. IsFiniteSet(LiveMembers(r))
  <2>1. IsFiniteSet(Object)
    BY ConstantsAssumption, FS_Union DEF Object
  <2> QED
    BY <2>1, FS_Subset DEF LiveMembers, Members
<1>9. IsFiniteSet(LiveMembers(r) \cup {p})
  BY <1>8, FS_AddElement
<1>10. CountWith(r, r) = Cardinality(LiveMembers(r) \cup {p})
  <2>1. CASE group[p] = Nil
    <3>1. LiveMembers(r) = {} /\ group[r] = Nil
      BY <1>2, <1>4, <1>7, <2>1, ConstantsAssumption DEF LiveMembers, Members
    <3>2. LiveMembers(r) \cup {p} = {p}
      BY <3>1
    <3> QED
      BY <3>1, <3>2, FS_Singleton DEF CountWith
  <2>2. CASE group[p] # Nil
    <3>1. p \in LiveMembers(r) /\ group[r] # Nil
      BY <1>1, <1>3, <1>4, <2>2, ConstantsAssumption DEF LiveMembers, Members
    <3>2. LiveMembers(r) \cup {p} = LiveMembers(r)
      BY <3>1
    <3> QED
      BY <1>4, <3>1, <3>2 DEF CountWith, IInv, GroupsOK, LiveCountExact
  <2> QED
    BY <2>1, <2>2
<1> QED
  BY <1>2, <1>3, <1>4, <1>5, <1>6, <1>7, <1>9, <1>10

\* The objects of joins, one or none, are new and join the group of p.
JoinedBy(p, joins) ==
  LET r == RootOf(p) IN
  /\ joins = {} \/ \E o \in Heap : joins = {o} /\ state[o] = "absent"
  /\ \A x \in Object :
       /\ state'[x] = IF x \in joins THEN "live" ELSE state[x]
       /\ parent'[x] = IF x \in joins THEN p ELSE parent[x]
       /\ group'[x] = IF x = r \/ x \in joins THEN r ELSE group[x]
  /\ \A g \in Group :
       liveCount'[g] = IF g = r THEN CountWith(r, r) + Cardinality(joins) ELSE liveCount[g]

LEMMA Joined ==
  ASSUME IInv, TypeOK', NEW p \in Heap, IsLive(p), NEW joins, JoinedBy(p, joins)
  PROVE  GroupsOK'
<1> USE DEF JoinedBy
<1> PICK r \in Heap : r = RootOf(p)
  BY RootForChild
<1>1. /\ r \in Heap /\ HasMemory(r)
      /\ group[p] = Nil => r = p
      /\ group[p] # Nil => group[p] = r /\ group[r] = r
      /\ \A x \in Object : group[x] = r => group[r] = r
      /\ IsFiniteSet(LiveMembers(r) \cup {p})
      /\ CountWith(r, r) = Cardinality(LiveMembers(r) \cup {p})
  BY RootForChild
<1>2. /\ \A x \in Object :
            /\ state'[x] = IF x \in joins THEN "live" ELSE state[x]
            /\ parent'[x] = IF x \in joins THEN p ELSE parent[x]
            /\ group'[x] = IF x = r \/ x \in joins THEN r ELSE group[x]
      /\ \A g \in Group :
            liveCount'[g] = IF g = r THEN CountWith(r, r) + Cardinality(joins)
                                     ELSE liveCount[g]
  OBVIOUS
<1>3. \A x \in joins : /\ x \in Heap /\ x \in Object /\ ~IsLive(x) /\ ~HasMemory(x)
                       /\ group[x] = Nil /\ x # r /\ x # p
  BY <1>1, Fresh
<1>4. r \in Object /\ p \in Object /\ r # Nil /\ r \in Group
      /\ \A x \in Heap : x \in Object /\ x # Nil
  BY ConstantsAssumption DEF Object, Group
<1> HIDE DEF JoinedBy
<1>5. group'[r] = r
  BY <1>2, <1>4
<1>6. \A x \in Object : group[x] # Nil => group'[x] = group[x]
  BY <1>1, <1>2, <1>3, <1>4 DEF IInv, GroupsOK
<1>7. \A x \in Heap : (HasMemory(x) => HasMemory(x)') /\ (x \in joins => HasMemory(x)')
  BY <1>2, <1>4 DEF HasMemory
<1>8. LiveMembers(r)' = (LiveMembers(r) \cup {p}) \cup joins
  <2>1. \A x \in Object : group'[x] = r <=> group[x] = r \/ x = r \/ x \in joins
    BY <1>2
  <2>2. \A x \in Object : IsLive(x)' <=> IsLive(x) \/ x \in joins
    BY <1>2 DEF IsLive
  <2>3. \A x \in Object : x \in LiveMembers(r)' <=>
          x \in LiveMembers(r) \/ (x = r /\ IsLive(x)) \/ x \in joins
    BY <2>1, <2>2 DEF LiveMembers, Members
  <2>4. \A x \in Object : (x = r /\ IsLive(x)) => x \in LiveMembers(r) \/ x = p
    BY <1>1 DEF LiveMembers, Members
  <2>5. p \in LiveMembers(r) \/ p = r
    BY <1>1, <1>4 DEF LiveMembers, Members
  <2>6. joins \subseteq Object /\ LiveMembers(r) \subseteq Object /\ LiveMembers(r)' \subseteq Object
    BY <1>3 DEF LiveMembers, Members
  <2> QED
    BY <1>4, <2>3, <2>4, <2>5, <2>6
<1>9. \A g \in Group : g # r => LiveMembers(g)' = LiveMembers(g)
  <2>1. TAKE g \in Group
  <2>2. HAVE g # r
  <2>3. group[r] # g /\ \A x \in joins : group[x] # g
    <3>1. group[r] = Nil \/ group[r] = r
      BY <1>1, <1>4 DEF IInv, GroupsOK
    <3> QED
      BY <1>3, <2>2, <3>1, ConstantsAssumption DEF Group
  <2>4. \A x \in Object : group'[x] = g <=> group[x] = g
    BY <1>2, <2>2, <2>3
  <2>5. \A x \in Object : group[x] = g => (IsLive(x)' <=> IsLive(x))
    BY <1>2, <2>3 DEF IsLive
  <2> QED
    BY <2>4, <2>5 DEF LiveMembers, Members
<1>10. \A x \in Object : group'[x] # Nil =>
         /\ x \in Heap /\ HasMemory(x)'
         /\ group'[x] \in Heap /\ group'[group'[x]] = group'[x]
         /\ \A g : g = group'[x] => LiveMembers(g)' # {}
  <2> TAKE x \in Object
  <2> HAVE group'[x] # Nil
  <2>1. CASE x = r \/ x \in joins
    BY <1>1, <1>2, <1>3, <1>5, <1>7, <1>8, <2>1
  <2>2. CASE ~(x = r \/ x \in joins)
    <3>1. group'[x] = group[x] /\ group[x] # Nil /\ x \in Heap /\ HasMemory(x)
          /\ group[x] \in Heap /\ group[group[x]] = group[x] /\ LiveMembers(group[x]) # {}
      BY <1>2, <2>2 DEF IInv, GroupsOK
    <3>2. group'[group[x]] = group[x]
      BY <1>4, <1>6, <3>1
    <3>3. \A g : g = group[x] => LiveMembers(g)' # {}
      BY <1>4, <1>8, <1>9, <3>1 DEF Group
    <3> QED
      BY <1>7, <3>1, <3>2, <3>3
  <2> QED
    BY <2>1, <2>2
<1>11. \A x \in Heap : state'[x] = "disposed" => group'[x] # Nil
  BY <1>2, <1>4, <1>6 DEF IInv, GroupsOK
<1>12. \A x \in Heap : parent'[x] # Nil =>
         parent'[x] \in Heap /\ group'[x] # Nil /\ group'[parent'[x]] = group'[x]
  <2> TAKE x \in Heap
  <2> HAVE parent'[x] # Nil
  <2>1. CASE x \in joins
    <3>1. parent'[x] = p /\ group'[x] = r
      BY <1>2, <1>4, <2>1
    <3>2. group'[p] = r
      BY <1>1, <1>4, <1>5, <1>6
    <3> QED
      BY <1>4, <3>1, <3>2
  <2>2. CASE x \notin joins
    <3>1. parent'[x] = parent[x]
      BY <1>2, <1>4, <2>2
    <3>2. parent[x] \in Heap /\ group[x] # Nil /\ group[parent[x]] = group[x]
      BY <3>1 DEF IInv, GroupsOK
    <3> QED
      BY <1>4, <1>6, <3>1, <3>2
  <2> QED
    BY <2>1, <2>2
<1>13. LiveCountExact'
  <2>1. Cardinality((LiveMembers(r) \cup {p}) \cup joins) = CountWith(r, r) + Cardinality(joins)
    <3>1. CASE joins = {}
      <4>1. (LiveMembers(r) \cup {p}) \cup joins = LiveMembers(r) \cup {p}
        BY <3>1
      <4>2. Cardinality(joins) = 0 /\ CountWith(r, r) \in Nat
        <5>1. Cardinality(joins) = 0
          BY <3>1, FS_EmptySet
        <5>2. CountWith(r, r) \in Nat
          BY <1>1, FS_CardinalityType
        <5> QED
          BY <5>1, <5>2
      <4> QED
        BY <1>1, <4>1, <4>2
    <3>2. CASE joins # {}
      <4>1. PICK o \in Heap : joins = {o}
        BY <3>2 DEF JoinedBy
      <4>2. o \notin LiveMembers(r) \cup {p}
        BY <1>3, <4>1 DEF LiveMembers
      <4>3. Cardinality((LiveMembers(r) \cup {p}) \cup {o}) = CountWith(r, r) + 1
        <5>1. PICK S : S = LiveMembers(r) \cup {p}
          OBVIOUS
        <5>2. IsFiniteSet(S) /\ Cardinality(S) = CountWith(r, r) /\ o \notin S
          BY <1>1, <4>2, <5>1
        <5>3. Cardinality(S \cup {o}) = Cardinality(S) + 1
          BY <5>2, FS_AddElement
        <5> QED
          BY <5>1, <5>2, <5>3
      <4>4. Cardinality(joins) = 1
        BY <4>1, FS_Singleton
      <4> QED
        BY <4>1, <4>3, <4>4
    <3> QED
      BY <3>1, <3>2
  <2>2. \A g \in Group : liveCount'[g] = Cardinality(LiveMembers(g)')
    BY <1>2, <1>8, <1>9, <2>1 DEF IInv, GroupsOK, LiveCountExact
  <2> QED
    BY <2>2 DEF LiveCountExact
<1> QED
  BY <1>10, <1>11, <1>12, <1>13 DEF GroupsOK

LEMMA AllocChildStep ==
  ASSUME Uses = {}, IInv, NEW p \in Object, NEW o \in Heap, AllocChild(o, p)
  PROVE  IInv'
<1> USE DEF AllocChild, JoinedGroup, LiveCountSet, GroupDead
<1> PICK r : r = RootOf(p)
  OBVIOUS
<1>1. TypeOK'
  BY TypeStep DEF IInv, Next, Program
<1>2. p \in Heap /\ IsLive(p)
  BY UsedIsLive DEF Object
<1>3. r \in Heap /\ GroupsFor(r) = {r} /\ o \in Object /\ r \in Object /\ o \notin Cell
      /\ r \in Group
  BY <1>2, RootForChild, Fresh DEF Object, Group
<1>4. /\ group' = [group EXCEPT ![r] = r, ![o] = r]
      /\ liveCount' = [liveCount EXCEPT ![r] = CountWith(r, r) + 1]
  BY <1>3
<1>5. AddedBy(o)
  <2>1. \A c \in Cell : group'[c] = group[c] /\ parent'[c] = parent[c]
    BY <1>3, <1>4, ConstantsAssumption DEF IInv, TypeOK, Object
  <2> QED
    BY <2>1 DEF AddedBy
<1>6. JoinedBy(p, {o})
  <2>1. /\ \A x \in Object :
             /\ state'[x] = IF x \in {o} THEN "live" ELSE state[x]
             /\ parent'[x] = IF x \in {o} THEN p ELSE parent[x]
             /\ group'[x] = IF x = r \/ x \in {o} THEN r ELSE group[x]
    BY <1>3, <1>4 DEF IInv, TypeOK
  <2>2. \A g \in Group : liveCount'[g] = IF g = r THEN CountWith(r, r) + Cardinality({o})
                                         ELSE liveCount[g]
    BY <1>3, <1>4, FS_Singleton DEF IInv, TypeOK
  <2> QED
    BY <2>1, <2>2 DEF JoinedBy
<1>7. GroupsOK'
  BY <1>1, <1>2, <1>6, Joined
<1> QED
  BY <1>1, <1>5, <1>7, Added

LEMMA AllocChildFailsStep ==
  ASSUME Uses = {}, IInv, NEW p \in Object, AllocChildFails(p)
  PROVE  IInv'
<1> USE DEF AllocChildFails, LiveCountSet
<1> PICK r : r = RootOf(p)
  OBVIOUS
<1>1. TypeOK'
  BY TypeStep DEF IInv, Next, Program
<1>2. p \in Heap /\ IsLive(p)
  BY UsedIsLive DEF Object
<1>3. r \in Heap /\ GroupsFor(r) = {r} /\ r \in Object /\ r \in Group
      /\ CountWith(r, r) \in Nat
  BY <1>2, RootForChild, CountWithType DEF IInv, Object, Group
<1>4. /\ group' = [group EXCEPT ![r] = r]
      /\ liveCount' = [liveCount EXCEPT ![r] = CountWith(r, r)]
  BY <1>3
<1>5. JoinedBy(p, {})
  <2>1. \A x \in Object : group'[x] = IF x = r \/ x \in {} THEN r ELSE group[x]
    BY <1>3, <1>4 DEF IInv, TypeOK
  <2>2. \A g \in Group : liveCount'[g] = IF g = r THEN CountWith(r, r) + Cardinality({})
                                         ELSE liveCount[g]
    BY <1>3, <1>4, FS_EmptySet DEF IInv, TypeOK
  <2> QED
    BY <2>1, <2>2 DEF JoinedBy
<1>6. GroupsOK'
  BY <1>1, <1>2, <1>5, Joined
<1>7. \A c \in Cell : group'[c] = group[c]
  BY <1>3, <1>4, ConstantsAssumption DEF IInv, TypeOK, Object
<1>8. StackOK'
  BY DEF IInv, StackOK, DeallocNotReentered, FrameOK, IsLive
<1>9. CountsOK'
  BY DEF IInv, CountsOK, RefcountExact, Refs, IsLive
<1>10. NoForgottenObject'
  BY DEF IInv, NoForgottenObject, Referenced, InOwnerSlot, IsLive
<1>11. CellsOK'
  BY <1>7 DEF IInv, CellsOK, Hosted, IsLive
<1>12. CacheOK'
  BY DEF IInv, CacheOK, IsLive
<1> QED
  BY <1>1, <1>6, <1>8, <1>9, <1>10, <1>11, <1>12 DEF IInv
-----------------------------------------------------------------------------
(* The end of a release *)

\* o, at the top of the stack, leaves it and is no longer live. Nobody else
\* changes, but for the memory of its group.
LeftBy(o) ==
  /\ frames # <<>> /\ o = frames[1].obj /\ frames[1].todo = {}
  /\ frames' = Tail(frames) /\ cache' = Nil
  /\ UNCHANGED <<rc, slot, held>>
  /\ ~IsLive(o)'
  /\ \A x \in Object : x # o => (IsLive(x)' <=> IsLive(x))
  /\ \A x \in InPlace : state'[x] = state[x]
  /\ \A c \in Cell : /\ state'[c] \in {"live", "disposed"} /\ group'[c] = Nil
                     /\ c # o => parent'[c] = parent[c]

LEMMA Left ==
  ASSUME IInv, TypeOK', GroupsOK', NEW o \in Object, LeftBy(o)
  PROVE  IInv'
<1> USE DEF LeftBy
<1> DEFINE n == Len(frames)
<1>1. /\ n \in Nat \ {0} /\ DOMAIN frames = 1 .. n /\ 1 \in DOMAIN frames
      /\ DOMAIN frames' = 1 .. n - 1
      /\ \A i \in 1 .. n - 1 : frames'[i] = frames[i + 1] /\ i + 1 \in 1 .. n
  BY TopOfStack, Popped DEF IInv, TypeOK
<1> HIDE DEF n
<1>2. /\ OnStack(o) /\ IsLive(o) /\ o \notin InPlace /\ ~Referenced(o)
      /\ o \in Heap => rc[o] = 0 /\ held[o] = 0
      /\ \A s \in Slot : slot[s] # o
      /\ \A s \in SlotsOf(o) : slot[s] = Nil
  <2>1. OnStack(o)
    BY <1>1 DEF OnStack
  <2>2. \A s \in SlotsOf(o) : slot[s] = Nil
    BY <1>1 DEF IInv, StackOK, FrameOK
  <2> QED
    BY <2>1, <2>2, Unreferenced
<1>3. \A i \in 1 .. n : frames[i].obj = o => i = 1
  BY <1>1 DEF IInv, StackOK, DeallocNotReentered
<1>4. \A i \in 1 .. n - 1 : frames'[i].obj # o
  BY <1>1, <1>3
<1>5. StackOK'
  <2>1. DeallocNotReentered'
    <3>1. ASSUME NEW i \in 1 .. n - 1, NEW j \in 1 .. n - 1, frames'[i].obj = frames'[j].obj
          PROVE  i = j
      <4>1. i + 1 = j + 1
        BY <1>1, <3>1 DEF IInv, StackOK, DeallocNotReentered
      <4> QED
        BY <1>1, <4>1
    <3> QED
      BY <1>1, <3>1 DEF DeallocNotReentered
  <2>2. ASSUME NEW i \in 1 .. n - 1, NEW f \in Frame, frames'[i] = f PROVE FrameOK(f)'
    <3>1. FrameOK(f) /\ f.obj # o /\ f.obj \in Object
      BY <1>1, <1>4, <2>2 DEF IInv, StackOK, Frame
    <3> QED
      BY <3>1 DEF FrameOK
  <2>3. \A i \in 1 .. n - 1 : frames'[i] \in Frame
    BY <1>1, ElementOfSeq DEF IInv, TypeOK, n
  <2>4. ASSUME NEW i \in 1 .. n - 1 PROVE FrameOK(frames[i])'
    <3>1. PICK f \in Frame : f = frames'[i]
      BY <2>3
    <3>2. FrameOK(f)'
      BY <2>2, <3>1
    <3> QED
      BY <3>1, <3>2 DEF FrameOK
  <2>5. (\A i \in DOMAIN frames : FrameOK(frames[i]))'
    BY <1>1, <2>4
  <2> QED
    BY <2>1, <2>5 DEF StackOK
<1>6. \A x \in Object : x # o /\ OnStack(x) => OnStack(x)'
  <2> SUFFICES ASSUME NEW x \in Object, x # o, NEW i \in 1 .. n, frames[i].obj = x
               PROVE  OnStack(x)'
    BY <1>1 DEF OnStack
  <2>1. i # 1
    OBVIOUS
  <2>2. i - 1 \in 1 .. n - 1 /\ (i - 1) + 1 = i
    BY <1>1, <2>1
  <2>3. i - 1 \in DOMAIN frames'
    BY <1>1, <2>2
  <2>4. frames'[i - 1] = frames[i]
    BY <1>1, <2>2
  <2>5. frames'[i - 1].obj = x
    BY <2>4
  <2> QED
    BY <2>3, <2>5 DEF OnStack
<1>7. \A c \in Cell : c \in Object /\ HomeOf(c) \in Object
  BY ConstantsAssumption DEF Object
<1>8. \A c \in Cell : IsLive(c) /\ c # o => HomeOf(c) # o
  <2> SUFFICES ASSUME NEW c \in Cell, IsLive(c), c # o, HomeOf(c) = o PROVE FALSE
    OBVIOUS
  <2>1. ~InOwnerSlot(c, slot) /\ c \notin Heap /\ c \notin InPlace /\ o \in Heap
    BY <1>2, <1>7, ConstantsAssumption DEF InOwnerSlot, HomeOf, SlotsOf, Object
  <2>2. PICK i \in DOMAIN frames : frames[i].obj = c
    BY <1>7, <2>1 DEF IInv, NoForgottenObject, Referenced
  <2>3. \E j \in DOMAIN frames : j > i /\ frames[j].obj = o
    BY <1>2, <2>1, <2>2 DEF IInv, CellsOK, Hosted
  <2> QED
    BY <1>1, <1>3, <2>2, <2>3
<1>9. CountsOK'
  <2>1. \A x \in Object : Refs(x)' = Refs(x)
    BY DEF Refs
  <2>2. \A x \in Heap : x \in Object
    BY DEF Object
  <2>3. RefcountExact'
    BY <2>1, <2>2 DEF IInv, CountsOK, RefcountExact
  <2>4. \A x \in Object : held'[x] > 0 => IsLive(x)' /\ x \in Heap \ InPlace
    BY <1>2 DEF IInv, CountsOK
  <2>5. \A s \in Slot : slot[s] # Nil =>
          /\ slot[s] \in Object /\ slot[s] # o /\ IsLive(slot[s])
          /\ SlotOwner[s] \in Object /\ SlotOwner[s] # o /\ IsLive(SlotOwner[s])
    BY <1>2, ConstantsAssumption DEF IInv, TypeOK, CountsOK, SlotsOf
  <2>6. \A s \in Slot : slot[s] # Nil =>
          state'[slot[s]] = "live" /\ state'[SlotOwner[s]] = "live"
    BY <2>5 DEF IsLive
  <2> QED
    BY <2>3, <2>4, <2>6 DEF IInv, CountsOK, IsLive
<1>10. NoForgottenObject'
  <2>1. ASSUME NEW x \in Object \ InPlace, IsLive(x)' PROVE Referenced(x)' \/ OnStack(x)'
    <3>1. x # o /\ IsLive(x)
      BY <2>1
    <3>2. Referenced(x) \/ OnStack(x)
      BY <3>1 DEF IInv, NoForgottenObject, OnStack
    <3>3. InOwnerSlot(x, slot) => InOwnerSlot(x, slot)'
      BY <3>1 DEF InOwnerSlot
    <3> QED
      BY <1>6, <2>1, <3>1, <3>2, <3>3 DEF Referenced
  <2> QED
    BY <2>1 DEF NoForgottenObject, OnStack
<1>11. CellsOK'
  <2>1. ASSUME NEW i \in 1 .. n - 1 PROVE Hosted(i)'
    <3> SUFFICES ASSUME frames[i + 1].obj \in Cell,
                        ~(held[HomeOf(frames[i + 1].obj)] > 0),
                        HomeOf(frames[i + 1].obj) \notin InPlace
                 PROVE  \E j \in 1 .. n - 1 :
                          j > i /\ frames'[j].obj = HomeOf(frames[i + 1].obj)
      BY <1>1 DEF Hosted, HomeOf
    <3>1. PICK j \in 1 .. n : j > i + 1 /\ frames[j].obj = HomeOf(frames[i + 1].obj)
      BY <1>1 DEF IInv, CellsOK, Hosted
    <3>2. j - 1 \in 1 .. n - 1 /\ (j - 1) + 1 = j /\ j - 1 > i
      BY <1>1, <3>1
    <3> QED
      BY <1>1, <3>1, <3>2
  <2>2. ASSUME NEW c \in Cell
        PROVE  /\ IsLive(c)' => parent'[c] = HomeOf(c) /\ IsLive(HomeOf(c))'
               /\ slot'[OwnerSlot[c]] = c => rc'[c] = 1
    BY <1>7, <1>8 DEF IInv, CellsOK
  <2> QED
    BY <1>1, <2>1, <2>2 DEF CellsOK
<1>12. CacheOK'
  BY DEF CacheOK
<1> QED
  BY <1>5, <1>9, <1>10, <1>11, <1>12 DEF IInv

\* Which objects sf_object_dispose takes for members of a group, and the
\* counter it uses.
LEMMA GroupOf ==
  ASSUME IInv, NEW o \in Object, IsLive(o)
  PROVE  /\ Grouped(o) <=> group[o] # Nil
         /\ group[o] # Nil => group[RootOf(o)] = group[o] /\ group[o] \in Heap
<1>1. CASE group[o] = Nil
  BY <1>1 DEF Grouped, RootOf
<1>2. CASE group[o] # Nil
  BY <1>2 DEF Grouped, RootOf, IInv, GroupsOK
<1> QED
  BY <1>1, <1>2

LEMMA DisposeAloneOK ==
  ASSUME IInv, TypeOK', NEW o \in Object, IsLive(o), group[o] = Nil, DisposeAlone(o)
  PROVE  /\ GroupsOK'
         /\ \A x \in Object : x # o => state'[x] = state[x] /\ parent'[x] = parent[x]
         /\ state'[o] = IF o \in Heap THEN "freed" ELSE "disposed"
         /\ group' = group
<1> USE DEF DisposeAlone
<1>1. /\ \A x \in Object : x # o => state'[x] = state[x] /\ parent'[x] = parent[x]
      /\ state'[o] = IF o \in Heap THEN "freed" ELSE "disposed"
      /\ parent'[o] = Nil /\ group' = group
  BY DEF IInv, TypeOK
<1>2. \A x \in Object : group[x] # Nil =>
        x # o /\ x \in Heap /\ HasMemory(x)' /\ group[x] \in Group
  BY <1>1 DEF IInv, TypeOK, GroupsOK, HasMemory
<1>3. \A g \in Group : LiveMembers(g)' = LiveMembers(g)
  <2> TAKE g \in Group
  <2>1. group[o] # g
    BY ConstantsAssumption DEF Group
  <2> QED
    BY <1>1, <2>1 DEF LiveMembers, Members, IsLive
<1>4. \A x \in Object : group[x] # Nil =>
        /\ group[x] \in Heap /\ group[group[x]] = group[x] /\ LiveMembers(group[x])' # {}
  BY <1>1, <1>2, <1>3 DEF IInv, GroupsOK
<1>5. \A x \in Heap : state'[x] = "disposed" => group[x] # Nil
  BY <1>1 DEF IInv, GroupsOK, Object
<1>6. \A x \in Heap : parent'[x] # Nil =>
        parent'[x] \in Heap /\ group[x] # Nil /\ group[parent'[x]] = group[x]
  BY <1>1 DEF IInv, GroupsOK, Object
<1>7. LiveCountExact'
  BY <1>3 DEF IInv, GroupsOK, LiveCountExact
<1> QED
  BY <1>1, <1>2, <1>4, <1>5, <1>6, <1>7 DEF GroupsOK

\* What the disposal of a member does: with the last one the group goes.
LeavesGroup(o, g) ==
  /\ liveCount' = [liveCount EXCEPT ![g] = liveCount[g] - 1]
  /\ \A x \in Object :
       /\ state'[x] = IF liveCount[g] = 1 /\ group[x] = g /\ x \in Heap THEN "freed"
                      ELSE IF x = o THEN "disposed" ELSE state[x]
       /\ parent'[x] = IF liveCount[g] = 1 /\ group[x] = g THEN Nil ELSE parent[x]
       /\ group'[x] = IF liveCount[g] = 1 /\ group[x] = g THEN Nil ELSE group[x]

LEMMA MemberDisposed ==
  ASSUME IInv, NEW o \in Object, IsLive(o), NEW g \in Heap, group[o] = g,
         DisposeMember(o, g)
  PROVE  /\ o \in Heap /\ g \in Group /\ g # Nil /\ g \in Object
         /\ \A x \in Heap : x \in Object /\ x # Nil
         /\ Cardinality(LiveMembers(g) \ {o}) = liveCount[g] - 1
         /\ (liveCount[g] = 1 <=> LiveMembers(g) \ {o} = {})
         /\ LeavesGroup(o, g)
<1> USE DEF DisposeMember, LiveCountSet
<1> DEFINE last == liveCount[g] = 1
<1>1. /\ o \in Heap /\ g \in Group /\ g # Nil /\ g \in Object
      /\ \A x \in Heap : x \in Object /\ x # Nil
  BY ConstantsAssumption DEF Group, Object, IInv, GroupsOK
<1>2. /\ IsFiniteSet(LiveMembers(g)) /\ o \in LiveMembers(g) /\ LiveMembers(g) \subseteq Object
      /\ liveCount[g] = Cardinality(LiveMembers(g)) /\ liveCount[g] \in Nat \ {0}
  <2>1. IsFiniteSet(Object)
    BY ConstantsAssumption, FS_Union DEF Object
  <2>2. IsFiniteSet(LiveMembers(g)) /\ LiveMembers(g) \subseteq Object
    BY <2>1, FS_Subset DEF LiveMembers, Members
  <2>3. o \in LiveMembers(g)
    BY DEF LiveMembers, Members
  <2>4. liveCount[g] = Cardinality(LiveMembers(g))
    BY <1>1 DEF IInv, GroupsOK, LiveCountExact
  <2> QED
    BY <2>2, <2>3, <2>4, FS_CardinalityType, FS_EmptySet
<1>3. Cardinality(LiveMembers(g) \ {o}) = liveCount[g] - 1 /\ IsFiniteSet(LiveMembers(g) \ {o})
  BY <1>2, FS_RemoveElement
<1>4. last <=> LiveMembers(g) \ {o} = {}
  BY <1>2, <1>3, FS_EmptySet
<1>5. /\ liveCount' = [liveCount EXCEPT ![g] = liveCount[g] - 1]
      /\ \A x \in Object :
           /\ state'[x] = IF last /\ group[x] = g /\ x \in Heap THEN "freed"
                          ELSE IF x = o THEN "disposed" ELSE state[x]
           /\ parent'[x] = IF last /\ group[x] = g THEN Nil ELSE parent[x]
           /\ group'[x] = IF last /\ group[x] = g THEN Nil ELSE group[x]
  <2>1. PICK left : left = IF liveCount[g] > 0 THEN liveCount[g] - 1 ELSE 0
    OBVIOUS
  <2>2. left = liveCount[g] - 1 /\ (left = 0 <=> last)
    BY <1>2, <2>1
  <2>3. PICK freed : freed = IF last THEN Members(g) ELSE {}
    OBVIOUS
  <2>4. /\ liveCount' = [liveCount EXCEPT ![g] = left]
        /\ state' = [m \in Object |-> IF m \in freed \cap Heap THEN "freed"
                                      ELSE IF m = o THEN "disposed" ELSE state[m]]
        /\ parent' = [m \in Object |-> IF m \in freed THEN Nil ELSE parent[m]]
        /\ group' = [m \in Object |-> IF m \in freed THEN Nil ELSE group[m]]
    BY <2>1, <2>2, <2>3
  <2>5. \A x \in Object : x \in freed <=> last /\ group[x] = g
    BY <2>3 DEF Members
  <2>6. liveCount' = [liveCount EXCEPT ![g] = liveCount[g] - 1]
    BY <2>2, <2>4
  <2> HIDE DEF last
  <2>7. ASSUME NEW x \in Object
        PROVE  /\ state'[x] = IF last /\ group[x] = g /\ x \in Heap THEN "freed"
                              ELSE IF x = o THEN "disposed" ELSE state[x]
               /\ parent'[x] = IF last /\ group[x] = g THEN Nil ELSE parent[x]
               /\ group'[x] = IF last /\ group[x] = g THEN Nil ELSE group[x]
    <3>1. /\ state'[x] = IF x \in freed \cap Heap THEN "freed"
                          ELSE IF x = o THEN "disposed" ELSE state[x]
          /\ parent'[x] = IF x \in freed THEN Nil ELSE parent[x]
          /\ group'[x] = IF x \in freed THEN Nil ELSE group[x]
      BY <2>4
    <3>2. x \in freed <=> last /\ group[x] = g
      BY <2>5
    <3> QED
      BY <3>1, <3>2
  <2> QED
    BY <2>6, <2>7
<1> QED
  BY <1>1, <1>3, <1>4, <1>5 DEF LeavesGroup

\* A member of a group is disposed: the last one takes the whole group along.
LEMMA DisposeMemberOK ==
  ASSUME IInv, TypeOK', NEW o \in Object, IsLive(o), NEW g \in Heap, group[o] = g,
         DisposeMember(o, g)
  PROVE  /\ GroupsOK' /\ ~IsLive(o)'
         /\ \A x \in Object : x # o => (IsLive(x)' <=> IsLive(x))
         /\ \A x \in Object : x # o /\ group[x] = Nil =>
              state'[x] = state[x] /\ parent'[x] = parent[x] /\ group'[x] = Nil
         /\ o \in Heap
<1> DEFINE last == liveCount[g] = 1
<1>1. /\ o \in Heap /\ g \in Group /\ g # Nil /\ g \in Object
      /\ \A x \in Heap : x \in Object /\ x # Nil
  BY MemberDisposed
<1>3. Cardinality(LiveMembers(g) \ {o}) = liveCount[g] - 1
  BY MemberDisposed
<1>4. last <=> LiveMembers(g) \ {o} = {}
  BY MemberDisposed
<1>5. /\ liveCount' = [liveCount EXCEPT ![g] = liveCount[g] - 1]
      /\ \A x \in Object :
           /\ state'[x] = IF last /\ group[x] = g /\ x \in Heap THEN "freed"
                          ELSE IF x = o THEN "disposed" ELSE state[x]
           /\ parent'[x] = IF last /\ group[x] = g THEN Nil ELSE parent[x]
           /\ group'[x] = IF last /\ group[x] = g THEN Nil ELSE group[x]
  <2>1. LeavesGroup(o, g)
    BY MemberDisposed
  <2> QED
    BY <2>1, Zenon DEF LeavesGroup
<1> HIDE DEF last
<1>6. ~IsLive(o)'
  BY <1>5 DEF IsLive
<1>7. \A x \in Object : x # o => (IsLive(x)' <=> IsLive(x))
  <2> TAKE x \in Object
  <2> HAVE x # o
  <2>1. CASE last /\ group[x] = g
    <3>1. ~IsLive(x) /\ x \in Heap
      BY <1>1, <1>4, <2>1 DEF LiveMembers, Members, IInv, GroupsOK
    <3> QED
      BY <1>5, <2>1, <3>1 DEF IsLive
  <2>2. CASE ~(last /\ group[x] = g)
    BY <1>5, <2>2 DEF IsLive
  <2> QED
    BY <2>1, <2>2
<1>8. \A h \in Group : h # g => LiveMembers(h)' = LiveMembers(h)
  <2> TAKE h \in Group
  <2> HAVE h # g
  <2>1. \A x \in Object : group'[x] = h <=> group[x] = h
    BY <1>5, ConstantsAssumption DEF Group
  <2>2. \A x \in Object : group[x] = h => x # o
    OBVIOUS
  <2> QED
    BY <1>7, <2>1, <2>2 DEF LiveMembers, Members
<1>9. LiveMembers(g)' = LiveMembers(g) \ {o}
  <2>1. CASE last
    <3>1. \A x \in Object : group'[x] # g
      BY <1>1, <1>5, <2>1
    <3> QED
      BY <1>4, <2>1, <3>1 DEF LiveMembers, Members
  <2>2. CASE ~last
    <3>1. \A x \in Object : group'[x] = group[x]
      BY <1>5, <2>2
    <3> QED
      BY <1>6, <1>7, <3>1 DEF LiveMembers, Members
  <2> QED
    BY <2>1, <2>2
<1>10. \A x \in Object : group'[x] # Nil =>
         /\ group'[x] = group[x] /\ x \in Heap /\ HasMemory(x)'
         /\ group[x] \in Heap /\ group'[group[x]] = group[x]
         /\ \A h : h = group[x] => LiveMembers(h)' # {}
  <2> TAKE x \in Object
  <2> HAVE group'[x] # Nil
  <2>1. group'[x] = group[x] /\ ~(last /\ group[x] = g)
    BY <1>5
  <2>2. /\ x \in Heap /\ HasMemory(x) /\ group[x] \in Heap
        /\ group[group[x]] = group[x] /\ LiveMembers(group[x]) # {}
    BY <2>1 DEF IInv, GroupsOK
  <2>3. HasMemory(x)'
    BY <1>5, <2>1, <2>2 DEF HasMemory
  <2>4. group'[group[x]] = group[x]
    BY <1>1, <1>5, <2>1, <2>2
  <2>5. \A h : h = group[x] => LiveMembers(h)' # {}
    BY <1>4, <1>8, <1>9, <2>1, <2>2 DEF Group
  <2> QED
    BY <2>1, <2>2, <2>3, <2>4, <2>5
<1>11. \A x \in Heap : state'[x] = "disposed" => group'[x] # Nil
  BY <1>1, <1>5 DEF IInv, GroupsOK
<1>12. \A x \in Heap : parent'[x] # Nil =>
         parent'[x] \in Heap /\ group'[x] # Nil /\ group'[parent'[x]] = group'[x]
  <2> TAKE x \in Heap
  <2> HAVE parent'[x] # Nil
  <2>1. parent'[x] = parent[x] /\ ~(last /\ group[x] = g) /\ group'[x] = group[x]
    BY <1>1, <1>5
  <2>2. parent[x] \in Heap /\ group[x] # Nil /\ group[parent[x]] = group[x]
    BY <2>1 DEF IInv, GroupsOK
  <2> QED
    BY <1>1, <1>5, <2>1, <2>2
<1>13. LiveCountExact'
  <2>1. \A h \in Group : liveCount'[h] = Cardinality(LiveMembers(h)')
    <3> TAKE h \in Group
    <3>1. CASE h = g
      BY <1>1, <1>3, <1>5, <1>9, <3>1 DEF IInv, TypeOK
    <3>2. CASE h # g
      BY <1>5, <1>8, <3>2 DEF IInv, TypeOK, GroupsOK, LiveCountExact
    <3> QED
      BY <3>1, <3>2
  <2> QED
    BY <2>1 DEF LiveCountExact
<1>14. \A x \in Object : x # o /\ group[x] = Nil =>
         state'[x] = state[x] /\ parent'[x] = parent[x] /\ group'[x] = Nil
  BY <1>1, <1>5
<1> QED
  BY <1>1, <1>6, <1>7, <1>10, <1>11, <1>12, <1>13, <1>14 DEF GroupsOK

LEMMA DisposeStep == IInv /\ Dispose => IInv'
<1> SUFFICES ASSUME IInv, Dispose PROVE IInv'
  OBVIOUS
<1>1. TypeOK'
  BY TypeStep DEF IInv, Next, Runtime
<1>2. /\ frames # <<>> /\ Head(frames) = frames[1] /\ 1 \in DOMAIN frames
      /\ frames[1] \in Frame /\ frames[1].todo = {} /\ frames' = Tail(frames)
  BY TopOfStack DEF IInv, TypeOK, Dispose
<1> PICK o \in Object : o = frames[1].obj
  BY <1>2 DEF Frame
<1>3. IsLive(o) /\ o \notin InPlace /\ OnStack(o)
  BY <1>2 DEF IInv, StackOK, FrameOK, OnStack
<1>4. /\ cache' = Nil /\ UNCHANGED <<rc, held>> /\ slot' = SlotsAfterDispose(o)
      /\ IF Grouped(o) THEN DisposeMember(o, group[RootOf(o)]) ELSE DisposeAlone(o)
  BY <1>2, <1>3 DEF Dispose, DisposeObject
<1>5. slot' = slot
  <2>1. \A s \in Slot : slot[s] # o
    BY <1>3, Unreferenced
  <2>2. o \in Cell => OwnerSlot[o] \in Slot
    BY ConstantsAssumption
  <2> QED
    BY <1>4, <2>1, <2>2 DEF SlotsAfterDispose, InOwnerSlot
<1>6. \A c \in Cell : /\ c \in Object /\ c \notin Heap /\ c \notin InPlace
                      /\ state[c] \in {"live", "disposed"} /\ group[c] = Nil
  BY ConstantsAssumption DEF IInv, CellsOK, Object
<1>7. \A x \in InPlace : x \in Object /\ x # o /\ state[x] # "disposed"
  BY <1>3, ConstantsAssumption DEF IInv, CountsOK, Object
<1>8. CASE group[o] = Nil
  <2>1. DisposeAlone(o)
    BY <1>3, <1>4, <1>8, GroupOf
  <2>2. /\ GroupsOK'
        /\ \A x \in Object : x # o => state'[x] = state[x] /\ parent'[x] = parent[x]
        /\ state'[o] = IF o \in Heap THEN "freed" ELSE "disposed"
        /\ group' = group
    BY <1>1, <1>3, <1>8, <2>1, DisposeAloneOK
  <2>3. LeftBy(o)
    BY <1>2, <1>4, <1>5, <1>6, <1>7, <2>2 DEF LeftBy, IsLive
  <2> QED
    BY <1>1, <2>2, <2>3, Left
<1>9. CASE group[o] # Nil
  <2>1. PICK g \in Heap : g = group[o] /\ DisposeMember(o, g)
    BY <1>3, <1>4, <1>9, GroupOf
  <2>2. /\ GroupsOK' /\ ~IsLive(o)'
        /\ \A x \in Object : x # o => (IsLive(x)' <=> IsLive(x))
        /\ \A x \in Object : x # o /\ group[x] = Nil =>
             state'[x] = state[x] /\ parent'[x] = parent[x] /\ group'[x] = Nil
        /\ o \in Heap
    BY <1>1, <1>3, <2>1, DisposeMemberOK
  <2>3. \A c \in Cell : c # o
    BY <1>6, <2>2
  <2>4. \A x \in InPlace : state'[x] = state[x]
    <3> TAKE x \in InPlace
    <3>1. CASE IsLive(x)
      BY <1>7, <2>2, <3>1 DEF IsLive
    <3>2. CASE ~IsLive(x)
      <4>1. state[x] = "absent" /\ x \in Heap
        BY <3>2, ConstantsAssumption DEF IInv, CountsOK, IsLive
      <4> QED
        BY <1>7, <2>2, <4>1, Fresh
    <3> QED
      BY <3>1, <3>2
  <2>5. LeftBy(o)
    BY <1>2, <1>4, <1>5, <1>6, <2>2, <2>3, <2>4 DEF LeftBy
  <2> QED
    BY <1>1, <2>2, <2>5, Left
<1> QED
  BY <1>8, <1>9
-----------------------------------------------------------------------------
(* The invariant and what follows from it *)

LEMMA InitOK == Init => IInv
<1> SUFFICES ASSUME Init PROVE IInv
  OBVIOUS
<1> USE DEF Init
<1>1. TypeOK
  BY DEF TypeOK, Object
<1>2. /\ \A o \in Object : group[o] = Nil /\ parent[o] = Nil /\ ~(held[o] > 0)
      /\ \A o \in Heap : state[o] = "absent"
      /\ \A c \in Cell : state[c] = "disposed"
      /\ \A o \in Object : ~IsLive(o)
      /\ \A s \in Slot : slot[s] = Nil
      /\ DOMAIN frames = {} /\ cache = Nil
  BY ConstantsAssumption DEF Object, IsLive
<1>3. Nil \notin Object /\ Heap \subseteq Object /\ Cell \subseteq Object /\ Nil \notin Group
  BY ConstantsAssumption DEF Object, Group
<1>4. StackOK
  BY <1>2 DEF StackOK, DeallocNotReentered
<1>5. CountsOK
  BY <1>2, <1>3, ConstantsAssumption DEF CountsOK, RefcountExact
<1>6. NoForgottenObject
  BY <1>2 DEF NoForgottenObject
<1>7. CellsOK
  BY <1>2, <1>3, ConstantsAssumption DEF CellsOK
<1>8. GroupsOK
  <2>1. \A g \in Group : LiveMembers(g) = {} /\ liveCount[g] = 0
    BY <1>2 DEF LiveMembers, Members
  <2>2. LiveCountExact
    BY <2>1, FS_EmptySet DEF LiveCountExact
  <2> QED
    BY <1>2, <1>3, <2>2 DEF GroupsOK
<1> QED
  BY <1>1, <1>2, <1>4, <1>5, <1>6, <1>7, <1>8 DEF IInv, CacheOK

LEMMA Inductive ==
  ASSUME Uses = {}, IInv, [Next]_vars
  PROVE  IInv'
<1>1. CASE UNCHANGED vars
  <2> USE <1>1 DEF vars, IInv, IsLive
  <2>1. TypeOK' /\ StackOK'
    BY DEF TypeOK, StackOK, DeallocNotReentered, FrameOK
  <2>2. CountsOK'
    BY DEF CountsOK, RefcountExact, Refs
  <2>3. NoForgottenObject'
    BY DEF NoForgottenObject, Referenced, InOwnerSlot
  <2>4. CellsOK'
    BY DEF CellsOK, Hosted
  <2>5. GroupsOK' /\ CacheOK'
    BY GroupsKept DEF Headers, CacheOK
  <2> QED
    BY <2>1, <2>2, <2>3, <2>4, <2>5
<1>2. CASE Program
  BY <1>2, AllocObjectStep, AllocValueStep, AllocChildStep, AllocChildFailsStep,
     RetainStep, ReleaseStep, StoreStrongStep
  DEF Program
<1>3. CASE DeallocReturns
  BY <1>3, DeallocReturnsStep
<1>4. CASE Runtime
  BY <1>4, ClearIvarStep, DisposeStep DEF Runtime
<1> QED
  BY <1>1, <1>2, <1>3, <1>4 DEF Next

LEMMA Invariance == ASSUME Uses = {} PROVE Spec => []IInv
BY InitOK, Inductive, PTL DEF Spec

\* objc_retain, objc_release, objc_storeStrong, the allocation functions and the
\* clearing of ivars keep hdr->refcount of every live heap object equal to the
\* number of references to it that exist.
THEOREM RefcountCorrect == ASSUME Uses = {} PROVE Spec => []RefcountExact
<1>1. IInv => RefcountExact
  BY DEF IInv, CountsOK
<1> QED
  BY <1>1, Invariance, PTL

\* No live object is lost: one that nothing refers to is being deallocated by
\* release_object_nontrivial.
THEOREM NothingForgotten == ASSUME Uses = {} PROVE Spec => []NoForgottenObject
<1>1. IInv => NoForgottenObject
  BY DEF IInv
<1> QED
  BY <1>1, Invariance, PTL

\* release_object_nontrivial is not entered for an object whose dealloc it is
\* already running, whatever that dealloc releases or stores.
THEOREM DeallocOnce == ASSUME Uses = {} PROVE Spec => []DeallocNotReentered
<1>1. IInv => DeallocNotReentered
  BY DEF IInv, StackOK
<1> QED
  BY <1>1, Invariance, PTL

\* A live object has its memory, that of its parent and that of its group root.
LEMMA LiveHasMemory ==
  ASSUME IInv, NEW o \in Object, IsLive(o)
  PROVE  /\ HasMemory(o) /\ HasMemory(RootOf(o))
         /\ parent[o] # Nil => HasMemory(parent[o])
<1>1. \A x \in Heap : x \in Object /\ x \notin Cell
  BY ConstantsAssumption DEF Object
<1>2. CASE o \in Heap
  <2>1. HasMemory(o)
    BY <1>2 DEF HasMemory, IsLive
  <2>2. HasMemory(RootOf(o))
    BY <1>1, <1>2, <2>1, ConstantsAssumption DEF RootOf, IInv, GroupsOK
  <2>3. parent[o] # Nil => HasMemory(parent[o])
    BY <1>1, <1>2 DEF IInv, GroupsOK
  <2> QED
    BY <2>1, <2>2, <2>3
<1>3. CASE o \in Cell
  <2>1. parent[o] = HomeOf(o) /\ HomeOf(o) \in Heap /\ IsLive(HomeOf(o)) /\ group[o] = Nil
        /\ o \notin Heap
    BY <1>1, <1>3, ConstantsAssumption DEF IInv, CellsOK
  <2> QED
    BY <2>1 DEF HasMemory, RootOf, IsLive
<1> QED
  BY <1>2, <1>3 DEF Object

\* objc_storeStrong, the clearing of ivars and sf_object_dispose leave no ivar
\* and no reference of the program to an object that is disposed or freed.
THEOREM ReferencesValid == ASSUME Uses = {} PROVE Spec => []NoDanglingReference
<1>1. IInv => NoDanglingReference
  <2> SUFFICES ASSUME IInv PROVE NoDanglingReference
    OBVIOUS
  <2>1. \A s \in Slot : slot[s] # Nil =>
          slot[s] \in Object /\ IsLive(slot[s]) /\ HasMemory(slot[s])
    BY LiveHasMemory DEF IInv, TypeOK, CountsOK
  <2> QED
    BY <2>1 DEF NoDanglingReference, IInv, CountsOK
<1> QED
  BY <1>1, Invariance, PTL

\* The headers the runtime follows pointers to (the objects being deallocated,
\* hdr->parent and the group root of a live object) are in memory not yet freed.
THEOREM RuntimePointersValid == ASSUME Uses = {} PROVE Spec => []PointersValid
<1>1. IInv => PointersValid
  <2> SUFFICES ASSUME IInv PROVE PointersValid
    OBVIOUS
  <2>1. \A i \in DOMAIN frames : frames[i].obj \in Object /\ IsLive(frames[i].obj)
    <3>1. \A i \in DOMAIN frames : frames[i] \in Frame
      BY ElementOfSeq, LenProperties DEF IInv, TypeOK
    <3> QED
      BY <3>1 DEF IInv, StackOK, FrameOK, Frame
  <2> QED
    BY <2>1, LiveHasMemory DEF PointersValid
<1> QED
  BY <1>1, Invariance, PTL

\* sf_object_dispose and free_group_members keep the memory of a group exactly
\* as long as it has a live member.
THEOREM GroupMemoryCorrect == ASSUME Uses = {} PROVE Spec => []MemoryFreedWithGroup
<1>1. IInv => MemoryFreedWithGroup
  <2> SUFFICES ASSUME IInv, NEW o \in Heap
               PROVE  HasMemory(o) <=> IsLive(o) \/ (group[o] # Nil /\ LiveMembers(group[o]) # {})
    BY DEF MemoryFreedWithGroup
  <2>1. o \in Object
    BY DEF Object
  <2>2. IsLive(o) => HasMemory(o)
    BY DEF IsLive, HasMemory
  <2>3. group[o] # Nil => HasMemory(o) /\ LiveMembers(group[o]) # {}
    BY <2>1 DEF IInv, GroupsOK
  <2>4. HasMemory(o) => IsLive(o) \/ group[o] # Nil
    BY DEF HasMemory, IsLive, IInv, GroupsOK
  <2> QED
    BY <2>2, <2>3, <2>4
<1> QED
  BY <1>1, Invariance, PTL

\* The live count of a group, kept by sf_header_init_group_root, the allocation
\* of children and sf_object_dispose, is the number of its live members.
THEOREM LiveCountCorrect == ASSUME Uses = {} PROVE Spec => []LiveCountExact
<1>1. IInv => LiveCountExact
  BY DEF IInv, GroupsOK
<1> QED
  BY <1>1, Invariance, PTL

\* header_from_heap_candidate trusts g_last_header_obj without a look at the
\* header: it is always a live object, as sf_object_dispose resets it.
THEOREM CacheCorrect == ASSUME Uses = {} PROVE Spec => []CacheFresh
<1>1. IInv => CacheFresh
  BY LiveHasMemory DEF IInv, TypeOK, CacheOK, CacheFresh
<1> QED
  BY <1>1, Invariance, PTL

\* sf_object_dispose makes an object DISPOSED and its memory is freed once:
\* neither is undone, and no reference to it is handed out again.
THEOREM NothingResurrected == ASSUME Uses = {} PROVE Spec => NoResurrection
<1>1. ASSUME IInv, IInv', [Next]_vars, NEW o \in Heap, state[o] \in {"disposed", "freed"}
      PROVE  state'[o] \in {state[o], "freed"} /\ held'[o] = 0
  <2>1. o \in Object /\ o \notin Cell /\ ~IsLive(o) /\ state \in [Object -> {"absent", "live", "disposed", "freed"}]
    BY <1>1, ConstantsAssumption DEF Object, IsLive, IInv, TypeOK
  <2>2. ASSUME Program PROVE state'[o] = state[o]
    <3>1. ASSUME NEW x \in Heap, AllocObject(x) \/ AllocInPlace(x) PROVE state'[o] = state[o]
      BY <1>1, <2>1, <3>1 DEF AllocObject, AllocInPlace
    <3>2. ASSUME NEW c \in Cell, AllocValue(c) PROVE state'[o] = state[o]
      BY <2>1, <3>2 DEF AllocValue
    <3>3. ASSUME NEW p \in Object, NEW x \in Heap, AllocChild(x, p) PROVE state'[o] = state[o]
      BY <1>1, <2>1, <3>3 DEF AllocChild
    <3> QED
      BY <2>2, <3>1, <3>2, <3>3 DEF Program, AllocChildFails, Retain, Release, StoreStrong
  <2>3. ASSUME Dispose PROVE state'[o] \in {state[o], "freed"}
    <3>1. PICK top : top = Head(frames).obj /\ IsLive(top)
      BY <1>1, <2>3, TopOfStack DEF Dispose, IInv, TypeOK, StackOK, FrameOK
    <3>2. DisposeObject(top) /\ top # o
      BY <2>1, <2>3, <3>1 DEF Dispose
    <3> QED
      BY <1>1, <2>1, <3>2 DEF DisposeObject, DisposeMember, DisposeAlone
  <2>4. state'[o] \in {state[o], "freed"}
    BY <1>1, <2>2, <2>3 DEF Next, DeallocReturns, Runtime, ClearIvar, vars
  <2>5. ~(held'[o] > 0) /\ held'[o] \in Nat
    BY <1>1, <2>1, <2>4 DEF IInv, TypeOK, CountsOK, IsLive
  <2> QED
    BY <2>4, <2>5
<1>2. IInv /\ IInv' /\ [Next]_vars =>
        [\A o \in Heap : state[o] \in {"disposed", "freed"}
           => state'[o] \in {state[o], "freed"} /\ held'[o] = 0]_vars
  BY <1>1
<1> QED
  BY <1>2, Invariance, PTL DEF Spec, NoResurrection

\* sf_object_dispose is reached by an embedded object only when its slot has
\* been cleared, by objc_storeStrong or by its owner's clear_object_ivars: a
\* plain objc_release does not invalidate it.
THEOREM EmbeddedOutlivesReleases ==
  ASSUME Uses = {} PROVE Spec => EmbeddedOutlivesOtherReferences
<1>1. ASSUME IInv, IInv', [Next]_vars, NEW c \in Cell, IsLive(c), ~IsLive(c)'
      PROVE  ~InOwnerSlot(c, slot)
  <2>1. c \in Object /\ c \notin Heap /\ state[c] = "live" /\ state'[c] # "live"
        /\ state \in [Object -> {"absent", "live", "disposed", "freed"}]
    BY <1>1, ConstantsAssumption DEF Object, IsLive, IInv, TypeOK
  <2>2. Dispose
    <3>1. \A x \in Object : state' = [state EXCEPT ![x] = "live"] => state'[c] = "live"
      BY <2>1
    <3>2. ~Program
      BY <2>1, <3>1 DEF Program, AllocObject, AllocInPlace, AllocValue, AllocChild,
         AllocChildFails, Retain, Release, StoreStrong, Object
    <3> QED
      BY <1>1, <2>1, <3>2 DEF Next, DeallocReturns, Runtime, ClearIvar, vars
  <2>3. PICK o \in Object : /\ o = frames[1].obj /\ o = Head(frames).obj
                            /\ IsLive(o) /\ OnStack(o)
    <3>1. frames # <<>> /\ frames[1] \in Frame /\ Head(frames) = frames[1] /\ 1 \in DOMAIN frames
      BY <1>1, <2>2, TopOfStack DEF Dispose, IInv, TypeOK
    <3> QED
      BY <1>1, <3>1 DEF IInv, StackOK, FrameOK, OnStack, Frame
  <2>4. IF Grouped(o) THEN DisposeMember(o, group[RootOf(o)]) ELSE DisposeAlone(o)
    BY <2>2, <2>3 DEF Dispose, DisposeObject
  <2>5. c = o
    <3>1. CASE group[o] = Nil
      <4>1. DisposeAlone(o)
        BY <1>1, <2>3, <2>4, <3>1, GroupOf
      <4> QED
        BY <2>1, <4>1 DEF DisposeAlone
    <3>2. CASE group[o] # Nil
      <4>1. PICK g \in Heap : g = group[o] /\ DisposeMember(o, g)
        BY <1>1, <2>3, <2>4, <3>2, GroupOf
      <4> QED
        BY <2>1, <4>1 DEF DisposeMember
    <3> QED
      BY <3>1, <3>2
  <2>6. slot[OwnerSlot[c]] # c
    BY <1>1, <2>1, <2>3, <2>5, Unreferenced, ConstantsAssumption
  <2> QED
    BY <2>6 DEF InOwnerSlot
<1>2. IInv /\ IInv' /\ [Next]_vars =>
        [\A c \in Cell : IsLive(c) /\ ~IsLive(c)' => ~InOwnerSlot(c, slot)]_vars
  BY <1>1
<1> QED
  BY <1>2, Invariance, PTL DEF Spec, EmbeddedOutlivesOtherReferences
=============================================================================
