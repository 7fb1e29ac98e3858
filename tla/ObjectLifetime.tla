--------------------------- MODULE ObjectLifetime ---------------------------
(***************************************************************************)
(* The life of an object of the SmallFW runtime: allocation on its own, in *)
(* the group of a parent or inside a slot of its owner; retain, release    *)
(* and storeStrong; dealloc with the program's code running inside it;     *)
(* clearing of the strong ivars; disposal; release of the memory.          *)
(*                                                                         *)
(* The runtime is built without threads (SF_RUNTIME_THREADSAFE is 0), so   *)
(* what interleaves is re-entrancy: the release of a last reference runs   *)
(* the program's dealloc, which calls back into every operation below.     *)
(* frames is the C call stack of the dealloc in progress, innermost first. *)
(***************************************************************************)
EXTENDS Naturals, Sequences, FiniteSets

CONSTANTS
  Heap,        \* addresses of separately allocated objects, never reused
  Cell,        \* storage of embedded ValueObjects, inside an object of Heap
  Slot,        \* the strong ivars of all objects
  SlotOwner,   \* the object a strong ivar is part of
  OwnerSlot,   \* the strong ivar a cell belongs to
  InPlace,     \* heap addresses given to +allocInPlace:size: (IMMORTAL)
  Trivial,     \* objects whose class has SF_OBJ_CLASS_FLAG_TRIVIAL_RELEASE
  Zeroed,      \* cells whose storage is cleared when it is used again
  GroupState,  \* the SFGroupState blocks calloc can return
  Nil,
  Uses,        \* what the program does although the runtime cannot bear it
  MaxHeld      \* bound: references to one object the program's code holds

Object == Heap \cup Cell
Group == Heap \cup GroupState
HomeOf(c) == SlotOwner[OwnerSlot[c]]
SlotsOf(o) == {s \in Slot : SlotOwner[s] = o}

ASSUME ConstantsAssumption ==
  /\ IsFiniteSet(Heap) /\ IsFiniteSet(Cell) /\ IsFiniteSet(Slot)
  /\ Heap \cap Cell = {} /\ Heap \cap GroupState = {}
  /\ Nil \notin Heap \cup Cell \cup GroupState
  /\ SlotOwner \in [Slot -> Object]
  /\ OwnerSlot \in [Cell -> Slot]
  /\ \A c, d \in Cell : OwnerSlot[c] = OwnerSlot[d] => c = d
  /\ \A c \in Cell : HomeOf(c) \in Heap
  /\ InPlace \subseteq Heap /\ Trivial \subseteq Object /\ Zeroed \subseteq Cell
  /\ \A o \in Trivial : SlotsOf(o) = {}
  /\ Uses \subseteq {"child_of_embedded", "share_embedded"}
  /\ MaxHeld \in Nat \ {0}

VARIABLES
  state,      \* header state; "absent" and "freed" say there is no memory
  rc,         \* hdr->refcount
  slot,       \* contents of the strong ivars
  parent,     \* hdr->parent
  group,      \* hdr->group: the heap root itself (inline) or a SFGroupState
  extRoot,    \* SFGroupState->root, Nil while the block is not allocated
  liveCount,  \* live members of a group
  held,       \* references the program's code owns
  frames,     \* dealloc calls in progress, innermost first
  cache       \* g_last_header_obj

vars == <<state, rc, slot, parent, group, extRoot, liveCount, held, frames,
          cache>>
-----------------------------------------------------------------------------
Frame == [obj : Object, phase : {"dealloc", "ivars"}, todo : SUBSET Slot]

TypeOK ==
  /\ state \in [Object -> {"absent", "live", "disposed", "freed"}]
  /\ rc \in [Object -> Nat]
  /\ slot \in [Slot -> Object \cup {Nil}]
  /\ parent \in [Object -> Object \cup {Nil}]
  /\ group \in [Object -> Group \cup {Nil}]
  /\ extRoot \in [GroupState -> Cell \cup {Nil}]
  /\ liveCount \in [Group -> Nat]
  /\ held \in [Object -> Nat]
  /\ frames \in Seq(Frame)
  /\ cache \in Object \cup {Nil}

\* Cells start as zeroed storage: the value 0 of the state is DISPOSED.
Init ==
  /\ state = [o \in Object |-> IF o \in Heap THEN "absent" ELSE "disposed"]
  /\ rc = [o \in Object |-> 0]
  /\ slot = [s \in Slot |-> Nil]
  /\ parent = [o \in Object |-> Nil]
  /\ group = [o \in Object |-> Nil]
  /\ extRoot = [e \in GroupState |-> Nil]
  /\ liveCount = [g \in Group |-> 0]
  /\ held = [o \in Object |-> 0]
  /\ frames = <<>>
  /\ cache = Nil
-----------------------------------------------------------------------------
(* Headers *)

IsLive(o) == state[o] = "live"
HasMemory(o) ==
  state[IF o \in Heap THEN o ELSE HomeOf(o)] \in {"live", "disposed"}

\* header_from_heap_candidate: the cached header, or one sf_header_from_object
\* accepts, which it does for LIVE headers only.
HasHeader(o) == o # Nil /\ (cache = o \/ IsLive(o))
CacheAfter(o) == IF HasHeader(o) THEN o ELSE cache

InOwnerSlot(o, slots) ==
  o \in Cell /\ parent[o] # Nil /\ slots[OwnerSlot[o]] = o

\* Slips the runs must notice are kept next to the definitions they alter.
CountedInOwnerSlot(o, slots) == IsLive(o) /\ o \notin InPlace
CountedWhenDisposed(o, slots) ==
  HasMemory(o) /\ o \notin InPlace /\ ~InOwnerSlot(o, slots)

\* retain and release change the count of these objects only.
Counted(o, slots) ==
  IsLive(o) /\ o \notin InPlace /\ ~InOwnerSlot(o, slots)

\* group_root: the object itself while it is in no group
RootOf(o) == IF group[o] = Nil THEN o
             ELSE IF group[o] \in Heap THEN group[o]
             ELSE IF extRoot[group[o]] # Nil THEN extRoot[group[o]]
             ELSE o
GroupedThroughParent(o) == parent[o] # Nil /\ group[o] # Nil
Grouped(o) == group[o] # Nil /\ group[RootOf(o)] # Nil
Members(g) == {o \in Object : group[o] = g}
-----------------------------------------------------------------------------
(* The program: its code runs at the top level and inside a dealloc. *)

Running == frames # <<>> => Head(frames).phase = "dealloc"
IsSelf(o) == frames # <<>> /\ Head(frames).phase = "dealloc"
                           /\ Head(frames).obj = o

\* Objects the program can reach. One whose last reference is gone is used by
\* its own dealloc only, which does not retain or store it.
Referenced(o) ==
  IsLive(o) /\ (o \in InPlace \/ (o \in Heap /\ rc[o] > 0) \/ InOwnerSlot(o, slot))
CanUse(o) == Referenced(o) \/ IsSelf(o)

\* Embedded objects of o whose dealloc is in progress: the program keeps the
\* reference through which it reached o until that call returns.
Detaching(o) ==
  \E i \in DOMAIN frames : frames[i].obj \in Cell /\ HomeOf(frames[i].obj) = o
Pinned(o) == held[o] > 0 \/ IsSelf(o) \/ o \in InPlace
MayDrop(o) ==
  held[o] > IF Detaching(o) THEN 1 ELSE 0
-----------------------------------------------------------------------------
(* Allocation *)

\* sf_alloc_object. The only failure leaves everything as it was.
AllocObject(o) ==
  /\ Running
  /\ o \in Heap \ InPlace /\ state[o] = "absent"
  /\ state' = [state EXCEPT ![o] = "live"]
  /\ rc' = [rc EXCEPT ![o] = 1]
  /\ held' = [held EXCEPT ![o] = 1]
  /\ UNCHANGED <<slot, parent, group, extRoot, liveCount, frames, cache>>

\* +allocInPlace:size: in storage of the caller that outlives the object
AllocInPlace(o) ==
  /\ Running
  /\ o \in InPlace /\ state[o] = "absent"
  /\ state' = [state EXCEPT ![o] = "live"]
  /\ rc' = [rc EXCEPT ![o] = 1]
  /\ UNCHANGED <<slot, parent, group, extRoot, liveCount, held, frames, cache>>

\* sf_alloc_embedded_value_object. The header of storage used before keeps its
\* group pointer unless the storage is cleared.
AllocValue(c) ==
  LET p == HomeOf(c) IN
  /\ Running
  /\ CanUse(p)
  /\ slot[OwnerSlot[c]] = Nil
  /\ ~IsLive(c)
  /\ state' = [state EXCEPT ![c] = "live"]
  /\ rc' = [rc EXCEPT ![c] = 1]
  /\ parent' = [parent EXCEPT ![c] = p]
  /\ group' = IF c \in Zeroed THEN [group EXCEPT ![c] = Nil] ELSE group
  /\ slot' = [slot EXCEPT ![OwnerSlot[c]] = c]
  /\ UNCHANGED <<extRoot, liveCount, held, frames, cache>>

\* sf_header_init_group_root: the groups r can be the root of afterwards. None
\* when r is embedded and calloc fails.
GroupsFor(r) ==
  IF group[r] # Nil THEN {group[r]}
  ELSE IF r \in Heap THEN {r}
  ELSE {e \in GroupState : extRoot[e] = Nil}

RootsWith(r, g) ==
  IF group[r] = Nil /\ g \in GroupState THEN [extRoot EXCEPT ![g] = r] ELSE extRoot
CountWithoutRoot(r, g) == liveCount[g]
CountWith(r, g) == IF group[r] = Nil THEN 1 ELSE liveCount[g]
\* sf_header_group_dead, which is so once the count has been set to zero
GroupDead(r, g) == CountWith(r, g) = 0
\* sf_header_set_group_live_count
LiveCountSet(g, n) == [liveCount EXCEPT ![g] = n]
\* sf_header_set_group_root makes a group of r, if it is none, and o joins it.
JoinedGroup(o, r, g) == [group EXCEPT ![r] = g, ![o] = g]

\* sf_alloc_heap_child_object
AllocChild(o, p) ==
  LET r == RootOf(p) IN
  /\ Running
  /\ o \in Heap \ InPlace /\ state[o] = "absent"
  /\ CanUse(p)
  /\ p \in Cell => "child_of_embedded" \in Uses
  /\ \E g \in GroupsFor(r) :
       /\ extRoot' = RootsWith(r, g)
       /\ ~GroupDead(r, g)
       /\ group' = JoinedGroup(o, r, g)
       /\ liveCount' = LiveCountSet(g, CountWith(r, g) + 1)
  /\ state' = [state EXCEPT ![o] = "live"]
  /\ rc' = [rc EXCEPT ![o] = 1]
  /\ parent' = [parent EXCEPT ![o] = p]
  /\ held' = [held EXCEPT ![o] = 1]
  /\ UNCHANGED <<slot, frames, cache>>

\* The same when the allocator returns NULL: the root has become a group.
AllocChildFails(p) ==
  LET r == RootOf(p) IN
  /\ Running
  /\ CanUse(p)
  /\ p \in Cell => "child_of_embedded" \in Uses
  /\ \E g \in GroupsFor(r) :
       /\ extRoot' = RootsWith(r, g)
       /\ group' = [group EXCEPT ![r] = g]
       /\ liveCount' = LiveCountSet(g, CountWith(r, g))
  /\ UNCHANGED <<state, rc, slot, parent, held, frames, cache>>
-----------------------------------------------------------------------------
(* Retain, release, storeStrong *)

NoIncrement(o) == rc
Increment(o) == IF Counted(o, slot) THEN [rc EXCEPT ![o] = @ + 1] ELSE rc

DecrementAlways(counts, o, slots) == [counts EXCEPT ![o] = @ - 1]
DecrementToOne(counts, o, slots) ==
  IF Counted(o, slots) /\ counts[o] > 1 THEN [counts EXCEPT ![o] = @ - 1] ELSE counts
LastRefBelowZero(o, slots) == Counted(o, slots) /\ rc[o] = 0

\* release_object_now_known_header on the counts given: what is left, and
\* whether o is now to be deallocated
Decrement(counts, o, slots) ==
  IF Counted(o, slots) /\ counts[o] > 0 THEN [counts EXCEPT ![o] = @ - 1] ELSE counts
IsLastRef(o, slots) == Counted(o, slots) /\ rc[o] = 1

\* A class with a trivial release has neither a dealloc nor ivars to run.
NewFrame(o) == [obj |-> o,
                phase |-> IF o \in Trivial THEN "ivars" ELSE "dealloc",
                todo |-> SlotsOf(o)]

\* References the program owns: embedded and immortal objects are not counted,
\* nor are disposed ones whose memory a group still holds.
Owns(o) == o \in Heap \ InPlace /\ IsLive(o) /\ MayDrop(o)
MayReleaseForNothing(o) ==
  HasMemory(o) /\ (o \in InPlace \/ ~IsLive(o) \/ InOwnerSlot(o, slot))

\* objc_retain
Retain(o) ==
  /\ Running
  /\ HasMemory(o) /\ (Referenced(o) \/ ~IsLive(o))
  /\ Counted(o, slot) => held[o] < MaxHeld
  /\ rc' = Increment(o)
  /\ held' = IF Counted(o, slot) THEN [held EXCEPT ![o] = @ + 1] ELSE held
  /\ cache' = CacheAfter(o)
  /\ UNCHANGED <<state, slot, parent, group, extRoot, liveCount, frames>>

\* objc_release
Release(o) ==
  /\ Running
  /\ Owns(o) \/ MayReleaseForNothing(o)
  /\ rc' = Decrement(rc, o, slot)
  /\ held' = IF Owns(o) THEN [held EXCEPT ![o] = @ - 1] ELSE held
  /\ frames' = IF IsLastRef(o, slot) THEN <<NewFrame(o)>> \o frames ELSE frames
  /\ cache' = CacheAfter(o)
  /\ UNCHANGED <<state, slot, parent, group, extRoot, liveCount>>

\* objc_storeStrong: retain the new value, store it, release the old one. The
\* store of what is there already returns early and changes nothing.
StoreStrong(s, v) ==
  LET old == slot[s]
      stored == [slot EXCEPT ![s] = v] IN
  /\ Running
  /\ CanUse(SlotOwner[s])
  /\ v # Nil => Referenced(v)
  /\ v \in Cell => "share_embedded" \in Uses
  /\ old # v
  /\ old \in Cell => Pinned(SlotOwner[s])
  /\ slot' = stored
  /\ rc' = LET taken == IF v = Nil THEN rc ELSE Increment(v) IN
           IF old = Nil THEN taken ELSE Decrement(taken, old, stored)
  /\ frames' = IF old # Nil /\ IsLastRef(old, stored)
               THEN <<NewFrame(old)>> \o frames ELSE frames
  /\ cache' = IF HasHeader(old) THEN old ELSE CacheAfter(v)
  /\ UNCHANGED <<state, parent, group, extRoot, liveCount, held>>
-----------------------------------------------------------------------------
(* release_object_nontrivial, once the count is zero *)

\* The dealloc method returns.
DeallocReturns ==
  /\ frames # <<>> /\ Head(frames).phase = "dealloc"
  /\ frames' = [frames EXCEPT ![1].phase = "ivars"]
  /\ UNCHANGED <<state, rc, slot, parent, group, extRoot, liveCount, held, cache>>

\* One ivar of clear_object_ivars. What the ivar held is released; an embedded
\* object is deallocated whatever its count.
ClearIvar(s) ==
  LET old == slot[s]
      cleared == [slot EXCEPT ![s] = Nil]
      rest == [frames EXCEPT ![1].todo = @ \ {s}] IN
  /\ frames # <<>> /\ Head(frames).phase = "ivars" /\ s \in Head(frames).todo
  /\ slot' = cleared
  /\ cache' = CacheAfter(old)
  /\ IF old \in Cell /\ HasHeader(old)
     THEN /\ frames' = <<NewFrame(old)>> \o rest
          /\ rc' = rc
     ELSE /\ rc' = IF old = Nil THEN rc ELSE Decrement(rc, old, cleared)
          /\ frames' = IF old # Nil /\ IsLastRef(old, cleared)
                       THEN <<NewFrame(old)>> \o rest ELSE rest
  /\ UNCHANGED <<state, parent, group, extRoot, liveCount, held>>
-----------------------------------------------------------------------------
(* sf_object_dispose *)

SlotsAfterDispose(o) ==
  IF InOwnerSlot(o, slot) THEN [slot EXCEPT ![OwnerSlot[o]] = Nil] ELSE slot

\* An object in no group gives its memory back at once.
DisposeAlone(o) ==
  /\ state' = [state EXCEPT ![o] = IF o \in Heap THEN "freed" ELSE "disposed"]
  /\ parent' = [parent EXCEPT ![o] = Nil]
  /\ group' = [group EXCEPT ![o] = Nil]
  /\ UNCHANGED <<extRoot, liveCount>>

DisposeMemberEarly(o, g) ==
  LET left == liveCount[g] - 1
      freed == IF left <= 1 THEN Members(g) ELSE {} IN
  /\ liveCount' = LiveCountSet(g, left)
  /\ state' = [m \in Object |-> IF m \in freed \cap Heap THEN "freed"
                               ELSE IF m = o THEN "disposed" ELSE state[m]]
  /\ parent' = [m \in Object |-> IF m \in freed THEN Nil ELSE parent[m]]
  /\ group' = [m \in Object |-> IF m \in freed THEN Nil ELSE group[m]]
  /\ UNCHANGED extRoot

\* A member of a group keeps its memory until the last one is disposed; then
\* free_group_members frees them all, the embedded ones excepted.
DisposeMember(o, g) ==
  LET left == IF liveCount[g] > 0 THEN liveCount[g] - 1 ELSE 0
      freed == IF left = 0 THEN Members(g) ELSE {} IN
  /\ liveCount' = LiveCountSet(g, left)
  /\ state' = [m \in Object |-> IF m \in freed \cap Heap THEN "freed"
                               ELSE IF m = o THEN "disposed" ELSE state[m]]
  /\ parent' = [m \in Object |-> IF m \in freed THEN Nil ELSE parent[m]]
  /\ group' = [m \in Object |-> IF m \in freed THEN Nil ELSE group[m]]
  /\ extRoot' = IF left = 0 /\ g \in GroupState
                THEN [extRoot EXCEPT ![g] = Nil] ELSE extRoot

DisposeKeepingCache(o) ==
  /\ slot' = SlotsAfterDispose(o)
  /\ IF Grouped(o) THEN DisposeMember(o, group[RootOf(o)]) ELSE DisposeAlone(o)
  /\ UNCHANGED <<rc, held, cache>>
DisposeObject(o) ==
  /\ cache' = Nil
  /\ slot' = SlotsAfterDispose(o)
  /\ IF Grouped(o) THEN DisposeMember(o, group[RootOf(o)]) ELSE DisposeAlone(o)
  /\ UNCHANGED <<rc, held>>

\* All ivars are clear: the object is disposed and the release returns. Only a
\* LIVE object is disposed.
Dispose ==
  /\ frames # <<>> /\ Head(frames).phase = "ivars" /\ Head(frames).todo = {}
  /\ frames' = Tail(frames)
  /\ IF IsLive(Head(frames).obj)
     THEN DisposeObject(Head(frames).obj)
     ELSE UNCHANGED <<state, rc, slot, parent, group, extRoot, liveCount, held, cache>>
-----------------------------------------------------------------------------
Program ==
  \/ \E o \in Heap : AllocObject(o) \/ AllocInPlace(o)
  \/ \E c \in Cell : AllocValue(c)
  \/ \E p \in Object : AllocChildFails(p) \/ \E o \in Heap : AllocChild(o, p)
  \/ \E o \in Object : Retain(o) \/ Release(o)
  \/ \E s \in Slot, v \in Object \cup {Nil} : StoreStrong(s, v)

\* The steps of a release in progress; the program's code has no part in them.
Runtime == (\E s \in Slot : ClearIvar(s)) \/ Dispose

Next == Program \/ DeallocReturns \/ Runtime

Spec == Init /\ [][Next]_vars

\* The runtime's steps follow one another without delay, and every dealloc
\* method of the program returns.
Fairness ==
  /\ WF_vars(Runtime)
  /\ \A o \in Object : SF_vars(DeallocReturns /\ Head(frames).obj = o)
FairSpec == Spec /\ Fairness
-----------------------------------------------------------------------------
Refs(o) == {s \in Slot : slot[s] = o}
LiveMembers(g) == {o \in Members(g) : IsLive(o)}

\* The count of an object is the number of references to it that exist, also
\* in the middle of any dealloc: an object whose last reference goes away is
\* deallocated and no other one is.
RefcountExact ==
  \A o \in Heap \ InPlace : IsLive(o) => rc[o] = held[o] + Cardinality(Refs(o))

\* Nothing is lost: a live object without references is being deallocated, and
\* an embedded one is either in its slot or being deallocated.
NoForgottenObject ==
  \A o \in Object \ InPlace :
    IsLive(o) => Referenced(o) \/ \E i \in DOMAIN frames : frames[i].obj = o

\* Whatever an ivar or the program refers to is LIVE and has its memory.
NoDanglingReference ==
  /\ \A s \in Slot : slot[s] # Nil => IsLive(slot[s]) /\ HasMemory(slot[s])
  /\ \A o \in Object : held[o] > 0 => IsLive(o)

\* Every header the runtime may still follow a pointer to has its memory: the
\* objects being deallocated, the parent and the group root of a live object.
PointersValid ==
  /\ \A i \in DOMAIN frames : IsLive(frames[i].obj) /\ HasMemory(frames[i].obj)
  /\ \A o \in Object : IsLive(o) =>
       /\ HasMemory(o)
       /\ parent[o] # Nil => HasMemory(parent[o])
       /\ HasMemory(RootOf(o))

\* dealloc runs once: no object is deallocated inside its own dealloc.
DeallocNotReentered ==
  \A i, j \in DOMAIN frames : frames[i].obj = frames[j].obj => i = j

\* The memory of a heap object is held while the object, or any member of its
\* group, lives, and not a step longer.
MemoryFreedWithGroup ==
  \A o \in Heap :
    HasMemory(o) <=> IsLive(o) \/ (group[o] # Nil /\ LiveMembers(group[o]) # {})

\* The counter of a group is the number of its live members.
LiveCountExact ==
  \A g \in Group : liveCount[g] = Cardinality(LiveMembers(g))

\* The cached header belongs to a live object.
CacheFresh == cache # Nil => IsLive(cache) /\ HasMemory(cache)

\* An embedded object in its owner's slot is invalidated by clearing that slot
\* or by the deallocation of the owner, which clears it.
EmbeddedOutlivesOtherReferences ==
  [][\A c \in Cell : IsLive(c) /\ ~IsLive(c)' => ~InOwnerSlot(c, slot)]_vars

\* A disposed object is not revived and freed memory is not freed again.
NoResurrection ==
  [][\A o \in Heap : state[o] \in {"disposed", "freed"}
       => state'[o] \in {state[o], "freed"} /\ held'[o] = 0]_vars

\* An object whose last reference is gone is disposed in the end, whatever its
\* dealloc and those it sets off do.
LastReleaseDisposes ==
  \A o \in Heap \ InPlace : (IsLive(o) /\ rc[o] = 0) ~> ~IsLive(o)

\* README.md:59: the parent is kept alive while its children are referenced.
ParentKeptAlive ==
  \A o \in Heap : IsLive(o) /\ parent[o] # Nil /\ Referenced(o) => IsLive(parent[o])

\* The memory of the parent is, at least.
ParentMemoryKept ==
  \A o \in Heap : IsLive(o) /\ parent[o] # Nil => HasMemory(parent[o])
=============================================================================
