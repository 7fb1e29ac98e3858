--------------------------- MODULE OwnershipProofs ---------------------------
(***************************************************************************)
(* Proof that ObjectLifetime implements Ownership, for programs that       *)
(* follow the rules of the module (Uses = {}) and every class layout: the  *)
(* initial states map to initial states, and every operation of the        *)
(* runtime to one of Ownership or to no step of it.                        *)
(***************************************************************************)
EXTENDS ObjectLifetimeRefinement, ObjectLifetimeProofs

\* What Ownership speaks of, object by object.
SameView(x) ==
  LifeOf(x)' = LifeOf(x) /\ RefsOf(x)' = RefsOf(x) /\ RegionOf(x)' = RegionOf(x)
-----------------------------------------------------------------------------
(* The steps of Ownership, object by object *)

LEMMA Stutters ==
  ASSUME \A x \in Object : SameView(x)
  PROVE  UNCHANGED O!vars
BY DEF SameView, O!vars, O!Object

LEMMA Creates ==
  ASSUME NEW o \in Heap, NEW r \in Heap, LifeOf(o) = "none",
         r = o \/ \E p \in Object : LifeOf(p) = "live" /\ RegionOf(p) = r,
         LifeOf(o)' = "live", RefsOf(o)' = 1, RegionOf(o)' = r,
         \A x \in Object : x # o => SameView(x)
  PROVE  O!Create(o, r)
<1>1. o \in Object /\ r \in Object
  BY DEF Object
<1>2. [x \in Object |-> LifeOf(x)'] = [[x \in Object |-> LifeOf(x)] EXCEPT ![o] = "live"]
  BY <1>1 DEF SameView
<1>3. [x \in Object |-> RefsOf(x)'] = [[x \in Object |-> RefsOf(x)] EXCEPT ![o] = 1]
  BY <1>1 DEF SameView
<1>4. [x \in Object |-> RegionOf(x)'] = [[x \in Object |-> RegionOf(x)] EXCEPT ![o] = r]
  BY <1>1 DEF SameView
<1>5. r = o \/ \E p \in O!Object : O!Lives(p) /\ [x \in Object |-> RegionOf(x)][p] = r
  BY <1>1 DEF O!Lives, O!Object, Object
<1>6. [x \in Object |-> LifeOf(x)][o] = "none"
  BY <1>1
<1> QED
  BY <1>2, <1>3, <1>4, <1>5, <1>6, Zenon DEF O!Create

LEMMA Embeds ==
  ASSUME NEW c \in Cell, HomeOf(c) \in Object,
         LifeOf(c) # "live", LifeOf(HomeOf(c)) = "live",
         LifeOf(c)' = "live", RefsOf(c)' = 1, RegionOf(c)' = RegionOf(c),
         \A x \in Object : x # c => SameView(x)
  PROVE  O!Embed(c)
<1> c \in Object
  BY DEF Object
<1> QED
  BY DEF SameView, O!Embed, O!Lives, O!Object

LEMMA Rewires ==
  ASSUME \A x \in Object : /\ LifeOf(x)' = LifeOf(x) /\ RegionOf(x)' = RegionOf(x)
                           /\ RefsOf(x) = 0 => RefsOf(x)' = 0
  PROVE  O!Rewire
BY DEF O!Rewire, O!Object, Object

LEMMA Expires ==
  ASSUME NEW o \in Object, LifeOf(o) = "live", RefsOf(o) = 0,
         o \in Heap => \A c \in Cell : HomeOf(c) = o => LifeOf(c) # "live",
         NEW members,
         members = {m \in Heap : RegionOf(m) = RegionOf(o) /\ LifeOf(m) # "none"},
         NEW last \in BOOLEAN, last <=> \A m \in members \ {o} : LifeOf(m) # "live",
         \A m \in Object :
           /\ LifeOf(m)' = IF o \in Heap /\ last /\ m \in members THEN "freed"
                           ELSE IF m = o THEN "expired" ELSE LifeOf(m)
           /\ RegionOf(m)' = IF LifeOf(m)' = "freed" THEN m ELSE RegionOf(m)
           /\ RefsOf(m)' = RefsOf(m)
  PROVE  O!Expire(o)
BY DEF O!Expire, O!Lives, O!Object, Object
-----------------------------------------------------------------------------
(* What Ownership speaks of, in a state that satisfies the invariant *)

\* The region of an object is its group, if it is in one.
LEMMA RegionIs ==
  IInv => \A x \in Object : RegionOf(x) = IF group[x] = Nil THEN x ELSE group[x]
<1> SUFFICES ASSUME IInv, NEW x \in Object
             PROVE  RegionOf(x) = IF group[x] = Nil THEN x ELSE group[x]
  OBVIOUS
<1>1. CASE group[x] = Nil
  BY <1>1 DEF RegionOf, RootOf
<1>2. CASE group[x] # Nil
  BY <1>2 DEF RegionOf, RootOf, IInv, GroupsOK
<1> QED
  BY <1>1, <1>2

\* The references to an object are what its count says.
LEMMA RefsAre ==
  IInv => \A x \in Object :
            RefsOf(x) = IF x \in Cell THEN IF slot[OwnerSlot[x]] = x THEN 1 ELSE 0
                        ELSE IF ~IsLive(x) THEN 0
                        ELSE IF x \in InPlace THEN 1 ELSE rc[x]
<1> SUFFICES ASSUME IInv, NEW x \in Object
             PROVE  RefsOf(x) = IF x \in Cell THEN IF slot[OwnerSlot[x]] = x THEN 1 ELSE 0
                                ELSE IF ~IsLive(x) THEN 0
                                ELSE IF x \in InPlace THEN 1 ELSE rc[x]
  OBVIOUS
<1>1. CASE x \in Cell \/ x \in InPlace
  BY <1>1 DEF RefsOf
<1>2. CASE x \in Heap \ InPlace /\ IsLive(x)
  BY <1>2, ConstantsAssumption DEF RefsOf, IInv, CountsOK, RefcountExact
<1>3. CASE x \in Heap \ InPlace /\ ~IsLive(x)
  <2>1. x # Nil /\ x \notin Cell
    BY <1>3, ConstantsAssumption
  <2>2. ~(held[x] > 0) /\ held[x] \in Nat
    BY <1>3 DEF IInv, CountsOK, TypeOK
  <2>3. \A s \in Slot : slot[s] # x
    BY <1>3, <2>1 DEF IInv, CountsOK
  <2> QED
    BY <1>3, <2>1, <2>2, <2>3, RefsNat DEF RefsOf, IInv
<1> QED
  BY <1>1, <1>2, <1>3 DEF Object

LEMMA RegionIsNext ==
  IInv' => \A x \in Object : RegionOf(x)' = IF group'[x] = Nil THEN x ELSE group'[x]
<1>1. (IInv => \A x \in Object : RegionOf(x) = IF group[x] = Nil THEN x ELSE group[x])'
  BY RegionIs, PTL
<1> QED
  BY <1>1

LEMMA RefsAreNext ==
  IInv' => \A x \in Object :
             RefsOf(x)' = IF x \in Cell THEN IF slot'[OwnerSlot[x]] = x THEN 1 ELSE 0
                          ELSE IF ~IsLive(x)' THEN 0
                          ELSE IF x \in InPlace THEN 1 ELSE rc'[x]
<1>1. (IInv => \A x \in Object :
            RefsOf(x) = IF x \in Cell THEN IF slot[OwnerSlot[x]] = x THEN 1 ELSE 0
                        ELSE IF ~IsLive(x) THEN 0
                        ELSE IF x \in InPlace THEN 1 ELSE rc[x])'
  BY RefsAre, PTL
<1> QED
  BY <1>1

\* An object that keeps its header, its slot and its count looks the same.
LEMMA LooksTheSame ==
  ASSUME IInv, IInv', NEW x \in Object, state'[x] = state[x], group'[x] = group[x],
         rc'[x] = rc[x], x \in Cell => slot'[OwnerSlot[x]] = slot[OwnerSlot[x]]
  PROVE  SameView(x)
<1>1. LifeOf(x)' = LifeOf(x)
  BY DEF LifeOf
<1>2. RegionOf(x)' = RegionOf(x)
  BY RegionIs, RegionIsNext
<1>3. RefsOf(x)' = RefsOf(x)
  BY RefsAre, RefsAreNext DEF IsLive
<1> QED
  BY <1>1, <1>2, <1>3 DEF SameView
-----------------------------------------------------------------------------
(* The operations *)

LEMMA AllocObjectCreates ==
  ASSUME IInv, IInv', NEW o \in Heap, AllocObject(o) \/ AllocInPlace(o)
  PROVE  O!Create(o, o)
<1>1. /\ o \in Object /\ o \notin Cell /\ group[o] = Nil /\ state[o] = "absent"
      /\ group' = group /\ slot' = slot
  BY Fresh DEF AllocObject, AllocInPlace
<1>2. /\ state'[o] = "live" /\ rc'[o] = 1
      /\ \A x \in Object : x # o => state'[x] = state[x] /\ rc'[x] = rc[x]
  BY <1>1 DEF AllocObject, AllocInPlace, IInv, TypeOK
<1>3. \A x \in Object : x # o => SameView(x)
  BY <1>1, <1>2, LooksTheSame
<1>4. LifeOf(o) = "none" /\ LifeOf(o)' = "live"
  BY <1>1, <1>2 DEF LifeOf
<1>5. RefsOf(o)' = 1 /\ RegionOf(o)' = o
  BY <1>1, <1>2, RefsAreNext, RegionIsNext DEF IsLive
<1> QED
  BY <1>3, <1>4, <1>5, Creates

LEMMA AllocValueEmbeds ==
  ASSUME IInv, IInv', NEW c \in Cell, AllocValue(c)
  PROVE  O!Embed(c)
<1>1. /\ c \in Object /\ c \notin Heap /\ OwnerSlot[c] \in Slot
      /\ HomeOf(c) \in Object /\ HomeOf(c) # c
      /\ \A d \in Cell : d # c => OwnerSlot[d] # OwnerSlot[c] /\ OwnerSlot[d] \in Slot
  BY ConstantsAssumption DEF Object
<1>2. IsLive(HomeOf(c)) /\ ~IsLive(c) /\ group[c] = Nil /\ group'[c] = Nil
  BY <1>1, UsedIsLive DEF AllocValue, IInv, CellsOK
<1>3. /\ state'[c] = "live" /\ slot'[OwnerSlot[c]] = c
      /\ \A d \in Cell : d # c => slot'[OwnerSlot[d]] = slot[OwnerSlot[d]]
      /\ \A x \in Object : x # c =>
           state'[x] = state[x] /\ rc'[x] = rc[x] /\ group'[x] = group[x]
  BY <1>1 DEF AllocValue, IInv, TypeOK
<1>4. \A x \in Object : x # c => SameView(x)
  BY <1>3, LooksTheSame
<1>5. LifeOf(c) # "live" /\ LifeOf(HomeOf(c)) = "live" /\ LifeOf(c)' = "live"
  BY <1>1, <1>2, <1>3 DEF LifeOf, IsLive, IInv, TypeOK
<1>6. RefsOf(c)' = 1 /\ RegionOf(c)' = RegionOf(c)
  BY <1>1, <1>2, <1>3, RefsAreNext, RegionIs, RegionIsNext
<1> QED
  BY <1>1, <1>4, <1>5, <1>6, Embeds

\* The parent of a new child is in the child's region, which its root may not
\* have known before.
LEMMA AllocChildCreates ==
  ASSUME Uses = {}, IInv, IInv', NEW p \in Object, NEW o \in Heap, AllocChild(o, p)
  PROVE  O!Create(o, RootOf(p)) /\ RootOf(p) \in Heap
<1> PICK r : r = RootOf(p)
  OBVIOUS
<1>1. p \in Heap /\ IsLive(p)
  BY UsedIsLive DEF AllocChild, Object
<1>2. /\ r \in Heap /\ GroupsFor(r) = {r} /\ r \in Object /\ r \in Group
      /\ group[p] = Nil => r = p
      /\ group[p] # Nil => group[p] = r /\ group[r] = r
      /\ o \in Object /\ o \notin Cell /\ group[o] = Nil /\ state[o] = "absent"
  BY <1>1, RootForChild, Fresh DEF Object, Group, AllocChild
<1>3. group' = [group EXCEPT ![r] = r, ![o] = r]
  BY <1>2 DEF AllocChild, JoinedGroup
<1>4. /\ state'[o] = "live" /\ rc'[o] = 1 /\ group'[o] = r /\ slot' = slot
      /\ \A x \in Object : x # o => state'[x] = state[x] /\ rc'[x] = rc[x]
      /\ \A x \in Object : x # o /\ x # r => group'[x] = group[x]
      /\ r # o => group'[r] = r
  BY <1>2, <1>3 DEF AllocChild, IInv, TypeOK
<1>5. r # Nil /\ (group[r] = Nil \/ group[r] = r)
  BY <1>1, <1>2, ConstantsAssumption
<1>6. ASSUME NEW x \in Object, x # o PROVE SameView(x)
  <2>1. RegionOf(x)' = RegionOf(x)
    BY <1>4, <1>5, <1>6, RegionIs, RegionIsNext
  <2>2. LifeOf(x)' = LifeOf(x)
    BY <1>4, <1>6 DEF LifeOf
  <2>3. RefsOf(x)' = RefsOf(x)
    BY <1>4, <1>6, RefsAre, RefsAreNext DEF IsLive
  <2> QED
    BY <2>1, <2>2, <2>3 DEF SameView
<1>7. LifeOf(p) = "live" /\ RegionOf(p) = r
  BY <1>1, <1>2, RegionIs DEF LifeOf, IsLive
<1>8. LifeOf(o) = "none" /\ LifeOf(o)' = "live" /\ RefsOf(o)' = 1 /\ RegionOf(o)' = r
  BY <1>2, <1>4, <1>5, RefsAreNext, RegionIsNext DEF LifeOf, IsLive
<1> QED
  BY <1>2, <1>6, <1>7, <1>8, Creates

LEMMA AllocChildFailsStutters ==
  ASSUME Uses = {}, IInv, IInv', NEW p \in Object, AllocChildFails(p)
  PROVE  UNCHANGED O!vars
<1> PICK r : r = RootOf(p)
  OBVIOUS
<1>1. p \in Heap /\ IsLive(p)
  BY UsedIsLive DEF AllocChildFails, Object
<1>2. /\ r \in Heap /\ GroupsFor(r) = {r} /\ r \in Object /\ r # Nil
      /\ group[r] = Nil \/ group[r] = r
  BY <1>1, RootForChild, ConstantsAssumption DEF Object
<1>3. group' = [group EXCEPT ![r] = r]
  BY <1>2 DEF AllocChildFails
<1>4. ASSUME NEW x \in Object PROVE SameView(x)
  <2>1. RegionOf(x)' = RegionOf(x)
    BY <1>2, <1>3, RegionIs, RegionIsNext DEF IInv, TypeOK
  <2>2. LifeOf(x)' = LifeOf(x)
    BY DEF LifeOf, AllocChildFails
  <2>3. RefsOf(x)' = RefsOf(x)
    BY RefsAre, RefsAreNext DEF IsLive, AllocChildFails
  <2> QED
    BY <2>1, <2>2, <2>3 DEF SameView
<1> QED
  BY <1>4, Stutters
\* References move, and neither headers nor groups change.
LEMMA Moves ==
  ASSUME IInv, IInv', state' = state, group' = group,
         \A x \in Heap \ InPlace : rc[x] = 0 => rc'[x] = 0,
         \A c \in Cell : slot'[OwnerSlot[c]] = c => slot[OwnerSlot[c]] = c
  PROVE  O!Rewire
<1>1. ASSUME NEW x \in Object
      PROVE  /\ LifeOf(x)' = LifeOf(x) /\ RegionOf(x)' = RegionOf(x)
             /\ RefsOf(x) = 0 => RefsOf(x)' = 0
  <2>1. LifeOf(x)' = LifeOf(x)
    BY DEF LifeOf
  <2>2. RegionOf(x)' = RegionOf(x)
    BY RegionIs, RegionIsNext
  <2>3. IsLive(x)' <=> IsLive(x)
    BY DEF IsLive
  <2>4. RefsOf(x) = 0 => RefsOf(x)' = 0
    BY <2>3, RefsAre, RefsAreNext DEF Object
  <2> QED
    BY <2>1, <2>2, <2>4
<1> QED
  BY <1>1, Rewires

LEMMA RetainMoves ==
  ASSUME IInv, IInv', NEW o \in Object, Retain(o)
  PROVE  O!Rewire
<1>1. \A x \in Heap \ InPlace : rc[x] = 0 => rc'[x] = 0
  <2>1. o \in Heap /\ Counted(o, slot) => rc[o] > 0
    BY ConstantsAssumption DEF Retain, Referenced, Counted, InOwnerSlot
  <2> QED
    BY <2>1 DEF Retain, Increment, IInv, TypeOK
<1> QED
  BY <1>1, Moves DEF Retain

LEMMA ReleaseMoves ==
  ASSUME IInv, IInv', NEW o \in Object, Release(o)
  PROVE  O!Rewire
<1>1. \A x \in Heap \ InPlace : rc[x] = 0 => rc'[x] = 0
  BY DEF Release, Decrement, IInv, TypeOK
<1> QED
  BY <1>1, Moves DEF Release

\* A store puts no embedded object back into its slot, and takes no reference
\* to an object that has none.
LEMMA StoreMoves ==
  ASSUME IInv, IInv', NEW s \in Slot, NEW v \in Heap \cup {Nil},
         v # Nil => v # slot[s] /\ Referenced(v),
         state' = state, group' = group, slot' = [slot EXCEPT ![s] = v],
         rc' = rc \/ rc' = CountsAfter(s, v)
  PROVE  O!Rewire
<1>1. ASSUME NEW x \in Heap \ InPlace, rc[x] = 0 PROVE rc'[x] = 0
  <2>1. x # v
    BY <1>1, ConstantsAssumption DEF Referenced, InOwnerSlot
  <2>2. rc'[x] \in Nat
    BY DEF IInv, TypeOK, Object
  <2>3. CASE rc' = CountsAfter(s, v)
    <3>1. rc'[x] = rc[x] + (IF x = v /\ x \notin InPlace THEN 1 ELSE 0)
                   - (IF x = slot[s] /\ x \notin InPlace THEN 1 ELSE 0)
      BY <2>3, CountsAfterStore
    <3> QED
      BY <1>1, <2>1, <2>2, <3>1
  <2> QED
    BY <1>1, <2>3
<1>2. \A c \in Cell : slot'[OwnerSlot[c]] = c => slot[OwnerSlot[c]] = c
  BY ConstantsAssumption DEF IInv, TypeOK
<1> QED
  BY <1>1, <1>2, Moves

LEMMA StoreStrongMoves ==
  ASSUME Uses = {}, IInv, IInv', NEW s \in Slot, NEW v \in Object \cup {Nil},
         StoreStrong(s, v)
  PROVE  O!Rewire
<1>1. /\ v \in Heap \cup {Nil} /\ (v # Nil => v # slot[s] /\ Referenced(v))
      /\ slot' = [slot EXCEPT ![s] = v] /\ rc' = CountsAfter(s, v)
      /\ state' = state /\ group' = group
  BY ConstantsAssumption DEF StoreStrong, Object, CountsAfter
<1> QED
  BY <1>1, StoreMoves

LEMMA ClearIvarMoves ==
  ASSUME IInv, IInv', NEW s \in Slot, ClearIvar(s)
  PROVE  O!Rewire
<1>1. /\ slot' = [slot EXCEPT ![s] = Nil] /\ state' = state /\ group' = group
      /\ rc' = rc \/ rc' = CountsAfter(s, Nil)
  BY DEF ClearIvar, CountsAfter
<1> QED
  BY <1>1, StoreMoves

LEMMA DeallocReturnsStutters ==
  ASSUME IInv, IInv', DeallocReturns
  PROVE  UNCHANGED O!vars
BY LooksTheSame, Stutters DEF DeallocReturns
-----------------------------------------------------------------------------
(* Disposal *)

\* Only the innermost dealloc ends, and when its ivars are clear no object
\* embedded in it lives.
LEMMA NothingEmbeddedLives ==
  ASSUME IInv, NEW o \in Heap, frames # <<>>, frames[1].obj = o, frames[1].todo = {},
         NEW c \in Cell, HomeOf(c) = o
  PROVE  ~IsLive(c)
<1> SUFFICES ASSUME IsLive(c) PROVE FALSE
  OBVIOUS
<1>1. /\ 1 \in DOMAIN frames /\ o \notin Cell /\ c \in Object /\ c # Nil
      /\ OwnerSlot[c] \in SlotsOf(o) /\ c \notin Heap /\ c \notin InPlace /\ o \in Object
      /\ DOMAIN frames \subseteq Nat \ {0}
  BY TopOfStack, ConstantsAssumption DEF IInv, TypeOK, HomeOf, SlotsOf, Object
<1>2. slot[OwnerSlot[c]] = Nil
  BY <1>1 DEF IInv, StackOK, FrameOK
<1>3. PICK i \in DOMAIN frames : frames[i].obj = c
  BY <1>1, <1>2 DEF IInv, NoForgottenObject, Referenced, InOwnerSlot
<1>4. OnStack(o)
  BY <1>1 DEF OnStack
<1>5. held[o] = 0 /\ o \notin InPlace
  BY <1>1, <1>4, Unreferenced
<1>6. PICK j \in DOMAIN frames : j > i /\ frames[j].obj = o
  BY <1>3, <1>5 DEF IInv, CellsOK, Hosted
<1>7. j = 1
  BY <1>1, <1>6 DEF IInv, StackOK, DeallocNotReentered
<1> QED
  BY <1>1, <1>6, <1>7
\* An object in no group goes alone, with its region if that is its own.
LEMMA DisposeAloneExpires ==
  ASSUME IInv, IInv', NEW o \in Object, IsLive(o), RefsOf(o) = 0, group[o] = Nil,
         o \in Heap => \A c \in Cell : HomeOf(c) = o => ~IsLive(c),
         DisposeAlone(o), slot' = slot, rc' = rc
  PROVE  O!Expire(o)
<1>1. /\ \A x \in Object : x # o => state'[x] = state[x]
      /\ state'[o] = IF o \in Heap THEN "freed" ELSE "disposed"
      /\ group' = group
  BY DisposeAloneOK DEF IInv
<1>2. /\ \A x \in Object : x # Nil /\ RegionOf(x) = IF group[x] = Nil THEN x ELSE group[x]
      /\ \A x \in Object : RegionOf(x)' = RegionOf(x)
      /\ RegionOf(o) = o
  BY <1>1, RegionIs, RegionIsNext, ConstantsAssumption DEF Object
<1>3. \A m \in Heap : m # o => RegionOf(m) # o
  <2> TAKE m \in Heap
  <2> HAVE m # o
  <2>1. m \in Object
    BY DEF Object
  <2>2. group[m] # o
    BY <1>2, <2>1 DEF IInv, GroupsOK
  <2> QED
    BY <1>2, <2>1, <2>2
<1>4. LifeOf(o) = "live" /\ (\A c \in Cell : c \in Object /\ c \notin Heap)
  BY ConstantsAssumption DEF LifeOf, IsLive, Object
<1> PICK members : members = {m \in Heap : RegionOf(m) = RegionOf(o) /\ LifeOf(m) # "none"}
  OBVIOUS
<1> PICK last \in BOOLEAN : last
  OBVIOUS
<1>5. \A m \in members : m = o
  BY <1>2, <1>3
<1>6. o \in Heap => o \in members
  BY <1>4
<1>7. \A m \in Object : RefsOf(m)' = RefsOf(m)
  <2> TAKE m \in Object
  <2>1. CASE m # o
    BY <1>1, <2>1, LooksTheSame DEF SameView
  <2>2. CASE m = o
    <3>1. ~IsLive(m)'
      BY <1>1, <2>2 DEF IsLive
    <3> QED
      BY <2>2, <3>1, RefsAre, RefsAreNext
  <2> QED
    BY <2>1, <2>2
<1>8. \A m \in Object : LifeOf(m)' = IF o \in Heap /\ last /\ m \in members THEN "freed"
                                     ELSE IF m = o THEN "expired" ELSE LifeOf(m)
  BY <1>1, <1>5, <1>6 DEF LifeOf
<1>9. \A m \in Object : RegionOf(m)' = IF LifeOf(m)' = "freed" THEN m ELSE RegionOf(m)
  <2> TAKE m \in Object
  <2>1. CASE m = o
    BY <1>2, <2>1
  <2>2. CASE m # o /\ LifeOf(m)' = "freed"
    <3>1. state[m] = "freed"
      BY <1>1, <2>2 DEF LifeOf
    <3>2. group[m] = Nil
      BY <3>1 DEF IInv, GroupsOK, HasMemory
    <3> QED
      BY <1>2, <3>2
  <2> QED
    BY <1>2, <2>1, <2>2
<1>10. last <=> \A m \in members \ {o} : LifeOf(m) # "live"
  BY <1>5
<1>11. o \in Heap => \A c \in Cell : HomeOf(c) = o => LifeOf(c) # "live"
  BY <1>4 DEF LifeOf, IsLive
<1>12. \A m \in Object :
         /\ LifeOf(m)' = IF o \in Heap /\ last /\ m \in members THEN "freed"
                         ELSE IF m = o THEN "expired" ELSE LifeOf(m)
         /\ RegionOf(m)' = IF LifeOf(m)' = "freed" THEN m ELSE RegionOf(m)
         /\ RefsOf(m)' = RefsOf(m)
  BY <1>7, <1>8, <1>9, Zenon
<1>13. /\ LifeOf(o) = "live"
       /\ members = {m \in Heap : RegionOf(m) = RegionOf(o) /\ LifeOf(m) # "none"}
  BY <1>4
<1> QED
  BY <1>10, <1>11, <1>12, <1>13, Expires, Zenon
\* A member of a group goes, and with the last one that lives the whole region.
LEMMA DisposeMemberExpires ==
  ASSUME IInv, IInv', NEW o \in Object, IsLive(o), RefsOf(o) = 0,
         NEW g \in Heap, group[o] = g,
         \A c \in Cell : HomeOf(c) = o => ~IsLive(c),
         DisposeMember(o, g), slot' = slot, rc' = rc
  PROVE  O!Expire(o)
<1> PICK last \in BOOLEAN : last <=> liveCount[g] = 1
  OBVIOUS
<1>1. /\ o \in Heap /\ g # Nil /\ g \in Object /\ group[g] = g
      /\ last <=> LiveMembers(g) \ {o} = {}
      /\ \A x \in Heap : x \in Object /\ x # Nil /\ x \notin Cell
  <2>1. \A x \in Heap : x \in Object /\ x # Nil /\ x \notin Cell
    BY ConstantsAssumption DEF Object
  <2>2. group[g] = g
    BY <2>1 DEF IInv, GroupsOK
  <2>3. o \in Heap /\ (liveCount[g] = 1 <=> LiveMembers(g) \ {o} = {})
    BY MemberDisposed
  <2> QED
    BY <2>1, <2>2, <2>3
<1>2. \A x \in Object :
        /\ state'[x] = IF last /\ group[x] = g /\ x \in Heap THEN "freed"
                       ELSE IF x = o THEN "disposed" ELSE state[x]
        /\ group'[x] = IF last /\ group[x] = g THEN Nil ELSE group[x]
  <2>1. LeavesGroup(o, g)
    BY MemberDisposed
  <2> QED
    BY <2>1, Zenon DEF LeavesGroup
<1>3. /\ \A x \in Object : RegionOf(x) = IF group[x] = Nil THEN x ELSE group[x]
      /\ \A x \in Object : RegionOf(x)' = IF group'[x] = Nil THEN x ELSE group'[x]
  BY RegionIs, RegionIsNext
<1>4. \A m \in Object : group[m] = g => m \in Heap /\ state[m] \in {"live", "disposed"}
  BY <1>1 DEF IInv, GroupsOK, HasMemory
<1> PICK members : members = {m \in Heap : RegionOf(m) = RegionOf(o) /\ LifeOf(m) # "none"}
  OBVIOUS
<1>5. \A m \in Object : m \in members <=> group[m] = g
  <2> TAKE m \in Object
  <2>1. RegionOf(o) = g
    BY <1>1, <1>3
  <2>2. RegionOf(m) = g <=> group[m] = g
    BY <1>1, <1>3
  <2>3. group[m] = g => m \in Heap /\ LifeOf(m) # "none"
    BY <1>4 DEF LifeOf
  <2> QED
    BY <2>1, <2>2, <2>3
<1>6. last <=> \A m \in members \ {o} : LifeOf(m) # "live"
  <2>1. \A m \in Object : LifeOf(m) = "live" <=> IsLive(m)
    BY DEF LifeOf, IsLive, IInv, TypeOK
  <2>2. \A m \in Object : m \in LiveMembers(g) <=> m \in members /\ LifeOf(m) = "live"
    BY <1>5, <2>1 DEF LiveMembers, Members
  <2>3. \A m \in members : m \in Object
    BY <1>1
  <2>4. \A m \in LiveMembers(g) : m \in Object
    BY DEF LiveMembers, Members
  <2> QED
    BY <1>1, <2>2, <2>3, <2>4
<1>7. ASSUME NEW m \in Object
      PROVE  LifeOf(m)' = IF o \in Heap /\ last /\ m \in members THEN "freed"
                          ELSE IF m = o THEN "expired" ELSE LifeOf(m)
  <2>1. state'[m] = IF o \in Heap /\ last /\ m \in members THEN "freed"
                    ELSE IF m = o THEN "disposed" ELSE state[m]
    BY <1>1, <1>2, <1>4, <1>5
  <2> QED
    BY <2>1 DEF LifeOf
<1>8. ASSUME NEW m \in Object
      PROVE  RegionOf(m)' = IF LifeOf(m)' = "freed" THEN m ELSE RegionOf(m)
  <2>1. CASE last /\ group[m] = g
    BY <1>1, <1>2, <1>3, <1>5, <1>7, <2>1
  <2>2. CASE ~(last /\ group[m] = g)
    <3>1. group'[m] = group[m] /\ RegionOf(m)' = RegionOf(m)
      BY <1>2, <1>3, <2>2
    <3>2. ASSUME LifeOf(m)' = "freed" PROVE RegionOf(m) = m
      <4>1. state[m] = "freed"
        BY <1>2, <2>2, <3>2 DEF LifeOf
      <4>2. group[m] = Nil
        BY <4>1 DEF IInv, GroupsOK, HasMemory
      <4> QED
        BY <1>3, <4>2
    <3> QED
      BY <3>1, <3>2
  <2> QED
    BY <2>1, <2>2
<1>9. ASSUME NEW m \in Object PROVE RefsOf(m)' = RefsOf(m)
  <2>1. CASE m = o
    <3>1. ~IsLive(m)' /\ m \notin Cell
      BY <1>1, <1>2, <2>1 DEF IsLive
    <3> QED
      BY <2>1, <3>1, RefsAre, RefsAreNext
  <2>2. CASE m # o
    <3>1. last /\ group[m] = g => ~IsLive(m)
      BY <1>1, <2>2 DEF LiveMembers, Members
    <3>2. IsLive(m)' <=> IsLive(m)
      BY <1>2, <1>4, <2>2, <3>1 DEF IsLive
    <3> QED
      BY <3>2, RefsAre, RefsAreNext
  <2> QED
    BY <2>1, <2>2
<1>10. \A m \in Object :
         /\ LifeOf(m)' = IF o \in Heap /\ last /\ m \in members THEN "freed"
                         ELSE IF m = o THEN "expired" ELSE LifeOf(m)
         /\ RegionOf(m)' = IF LifeOf(m)' = "freed" THEN m ELSE RegionOf(m)
         /\ RefsOf(m)' = RefsOf(m)
  BY <1>7, <1>8, <1>9, Zenon
<1>11. /\ LifeOf(o) = "live"
       /\ members = {m \in Heap : RegionOf(m) = RegionOf(o) /\ LifeOf(m) # "none"}
       /\ o \in Heap => \A c \in Cell : HomeOf(c) = o => LifeOf(c) # "live"
  <2>1. \A c \in Cell : c \in Object
    BY DEF Object
  <2> QED
    BY <2>1 DEF LifeOf, IsLive, IInv, TypeOK
<1> QED
  BY <1>6, <1>10, <1>11, Expires, Zenon

LEMMA DisposeExpires ==
  ASSUME IInv, IInv', Dispose
  PROVE  \E o \in Object : O!Expire(o)
<1>1. /\ frames # <<>> /\ Head(frames) = frames[1] /\ 1 \in DOMAIN frames
      /\ frames[1] \in Frame /\ frames[1].todo = {}
  BY TopOfStack DEF IInv, TypeOK, Dispose
<1> PICK o \in Object : o = frames[1].obj
  BY <1>1 DEF Frame
<1>2. IsLive(o) /\ o \notin InPlace /\ OnStack(o)
  BY <1>1 DEF IInv, StackOK, FrameOK, OnStack
<1>3. /\ rc' = rc /\ slot' = SlotsAfterDispose(o)
      /\ IF Grouped(o) THEN DisposeMember(o, group[RootOf(o)]) ELSE DisposeAlone(o)
  BY <1>1, <1>2 DEF Dispose, DisposeObject
<1>4. slot' = slot /\ (\A s \in Slot : slot[s] # o)
  <2>1. \A s \in Slot : slot[s] # o
    BY <1>2, Unreferenced
  <2>2. o \in Cell => OwnerSlot[o] \in Slot
    BY ConstantsAssumption
  <2> QED
    BY <1>3, <2>1, <2>2 DEF SlotsAfterDispose, InOwnerSlot
<1>5. RefsOf(o) = 0
  <2>1. o \in Cell => slot[OwnerSlot[o]] # o
    BY <1>4, ConstantsAssumption
  <2>2. o \in Heap => rc[o] = 0
    BY <1>2, Unreferenced
  <2> QED
    BY <1>2, <2>1, <2>2, RefsAre DEF Object
<1>6. o \in Heap => \A c \in Cell : HomeOf(c) = o => ~IsLive(c)
  BY <1>1, NothingEmbeddedLives
<1>7. CASE group[o] = Nil
  <2>1. DisposeAlone(o)
    BY <1>2, <1>3, <1>7, GroupOf
  <2> QED
    BY <1>2, <1>3, <1>4, <1>5, <1>6, <1>7, <2>1, DisposeAloneExpires
<1>8. CASE group[o] # Nil
  <2>1. PICK g \in Heap : g = group[o] /\ DisposeMember(o, g)
    BY <1>2, <1>3, <1>8, GroupOf
  <2>2. o \in Heap
    BY <1>8 DEF IInv, GroupsOK
  <2> QED
    BY <1>2, <1>3, <1>4, <1>5, <1>6, <2>1, <2>2, DisposeMemberExpires
<1> QED
  BY <1>7, <1>8
-----------------------------------------------------------------------------
(* The refinement *)

LEMMA InitialOwnership == Init => O!Init
<1> SUFFICES ASSUME Init PROVE O!Init
  OBVIOUS
<1>1. \A o \in Object : /\ state[o] = IF o \in Heap THEN "absent" ELSE "disposed"
                        /\ group[o] = Nil /\ held[o] = 0
  BY DEF Init
<1>2. \A s \in Slot : slot[s] = Nil
  BY DEF Init
<1>3. \A c \in Cell : c # Nil /\ OwnerSlot[c] \in Slot
  BY ConstantsAssumption
<1>4. IInv
  BY InitOK
<1>5. \A o \in Object : LifeOf(o) = IF o \in Heap THEN "none" ELSE "expired"
  BY <1>1 DEF LifeOf
<1>6. \A o \in Object : RefsOf(o) = 0
  BY <1>1, <1>2, <1>3, <1>4, RefsAre DEF IsLive
<1>7. \A o \in Object : RegionOf(o) = o
  BY <1>1, <1>4, RegionIs
<1> QED
  BY <1>5, <1>6, <1>7 DEF O!Init, O!Object, Object

LEMMA StepsOwn ==
  ASSUME Uses = {}, IInv, [Next]_vars
  PROVE  [O!Next]_(O!vars)
<1>1. IInv'
  BY Inductive
<1>2. CASE UNCHANGED vars
  BY <1>1, <1>2, LooksTheSame, Stutters DEF vars
<1>3. CASE Program
  <2>1. ASSUME NEW o \in Heap, AllocObject(o) \/ AllocInPlace(o) PROVE O!Next
    BY <1>1, <2>1, AllocObjectCreates DEF O!Next
  <2>2. ASSUME NEW c \in Cell, AllocValue(c) PROVE O!Next
    BY <1>1, <2>2, AllocValueEmbeds DEF O!Next
  <2>3. ASSUME NEW p \in Object, AllocChildFails(p) PROVE UNCHANGED O!vars
    BY <1>1, <2>3, AllocChildFailsStutters
  <2>4. ASSUME NEW p \in Object, NEW o \in Heap, AllocChild(o, p) PROVE O!Next
    BY <1>1, <2>4, AllocChildCreates DEF O!Next
  <2>5. ASSUME NEW o \in Object, Retain(o) \/ Release(o) PROVE O!Next
    BY <1>1, <2>5, RetainMoves, ReleaseMoves DEF O!Next
  <2>6. ASSUME NEW s \in Slot, NEW v \in Object \cup {Nil}, StoreStrong(s, v)
        PROVE  O!Next
    BY <1>1, <2>6, StoreStrongMoves DEF O!Next
  <2> QED
    BY <1>3, <2>1, <2>2, <2>3, <2>4, <2>5, <2>6 DEF Program
<1>4. CASE DeallocReturns
  BY <1>1, <1>4, DeallocReturnsStutters
<1>5. CASE \E s \in Slot : ClearIvar(s)
  BY <1>1, <1>5, ClearIvarMoves DEF O!Next
<1>6. CASE Dispose
  <2>1. \E o \in O!Object : O!Expire(o)
    BY <1>1, <1>6, DisposeExpires DEF O!Object, Object
  <2> QED
    BY <2>1 DEF O!Next
<1> QED
  BY <1>2, <1>3, <1>4, <1>5, <1>6 DEF Next, Runtime

\* Allocation, retain, release, storeStrong, the clearing of ivars and
\* sf_object_dispose keep what Ownership promises the program: an object lives
\* until its last reference is gone, an embedded value no longer than its home,
\* and the memory of a group goes back as a whole, with its last live member.
THEOREM OwnershipImplemented == ASSUME Uses = {} PROVE Spec => ImplementsOwnership
<1>1. Init => O!Init
  BY InitialOwnership
<1>2. IInv /\ [Next]_vars => [O!Next]_(O!vars)
  BY StepsOwn
<1> QED
  BY <1>1, <1>2, Invariance, PTL DEF Spec, ImplementsOwnership, O!Spec
=============================================================================
