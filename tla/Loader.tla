------------------------------- MODULE Loader -------------------------------
(* Loading of images (Runtime/src/loader.c): the map of class names, the     *)
(* table of selectors, and everything that is computed anew for all classes  *)
(* whenever an image is loaded: layout, dispatch tables, class metadata and  *)
(* the classes of tagged pointers.                                           *)
EXTENDS ClassLayout, SelectorTable

CONSTANTS
  Dealloc, TagSel,\* "dealloc" and "taggedPointerSlot"
  MetaHash,       \* [Table -> Nat]
  MetaSize,       \* SF_CLASS_META_CAPACITY
  ObjectName,     \* "Object"
  ValueName,      \* "ValueObject"
  TagSlot,        \* [Class -> Nat]: what taggedPointerSlot answers
  TagSlots,       \* SF_TAGGED_POINTER_SLOT_COUNT
  Failures,       \* kinds of allocations that may fail
  MaxFailures     \* bound on failures

\* Object and ValueObject are classes of the program; an alias cannot take their
\* names.
ASSUME LoaderAssumption ==
  /\ MetaSize \in Nat \ {0}
  /\ {ObjectName, ValueName} \subseteq Range(NameOf)
  /\ Failures \subseteq {"region", "entry", "slots", "values", "merged",
                         "frozen", "dtable", "offsets"}

VARIABLES
  layout,      \* see ClassLayout
  dtable,      \* dispatch tables
  meta,        \* g_class_meta: [0 .. MetaSize-1 -> entry or Nil]
  tagged,      \* g_tagged_pointer_slot_classes
  failed,      \* the allocations that failed in the last load ...
  failures,    \* ... and how many in all
  selectorsFailed \* whether selectors were among them

computedVars == <<layout, dtable, meta, tagged, failed, failures, selectorsFailed>>
vars == <<mapVars, selectorVars, computedVars>>

Init ==
  /\ MapInit /\ SelectorInit
  /\ layout = [offset |-> [c \in Class |-> [i \in DOMAIN Ivars[c] |-> Ivars[c][i].local]],
               size |-> [c \in Class |-> -FoldLeft(LAMBDA n, v : n + v.size, 0, Ivars[c])],
               slots |-> [c \in Class |-> <<>>], fixed |-> {}, active |-> <<>>]
  /\ dtable = [t \in Table |-> Nil]
  /\ meta = [i \in 0 .. MetaSize - 1 |-> Nil]
  /\ tagged = [s \in 1 .. TagSlots - 1 |-> Nil]
  /\ failed = {} /\ failures = 0 /\ selectorsFailed = FALSE
-----------------------------------------------------------------------------
\* The classes of the map in its order.
Mapped(map) ==
  LET used == SelectSeq([i \in 1 .. MapSize |-> map[i - 1]], LAMBDA e : e # Nil) IN
  [i \in DOMAIN used |-> used[i].cls]

(* What is computed for the classes of a map. The arguments: L the layout, S *)
(* the selectors (bySlot, frozen and selOf after the rebuild).               *)

\* Every class is the subclass of Super; the metaclass of a root class is the
\* subclass of that class (sf_finalize_registered_classes sets it).
SuperTable(t) ==
  IF Super[t[1]] # Nil THEN <<Super[t[1]], t[2]>>
  ELSE IF t[2] = "class" THEN <<t[1], "instances">> ELSE Nil

\* A class or metaclass, and those above it.
TableChain(t) ==
  LET chain == Chain[t[1]]
      tables == [k \in DOMAIN chain |-> <<chain[k], t[2]>>] IN
  IF t[2] = "class" THEN Append(tables, <<chain[Len(chain)], "instances">>) ELSE tables

IsObjectIn(map, c) ==
  LET object == MapLookup(map, ObjectName) IN object # Nil /\ IsSubclass(c, object)
IsValueIn(map, c) ==
  LET value == MapLookup(map, ValueName) IN value # Nil /\ IsSubclass(c, value)

\* The caches are reset before.
LaidOut(map, fails) ==
  FoldLeft(LAMBDA L, c : FixLayout(L, c, [n \in Name |-> MapLookup(map, n)],
                                   {v \in Class : IsValueIn(map, v)}, fails),
           [layout EXCEPT !.slots = [c \in Class |-> <<>>], !.fixed = {}], Mapped(map))

\* sf_lookup_method_imp_exact for a cached selector: the class's own methods.
Exact(S, t, n) ==
  LET own == {i \in DOMAIN Methods[t] : Methods[t][i] = n /\ S.selOf[<<t, i>>] = S.generation} IN
  IF SlotIn(S.bySlot, S.frozen, n) = Nil \/ own = {} THEN Nil ELSE <<t, Min(own)>>

UnderInherited(own, inherited) == IF inherited = Nil THEN own ELSE inherited
\* sf_build_class_dtable_unlocked: what the superclass has, and over it the
\* class's own methods, the last of each name. by is the class it is built for.
OverInherited(own, inherited) == IF own = Nil THEN inherited ELSE own
OwnEntry(S, t, s) ==
  LET named == {i \in DOMAIN Methods[t] :
                  S.selOf[<<t, i>>] # Nil /\ SlotIn(S.bySlot, S.frozen, Methods[t][i]) = s - 1}
  IN IF named = {} THEN Nil ELSE <<t, CHOOSE i \in named : \A j \in named : j <= i>>
NewTable(S, t, inherited) ==
  IF inherited = Nil THEN [s \in DOMAIN S.bySlot |-> OwnEntry(S, t, s)]
  ELSE [s \in DOMAIN S.bySlot |-> OverInherited(OwnEntry(S, t, s), inherited[s])]

BuildTable(D, S, table, fails) ==
  LET chain == TableChain(table)
      built[k \in DOMAIN chain] ==
        LET t == chain[k]
            by == IF k = 1 THEN Nil ELSE chain[k - 1]
            above == IF k = Len(chain) THEN D ELSE built[k + 1]
            inherited == IF k = Len(chain) THEN Nil ELSE above[chain[k + 1]] IN
        IF D[t] # Nil THEN D
        ELSE IF <<"dtable", t, by>> \in fails THEN above
        ELSE [above EXCEPT ![t] = NewTable(S, t, inherited)]
  IN IF S.bySlot = <<>> THEN D ELSE built[1]

BuiltTables(map, S, fails) ==
  LET reset == [t \in Table |-> IF t[1] \in MappedClasses(map) THEN Nil ELSE dtable[t]]
      built[i \in 0 .. MapSize] ==
        IF i = 0 THEN reset
        ELSE IF map[i - 1] = Nil THEN built[i - 1]
        ELSE BuildTable(BuildTable(built[i - 1], S, <<map[i - 1].cls, "instances">>, fails),
                        S, <<map[i - 1].cls, "class">>, fails)
  IN built[MapSize]

\* class_meta_slot_for and sf_class_meta_for; g_last_class_meta_entry is the
\* entry found last.
MetaPlace(M, t) ==
  Probe(MetaHash[t], MetaSize, {i \in 0 .. MetaSize - 1 : M[i] = Nil \/ M[i].of = t})
MetaFor(M, t) ==
  LET i == MetaPlace(M, t) IN IF i = Nil \/ M[i] = Nil THEN Nil ELSE M[i]

IvarOffsetsAll(L, t) == IF t[2] = "class" THEN <<>> ELSE L.offset[t[1]]
IvarOffsetsOf(L, t) == IF t[2] = "class" THEN <<>> ELSE ObjectIvarOffsets(L, t[1])

\* sf_cache_class_meta. The place of the entry is found before the entry of the
\* superclass is made, which may take that very place.
CacheMeta(M, C, table, base, fails) ==
  LET chain == TableChain(table)
  cached[k \in DOMAIN chain] ==
  LET t == chain[k]
      place == MetaPlace(M, t)
      last == k = Len(chain)
      above == IF last \/ MetaFor(M, chain[k + 1]) # Nil THEN M ELSE cached[k + 1]
      super == IF last THEN Nil ELSE MetaFor(above, chain[k + 1])
      inherited == IF super = Nil THEN <<>> ELSE super.strong
      offsets == inherited \o IvarOffsetsOf(C.layout, t)
      dealloc == Exact(C, t, Dealloc)
      entry == [of |-> t,
                strong |-> IF <<"offsets", t>> \in fails THEN <<>> ELSE offsets,
                hasObjects |-> offsets # <<>>,
                dealloc |-> dealloc,
                size |-> InstanceSize(C.layout, t[1]),
                trivial |-> offsets = <<>> /\ dealloc \in {Nil, base}] IN
  IF place = Nil THEN M ELSE [above EXCEPT ![place] = entry]
  IN cached[1]

CachedMetas(map, C, fails) ==
  LET object == MapLookup(map, ObjectName)
      base == IF object = Nil THEN Nil ELSE Exact(C, <<object, "instances">>, Dealloc) IN
  FoldLeft(LAMBDA M, c : CacheMeta(CacheMeta(M, C, <<c, "instances">>, base, fails),
                                   C, <<c, "class">>, base, fails),
           [i \in 0 .. MetaSize - 1 |-> Nil], Mapped(map))

ClaimForgetting(T, c, slot) ==
  IF T.classes[slot] = Nil THEN [T EXCEPT !.classes[slot] = c]
  ELSE IF T.classes[slot] = c THEN T ELSE [T EXCEPT !.classes[slot] = Nil]
\* sf_register_tagged_pointer_class_unlocked. T holds the classes of the slots
\* and the slots with a conflict; an alias is no other class.
Claim(T, c, slot) ==
  IF slot \in T.conflicts THEN T
  ELSE IF T.classes[slot] = Nil THEN [T EXCEPT !.classes[slot] = c]
  ELSE IF T.classes[slot] = c THEN T
  ELSE [T EXCEPT !.classes[slot] = Nil, !.conflicts = @ \cup {slot}]

Claims(map, S, entry) ==
  LET c == entry.cls IN
  /\ entry.name = NameOf[c]
  /\ IsObjectIn(map, c) /\ ~IsValueIn(map, c)
  /\ Exact(S, <<c, "class">>, TagSel) # Nil
  /\ TagSlot[c] \in 1 .. TagSlots - 1

\* sf_rebuild_tagged_pointer_class_map_unlocked
TaggedClasses(map, S) ==
  LET none == [classes |-> [s \in 1 .. TagSlots - 1 |-> Nil], conflicts |-> {}]
      claimed[i \in 0 .. MapSize] ==
        IF i = 0 THEN none
        ELSE IF map[i - 1] = Nil \/ ~Claims(map, S, map[i - 1]) THEN claimed[i - 1]
        ELSE Claim(claimed[i - 1], map[i - 1].cls, TagSlot[map[i - 1].cls])
  IN claimed[MapSize].classes
-----------------------------------------------------------------------------
\* The allocations made when img is loaded, by what they are for, that may fail.
Allocations(img) ==
  SelectorAllocations(img)
  \cup ({"values", "merged"} \X Linked(img)) \cup ({"offsets"} \X (Linked(img) \X Side))
  \cup {<<"dtable", t, Nil>> : t \in Linked(img) \X Side}
  \cup {<<"dtable", SuperTable(t), t>> : t \in {u \in Linked(img) \X Side : SuperTable(u) # Nil}}
MayFailIn(img) == {f \in Allocations(img) : f[1] \in Failures}

\* The rest of sf_finalize_registered_classes, once the class map and the
\* selectors are those with img.
Finalize(fails) ==
  LET S == [bySlot |-> bySlot', frozen |-> frozen', generation |-> generation',
            selOf |-> selOf', layout |-> layout'] IN
  /\ layout' = LaidOut(classMap', fails)
  /\ dtable' = BuiltTables(classMap', S, fails)
  /\ meta' = CachedMetas(classMap', S, fails)
  /\ tagged' = TaggedClasses(classMap', S)

\* __objc_load
Load(img) ==
  /\ LoadClasses(img)
  /\ \E fails \in {{}} \cup {{f} : f \in MayFailIn(img)} :
     /\ failures + Cardinality(fails) <= MaxFailures
     /\ failed' = fails /\ failures' = failures + Cardinality(fails)
     /\ selectorsFailed' = (selectorsFailed \/ \E f \in fails : f[1] \in {"entry", "frozen", "slots"})
     /\ LoadSelectors(img, fails)
     /\ Finalize(fails)

Next ==
  \/ \E img \in Image : Load(img)
  \/ \E c \in Class, n \in Name : RegisterAlias(c, n) /\ UNCHANGED <<selectorVars, computedVars>>
  \/ \E s \in Static : \E fails \in {{}, {<<"entry", StaticName[s]>>}} :
       Intern(s, fails) /\ UNCHANGED <<mapVars, computedVars>>

Spec == Init /\ [][Next]_vars
=============================================================================
