------------------------------ MODULE ClassMap ------------------------------
(* The map of class names (Runtime/src/loader.c): a hash table with linear   *)
(* probing that images register their classes and aliases in when they are   *)
(* loaded. Nothing is removed from it.                                       *)
EXTENDS Integers, FiniteSets, SequencesExt

CONSTANTS
  Class,        \* class structures
  Name,         \* names of classes and aliases
  Nil,
  Super,        \* [Class -> Class \cup {Nil}]
  Image,        \* images with their Classes and Aliases
  Classes,      \* [Image -> Seq(Class)]: classes_start .. classes_stop
  Aliases,      \* [Image -> Seq(Entry)]
  NameOf,       \* [Class -> Name]
  NameHash,     \* [Name -> Nat]: hash_cstr
  MapSize,      \* SF_CLASS_MAP_CAPACITY
  MaxAliases    \* bound on aliases

Entry == [name : Name, cls : Class]

\* The program registers no class or alias under the name of another class, and
\* no class is its own superclass.
ASSUME ClassMapAssumption ==
  /\ Nil \notin Class \cup Name \cup Entry \cup Nat
  /\ Super \in [Class -> Class \cup {Nil}]
  /\ \A C \in (SUBSET Class) \ {{}} : \E c \in C : Super[c] \notin C
  /\ Classes \in [Image -> Seq(Class)]
  /\ Aliases \in [Image -> Seq(Entry)]
  /\ NameOf \in [Class -> Name]
  /\ \A c, d \in Class : NameOf[c] = NameOf[d] => c = d
  /\ \A img \in Image : \A a \in Range(Aliases[img]) : a.name \notin Range(NameOf)
  /\ NameHash \in [Name -> Nat] /\ MapSize \in Nat \ {0}

\* A superclass chain, the class itself first.
Chain[c \in Class] == IF Super[c] = Nil THEN <<c>> ELSE <<c>> \o Chain[Super[c]]

VARIABLES
  loaded,      \* images loaded
  classMap,    \* g_class_map: [0 .. MapSize-1 -> Entry or Nil]
  registered   \* what the program has registered: [Name -> Class or Nil]

mapVars == <<loaded, classMap, registered>>

MapInit ==
  /\ loaded = {}
  /\ classMap = [i \in 0 .. MapSize - 1 |-> Nil]
  /\ registered = [n \in Name |-> Nil]
-----------------------------------------------------------------------------
\* The first of places that is met from hash on, or none.
Probe(hash, size, places) ==
  LET steps == {k \in 0 .. size - 1 : (hash + k) % size \in places} IN
  IF steps = {} THEN Nil ELSE (hash + CHOOSE k \in steps : \A l \in steps : k <= l) % size

MapPlaceUnprobed(map, n) == NameHash[n] % MapSize
MapPlace(map, n) ==
  Probe(NameHash[n], MapSize, {i \in 0 .. MapSize - 1 : map[i] = Nil \/ map[i].name = n})

\* class_map_insert_unlocked: what does not fit is dropped.
MapInsert(map, entry) ==
  LET i == MapPlace(map, entry.name) IN
  IF i = Nil THEN map ELSE [map EXCEPT ![i] = entry]

\* sf_loader_class_lookup_unlocked
MapLookup(map, n) ==
  LET i == MapPlace(map, n) IN
  IF i = Nil \/ map[i] = Nil THEN Nil ELSE map[i].cls

MappedClasses(map) == {map[i].cls : i \in {j \in 0 .. MapSize - 1 : map[j] # Nil}}

\* What an image registers: its classes, then its aliases.
Registrations(img) ==
  [k \in DOMAIN Classes[img] |-> [name |-> NameOf[Classes[img][k]], cls |-> Classes[img][k]]]
  \o Aliases[img]

\* sf_register_classes, sf_loader_register_class_aliases
Registered(map, list) ==
  LET with[k \in 0 .. Len(list)] == IF k = 0 THEN map ELSE MapInsert(with[k - 1], list[k])
  IN with[Len(list)]

\* objc_copyClassList: each class once, whatever its names.
ClassList ==
  LET list[i \in 0 .. MapSize] ==
        IF i = 0 THEN <<>>
        ELSE LET before == list[i - 1] IN
             IF classMap[i - 1] = Nil \/ classMap[i - 1].cls \in Range(before)
             THEN before ELSE Append(before, classMap[i - 1].cls)
  IN list[MapSize]
-----------------------------------------------------------------------------
LoadedClasses == UNION {Range(Classes[img]) : img \in loaded}
Linked(img) == LoadedClasses \cup Range(Classes[img])

\* The last that list registers under a name, or what was before.
LastOf(list, n, before) ==
  LET at == {k \in DOMAIN list : list[k].name = n} IN
  IF at = {} THEN before ELSE list[CHOOSE k \in at : \A l \in at : l <= k].cls

\* What __objc_load does to the map. An image is loaded once, after those that
\* the classes it refers to come from.
LoadClasses(img) ==
  /\ img \notin loaded
  /\ \A c \in Range(Classes[img]) : Super[c] \in Linked(img) \cup {Nil}
  /\ \A a \in Range(Aliases[img]) : a.cls \in Linked(img)
  /\ loaded' = loaded \cup {img}
  /\ classMap' = Registered(classMap, Registrations(img))
  /\ registered' = [n \in Name |-> LastOf(Registrations(img), n, registered[n])]

\* class_registerAlias_np, with a name that is no class's own
RegisterAlias(c, n) ==
  /\ c \in LoadedClasses /\ n \notin Range(NameOf) /\ registered[n] = Nil
  /\ Cardinality({m \in Name \ Range(NameOf) : registered[m] # Nil}) < MaxAliases
  /\ classMap' = MapInsert(classMap, [name |-> n, cls |-> c])
  /\ registered' = [registered EXCEPT ![n] = c]
  /\ UNCHANGED loaded
-----------------------------------------------------------------------------
\* A class is found under each name it was registered with, and under no other;
\* the list of classes has every class that is loaded, once.
ClassesFound ==
  /\ \A n \in Name : MapLookup(classMap, n) = registered[n]
  /\ Range(ClassList) = LoadedClasses /\ IsInjective(ClassList)
=============================================================================
