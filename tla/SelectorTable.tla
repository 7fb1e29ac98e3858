---------------------------- MODULE SelectorTable ----------------------------
(* The table of selectors (Runtime/src/loader.c): when an image is loaded    *)
(* the names of all selectors are collected, new selectors are made of them, *)
(* what pointed to the old ones is redirected, and those are freed. A class  *)
(* has two tables of methods, that of its instances and that of the class    *)
(* itself, its metaclass.                                                    *)
EXTENDS ClassMap

CONSTANTS
  Selectors,      \* [Image -> Seq(SelName)]: the selector region
  SelName,        \* names of selectors
  SelBucket,      \* [SelName -> Nat]: the bucket of g_selector_table
  Builtins,       \* Seq(SelName): builtin_selectors
  Static,         \* selectors of the program's own that it interns when it first
                  \* needs them, as arc.c does with .cxx_destruct in two places
  StaticName,     \* [Static -> SelName]
  Methods         \* [Table -> Seq(SelName)]; method i has its own IMP

Side == {"instances", "class"}
Table == Class \X Side
Method == {m \in Table \X (1 .. 10) : m[2] \in DOMAIN Methods[m[1]]}
\* The selectors of the regions
Region == UNION {{img} \X DOMAIN Selectors[img] : img \in Image}

\* A class defines a method once.
ASSUME SelectorAssumption ==
  /\ Nil \notin SelName \cup (Table \X (1 .. 10))
  /\ Selectors \in [Image -> Seq(SelName)]
  /\ Builtins \in Seq(SelName) /\ StaticName \in [Static -> SelName]
  /\ SelBucket \in [SelName -> Nat]
  /\ \A t \in Table : /\ Methods[t] \in Seq(SelName) /\ Len(Methods[t]) <= 10
                      /\ IsInjective(Methods[t])

VARIABLES
  regions,     \* g_selector_regions, the last one first
  entries,     \* names of the entries of g_selector_table, bucket by bucket
  bySlot,      \* g_selectors_by_slot; slot n is at n + 1
  frozen,      \* whether the entries point to the selectors of bySlot
  generation,  \* the allocation that bySlot is from; those before are freed
  selOf,       \* generation of the selector of each method; 0 is the image's
               \* own, Nil none
  nameOf,      \* the same for the name of each selector in a region
  spelled,     \* and that name
  handed,      \* what interning has answered for a static selector: the generation
               \* of the selector, 0 for itself, and the images loaded then
  lost         \* names that had a selector when those were freed and got no new one

selectorVars ==
  <<regions, entries, bySlot, frozen, generation, selOf, nameOf, spelled, handed, lost>>

SelectorInit ==
  /\ regions = <<>> /\ entries = <<>> /\ bySlot = <<>> /\ frozen = FALSE /\ generation = 0
  /\ selOf = [m \in Method |-> 0]
  /\ nameOf = [r \in Region |-> 0] /\ spelled = [r \in Region |-> Selectors[r[1]][r[2]]]
  /\ handed = [s \in Static |-> Nil] /\ lost = {}
-----------------------------------------------------------------------------
\* sf_selector_entry_insert_unlocked puts a new entry first in its bucket.
InsertEntry(table, n) ==
  IF n \in Range(table) THEN table
  ELSE InsertAt(table, 1 + Cardinality({i \in DOMAIN table : SelBucket[table[i]] < SelBucket[n]}), n)

\* A name that is not there, or that there is no memory for, is left out.
WithNames(table, names, fails) ==
  LET with[k \in 0 .. Len(names)] ==
        IF k = 0 THEN table
        ELSE IF names[k] = Nil \/ <<"entry", names[k]>> \in fails THEN with[k - 1]
        ELSE InsertEntry(with[k - 1], names[k])
  IN with[Len(names)]

\* The names of a class's methods that have a selector.
MethodNames(t) == [i \in DOMAIN Methods[t] |-> IF selOf[<<t, i>>] = Nil THEN Nil ELSE Methods[t][i]]

\* The selectors of regions whose name is in memory that was freed. What is read
\* there may be the name of a selector that took its place, or none at all.
Stranded == {r \in Region : nameOf[r] \notin {0, generation}}
Readings(others) ==
  {[r \in Region |-> IF r \in Stranded THEN read[r] ELSE spelled[r]] :
     read \in [Stranded -> others \cup {Nil}]}
RegionNames(img, names) == [i \in DOMAIN Selectors[img] |-> names[<<img, i>>]]

\* sf_loader_register_selector_region and sf_collect_runtime_selectors_unlocked:
\* the names that regions are read to have, those of the methods of mapped
\* classes, and the builtin ones.
CollectedNames(newRegions, map, names) ==
  [k \in DOMAIN newRegions |-> RegionNames(newRegions[k], names)]
  \o [i \in 1 .. MapSize |->
        IF map[i - 1] = Nil THEN <<>>
        ELSE MethodNames(<<map[i - 1].cls, "instances">>)
             \o MethodNames(<<map[i - 1].cls, "class">>)]
  \o <<Builtins>>
Collect(newRegions, map, names, fails) ==
  WithNames(entries, FlattenSeq(CollectedNames(newRegions, map, names)), fails)

\* The entries that there is memory for get a new selector, and the next slot.
Frozen(table, fails) ==
  LET made[k \in 0 .. Len(table)] ==
        IF k = 0 THEN <<>>
        ELSE IF <<"frozen", table[k]>> \in fails THEN made[k - 1]
        ELSE Append(made[k - 1], table[k])
  IN made[Len(table)]

\* sf_selector_slot, with the table and the flag of the moment
SlotIn(table, valid, n) ==
  IF valid /\ n \in Range(table) THEN (CHOOSE s \in DOMAIN table : table[s] = n) - 1 ELSE Nil
NameOfMethod(m) == Methods[m[1]][m[2]]
\* The names are read through selectors that are still there.
HasName(m) == selOf[m] \in {0, generation}

RedirectedNew(newRegions, slots, names) ==
  {r \in Region : /\ newRegions # regions /\ r[1] = Head(newRegions)
                  /\ names[r] \in Range(slots)}
\* The end of sf_rebuild_frozen_selectors_unlocked: the selectors of regions get
\* the names, and methods the selectors, that are new, before the old ones are
\* freed. Where there is no new one the old stays.
Redirected(newRegions, slots, names) ==
  {r \in Region : r[1] \in Range(newRegions) /\ names[r] \in Range(slots)}

\* ... and sf_canonicalize_method_selectors. When the array of selectors cannot
\* be allocated no name is found, and the methods lose their selectors. So does a
\* method whose name alone got no new selector: it still has the old one, which is
\* freed, so that the program may crash here, and what it has for a name, the
\* first word of that memory, is the old name or none that is known.
Canonical(map, slots, valid, gen) ==
  [m \in Method |->
     IF m[1][1] \notin MappedClasses(map) \/ ~(HasName(m) \/ selOf[m] = Nil) THEN selOf[m]
     ELSE IF selOf[m] # Nil /\ SlotIn(slots, valid, NameOfMethod(m)) # Nil THEN gen ELSE Nil]
-----------------------------------------------------------------------------
\* The allocations that may fail, by what they are for.
SelectorAllocations(img) ==
  ({"region"} \X {img}) \cup ({"entry", "frozen"} \X SelName) \cup ({"slots"} \X {Nil})

\* What __objc_load does to selectors, once the map has the classes of img. Freed
\* names are read twice, when names are collected (one that has an entry already
\* adds none) and when they are redirected.
LoadSelectors(img, fails) ==
  \E first \in Readings(SelName \ Range(entries)) :
  LET map == Registered(classMap, Registrations(img))
      newRegions == IF <<"region", img>> \in fails \/ Selectors[img] = <<>> THEN regions
                    ELSE <<img>> \o regions
      table == Collect(newRegions, map, first, fails)
      valid == <<"slots", Nil>> \notin fails
      slots == IF valid THEN Frozen(table, fails) ELSE bySlot
      gen == IF valid THEN generation + 1 ELSE generation IN
  /\ regions' = newRegions
  /\ entries' = table /\ bySlot' = slots /\ frozen' = valid /\ generation' = gen
  /\ selOf' = Canonical(map, slots, valid, gen)
  /\ \E second \in Readings(Range(table)) :
       LET new == IF valid THEN Redirected(newRegions, slots, second) ELSE {} IN
       /\ nameOf' = [r \in Region |-> IF r \in new THEN gen ELSE nameOf[r]]
       /\ spelled' = [r \in Region |-> IF r \in new THEN second[r] ELSE spelled[r]]
  /\ lost' = IF valid THEN lost \cup {n \in Range(bySlot) : <<"frozen", n>> \in fails} ELSE lost
  /\ UNCHANGED handed

HandOut(s, sel) == handed' = [handed EXCEPT ![s] = [sel |-> sel, at |-> loaded]]
\* sf_intern_selector with a static selector, which keeps what it is answered: the
\* selector of its name, whose strings it then points to, or else itself, and its
\* name has an entry if there is memory for it, until the next load without a slot.
Intern(s, fails) ==
  /\ loaded # {} /\ handed[s] = Nil
  /\ LET known == SlotIn(bySlot, frozen, StaticName[s]) # Nil IN
     \/ known /\ HandOut(s, generation) /\ UNCHANGED entries
     \/ ~known /\ HandOut(s, 0) /\ entries' = WithNames(entries, <<StaticName[s]>>, fails)
  /\ UNCHANGED <<regions, bySlot, frozen, generation, selOf, nameOf, spelled, lost>>
-----------------------------------------------------------------------------
LoadedTables == LoadedClasses \X Side

\* No method of a loaded class uses a selector that was freed. No selector of a
\* region has its name in one, or another's name, unless its name had a selector
\* and got no new one when an image was loaded. What interning has answered is not
\* freed before the next image is loaded. Two selectors have two slots.
SelectorsLive ==
  /\ \A m \in Method : m[1] \in LoadedTables => selOf[m] \in {Nil, generation}
  /\ \A r \in Region : \/ Selectors[r[1]][r[2]] \in lost
                       \/ nameOf[r] \in {0, generation} /\ spelled[r] = Selectors[r[1]][r[2]]
  /\ \A s \in Static : handed[s] # Nil /\ handed[s].at = loaded
                         => handed[s].sel \in {0, generation}
  /\ IsInjective(bySlot) /\ Range(bySlot) \subseteq Range(entries)
=============================================================================
